SPECIFICATION Spec
CONSTANTS
    blank = blank
    short = short
    middle = middle
    long = long
    m1 = m1
    food = food
    None = None
    Branch = {"main"}
    GraphBranch = {"main"}
    Id = {m1}
    Content = {blank, short, middle, long}
    Length <- Lengths
    SimilarPairs <- Chain
    MaxK = 2
    MaxAdds = 3
    t1 = t1
    t2 = t2
    cause = cause
    effect = effect
    pos = pos
    neg = neg
    hate = hate
    NoTurn = NoTurn
    Weak = Weak
    Turn <- Turns
    Node <- Nodes
    SeedNode = {m1, food}
    SeedId = {e1, e2}
    Patterns <- IntentPatterns
    Queries <- NamedConcepts
    MaxEdges = 3
    MaxWrites = 3
    Navigators = {"pairs", "triples"}
INVARIANTS VectorsMatchEntries NothingToldIsLost RetrievalIsFull FusionIsExact NavigateFindsNearest OnlyActiveTraversed
CHECK_DEADLOCK FALSE
