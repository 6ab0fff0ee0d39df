SPECIFICATION Spec
CONSTANTS
    Branch = {main, therapist}
    Message <- Messages
    TurnTokens = {1, 2}
    TokenBudget = 2
    TriggerRounds = 2
    EngineRounds = 3
    Agents = {"any", "SimpleInsightEngine", "ConsolidationAgent", "none"}
    Persona = {"default", NoId}
    NoId = NoId
    Injector = TRUE
    MaxTurns = 3
SYMMETRY BranchSymmetry
INVARIANTS BudgetOvershotOnce ToldAndDoneIsRemembered MoodIsRecent ConsolidatedInTime
CHECK_DEADLOCK FALSE
