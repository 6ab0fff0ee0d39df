---------------------------- MODULE IntentGraph ----------------------------
(***************************************************************************)
(* IntentGraph (memory_system/l3_semantic/intent_graph.py): typed edges    *)
(* between concepts and memories, each usable until it is deprecated, and  *)
(* the search along them.  Weights only decide in which order it lists     *)
(* what it found, and are left out.                                        *)
(***************************************************************************)
EXTENDS EdgeBuilder, Selection, FiniteSets

CONSTANTS
    GraphBranch,
    Node,           \* ids of concepts, memories and turns
    SeedNode,       \* the nodes that edges are added between by hand
    SeedId,         \* the ids of these edges
    Patterns,       \* IntentPattern: entry_edge_types as types, max_hops
    MaxEdges        \* bound: edges added to a branch

\* CORRELATED, which SimpleEdgeBuilder falls back to, is not among them.
EDGE_TYPES == {"IS_A", "MENTIONS", "TEMPORAL_NEXT", "CAUSED",
               "CONTRADICTS", "BELONGS_TO", "SIMILAR_TO", "TRIGGERED_BY"}

ASSUME GraphAssumption ==
    /\ IsFiniteSet(Node) /\ SeedNode \subseteq Node
    /\ \A t \in Turn :
        /\ t.entities \in Seq(Node) /\ t.caused \in Seq(Node \X Node)
        /\ t.opposed \in Seq(ToSet(t.opposed))
    /\ \A p \in Patterns : p.types \subseteq EDGE_TYPES /\ p.max_hops \in Nat
    /\ \A t \in Turn : \A i \in DOMAIN build_edges(t) :
            {build_edges(t)[i].source, build_edges(t)[i].target} \subseteq Node

VARIABLES
    edges,              \* _edges: for each branch a sequence of edges
    deprecated_edges    \* _deprecated_edges: the ids not to be used

graphVars == <<edges, deprecated_edges>>

Status == {"active", "deprecated"}
SeedEdge == [id : SeedId, source : SeedNode, target : SeedNode, type : {"MENTIONS"}, status : Status]

GraphInit ==
    /\ edges = [b \in GraphBranch |-> <<>>]
    /\ deprecated_edges = [b \in GraphBranch |-> {}]
-----------------------------------------------------------------------------
\* Fault: an edge added as deprecated is not put into the set.
Faultyadd_edge(b, e) ==
    /\ Len(edges[b]) < MaxEdges
    /\ edges' = [edges EXCEPT ![b] = Append(@, e)]
    /\ UNCHANGED deprecated_edges

add_edge(b, e) ==
    /\ Len(edges[b]) < MaxEdges
    /\ edges' = [edges EXCEPT ![b] = Append(@, e)]
    /\ deprecated_edges' = [deprecated_edges EXCEPT ![b] =
            IF e.status # "active" THEN @ \union {e.id} ELSE @]

\* The first edge with the id, and no other, gets the status.
SetStatus(b, id, status) ==
    LET i == SelectInSeq(edges[b], LAMBDA e : e.id = id)
    IN  edges' = IF i = 0 THEN edges ELSE [edges EXCEPT ![b][i].status = status]

deprecate_edge(b, id) ==
    /\ deprecated_edges' = [deprecated_edges EXCEPT ![b] = @ \union {id}]
    /\ SetStatus(b, id, "deprecated")

reactivate_edge(b, id) ==
    /\ deprecated_edges' = [deprecated_edges EXCEPT ![b] = @ \ {id}]
    /\ SetStatus(b, id, "active")

\* The edges made of a turn are added in turn, until one is refused: add_edge
\* raises ValueError for a CORRELATED edge.
AddTurnEdges(b, t) ==
    LET made == build_edges(t)
        refused == SelectInSeq(made, LAMBDA e : e.type \notin EDGE_TYPES)
        added == IF refused = 0 THEN made ELSE SubSeq(made, 1, refused - 1)
    IN  /\ Len(edges[b]) + Len(added) <= MaxEdges
        /\ edges' = [edges EXCEPT ![b] = @ \o added]
        /\ UNCHANGED deprecated_edges

GraphNext ==
    \E b \in GraphBranch :
        \/ \E e \in SeedEdge : add_edge(b, e)
        \/ \E t \in Turn : AddTurnEdges(b, t)
        \/ \E id \in SeedId \union {edges[b][i].id : i \in DOMAIN edges[b]} :
                deprecate_edge(b, id) \/ reactivate_edge(b, id)
-----------------------------------------------------------------------------
\* get_edges, and the edges navigate follows.
get_edges(b) ==
    Kept(edges[b], {e \in ToSet(edges[b]) : e.id \notin deprecated_edges[b]})

\* The nodes found from node, in the order of the edges: the other ends of its
\* edges, each once.
Found(active, node, types, visited) ==
    LET found[n \in 0 .. Len(active)] ==
            IF n = 0 THEN <<>>
            ELSE LET soFar == found[n - 1]
                     e == active[n]
                     target == IF e.source = node THEN e.target ELSE e.source
                 IN  IF /\ e.type \in types /\ node \in {e.source, e.target}
                        /\ target \notin visited \union ToSet(soFar)
                     THEN Append(soFar, target)
                     ELSE soFar
    IN  found[Len(active)]

\* Fault: a node at the last hop is expanded too.
FaultyExpansion(active, order, n, types, max_hops) ==
    IF n > Len(order) \/ order[n][2] > max_hops THEN <<>>
    ELSE LET found == Found(active, order[n][1], types, {order[i][1] : i \in DOMAIN order})
         IN  [j \in DOMAIN found |-> <<found[j], order[n][2] + 1>>]

\* What the loop of navigate queues when it takes the n-th pair <<node, hop>>
\* from its queue; order holds all that it has queued, which are the visited.
Expansion(active, order, n, types, max_hops) ==
    IF n > Len(order) \/ order[n][2] >= max_hops THEN <<>>
    ELSE LET found == Found(active, order[n][1], types, {order[i][1] : i \in DOMAIN order})
         IN  [j \in DOMAIN found |-> <<found[j], order[n][2] + 1>>]

\* The loop of navigate: all it queues but the start, in that order.  A node is
\* queued at most once, so there are no more turns than nodes.
navigate(b, start, types, max_hops) ==
    LET active == get_edges(b)
        queued[n \in 0 .. Cardinality(Node)] ==
            IF n = 0 THEN <<<<start, 0>>>>
            ELSE LET order == queued[n - 1]
                 IN  order \o Expansion(active, order, n, types, max_hops)
    IN  Tail(queued[Cardinality(Node)])

\* IntentNavigator.navigate: what is found from each of the concepts named in
\* the query, listed once.
NavigateFrom(b, concepts, pattern) ==
    LET listed[n \in 0 .. Len(concepts)] ==
            IF n = 0 THEN <<>>
            ELSE LET soFar == listed[n - 1]
                     hits == navigate(b, concepts[n], pattern.types, pattern.max_hops)
                     nodes == [j \in DOMAIN hits |-> hits[j][1]]
                 IN  soFar \o Kept(nodes, Node \ ToSet(soFar))
    IN  listed[Len(concepts)]

\* Reference: the nodes at most n edges away, whatever the order of the edges.
Within(b, start, types, n) ==
    LET usable == {e \in ToSet(edges[b]) : e.type \in types /\ e.id \notin deprecated_edges[b]}
        within[m \in 0 .. n] ==
            IF m = 0 THEN {start}
            ELSE LET near == within[m - 1]
                 IN  near \union {e.target : e \in {f \in usable : f.source \in near}}
                          \union {e.source : e \in {f \in usable : f.target \in near}}
    IN  within[n]
-----------------------------------------------------------------------------
\* navigate finds every node within max_hops edges of the start that may be
\* used, each once and with the least number of hops.
NavigateFindsNearest ==
    \A b \in GraphBranch, p \in Patterns :
      \A start \in UNION {{e.source, e.target} : e \in ToSet(edges[b])} :
        LET found == navigate(b, start, p.types, p.max_hops)
            W(n) == Within(b, start, p.types, n)
        IN  /\ IsInjective([i \in DOMAIN found |-> found[i][1]])
            /\ ToSet(found) = UNION {{<<x, n>> : x \in W(n) \ W(n - 1)} : n \in 1 .. p.max_hops}

\* "Only edges with status == active are traversed": an edge whose status says
\* otherwise is not, as long as no other edge has its id.  The converse fails: an
\* id may be deprecated before its edge is added.
OnlyActiveTraversed ==
    \A b \in GraphBranch : \A i \in DOMAIN edges[b] :
        LET e == edges[b][i]
            unique == \A j \in DOMAIN edges[b] : edges[b][j].id = e.id => j = i
        IN  e.status # "active" /\ unique => e \notin ToSet(get_edges(b))
=============================================================================
