----------------------------- MODULE Retrieval -----------------------------
(***************************************************************************)
(* HybridRetriever (memory_system/retrieval/hybrid_retriever.py) over an   *)
(* episodic store and the intent graph: what both recall is interleaved,   *)
(* a memory known to both being listed once.                               *)
(*                                                                         *)
(* The retriever unpacks triples (node, hop, weight).  IntentNavigator,    *)
(* the only navigator of the repository, answers with pairs: unpacking the *)
(* first raises, the error is caught, and the graph contributes nothing.   *)
(* The navigators of tests/test_hybrid_retriever.py answer with triples.   *)
(***************************************************************************)
EXTENDS EpisodicStore, IntentGraph

CONSTANTS Navigators,   \* "pairs", "triples": what the navigator may answer with
          Queries,      \* of a query the concepts it names and the pattern of its intent
          MaxWrites     \* bound: entries and edges added to a branch

ASSUME QueryAssumption ==
    /\ Branch \subseteq GraphBranch
    /\ \A q \in Queries : q.concepts \in Seq(Node)

vars == <<storeVars, graphVars>>

Init == StoreInit /\ GraphInit
-----------------------------------------------------------------------------
\* The l3_memories: the first k nodes found.
GraphRecall(navigator, found, k) ==
    IF navigator = "pairs" THEN <<>> ELSE SubSeq(found, 1, Min({k, Len(found)}))

\* What is listed after the n-th memory of list, if there is one, was offered.
Add(list, n, out, k) ==
    IF n > Len(list) \/ Len(out) >= k \/ list[n] \in ToSet(out) THEN out
    ELSE Append(out, list[n])

\* Fault: fusion stops when either list is exhausted.
FaultyFuse(l2, l3, k) ==
    LET out[n \in 0 .. Min({Len(l2), Len(l3)})] ==
            IF n = 0 THEN <<>> ELSE Add(l3, n, Add(l2, n, out[n - 1], k), k)
    IN  out[Min({Len(l2), Len(l3)})]

\* The fusion loop: one of each in turn, unless it is listed already.
Fuse(l2, l3, k) ==
    LET out[n \in 0 .. Max({Len(l2), Len(l3)})] ==
            IF n = 0 THEN <<>> ELSE Add(l3, n, Add(l2, n, out[n - 1], k), k)
    IN  out[Max({Len(l2), Len(l3)})]

\* HybridRetriever.retrieve for one ranking of the store.  Memories are known by
\* their ids, and so are the nodes of the graph.
hybrid_retrieve(b, hits, navigator, query, k) ==
    LET l2 == [j \in DOMAIN hits |-> entries[b][hits[j]].id]
        l3 == GraphRecall(navigator, NavigateFrom(b, query.concepts, query.pattern), k)
    IN  [l2 |-> l2, l3 |-> l3, list |-> Fuse(l2, l3, k)]

Next ==
    /\ \/ StoreNext /\ UNCHANGED graphVars
       \/ GraphNext /\ UNCHANGED storeVars
    /\ \A b \in Branch : adds'[b] + Len(edges'[b]) <= MaxWrites

Spec == Init /\ [][Next]_vars
-----------------------------------------------------------------------------
\* The fused list has each memory and node once, nothing else, and leaves room
\* only when nothing is left: as many as asked for, or all that either recalled.
FusionIsExact ==
    \A b \in Branch, k \in 1 .. MaxK, navigator \in Navigators, query \in Queries :
        \A hits \in retrieve(b, k) :
            LET fused == hybrid_retrieve(b, hits, navigator, query, k)
                recalled == ToSet(fused.l2) \union ToSet(fused.l3)
            IN  /\ ToSet(fused.list) \subseteq recalled
                /\ IsInjective(fused.list)
                /\ Len(fused.list) = Min({k, Cardinality(recalled)})
=============================================================================
