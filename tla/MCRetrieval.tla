---------------------------- MODULE MCRetrieval ----------------------------
(***************************************************************************)
(* Retrieval on a small instance.  Similarity is not transitive: the short *)
(* and the long text are like the middle one and not like each other.  The *)
(* blank text has a zero vector.  One memory is a node of the graph.       *)
(***************************************************************************)
EXTENDS Retrieval

CONSTANTS blank, short, middle, long, m1, food, t1, t2, cause, effect, pos, neg, hate

Lengths == (blank :> 0) @@ (short :> 1) @@ (middle :> 2) @@ (long :> 3)
Said(id, prev, entities, caused, opposed) ==
    [id |-> id, prev |-> prev, entities |-> entities, caused |-> caused, long |-> TRUE, opposed |-> opposed]
Turns == {Said(t2, t1, <<food>>, <<>>, <<<<pos, neg>>>>),
          Said(t2, t1, <<>>, <<<<cause, effect>>>>, <<>>),
          Said(t1, NoTurn, <<>>, <<<<cause, effect>>>>, <<<<pos, neg>>, <<pos, hate>>>>)}
Nodes == {m1, food, t1, t2, cause, effect, Weak, <<"contradict", pos, neg>>, <<"contradict", pos, hate>>}
Mentioned == [types |-> {"MENTIONS"}, max_hops |-> 1]
Anything == [types |-> {"MENTIONS", "TEMPORAL_NEXT", "CAUSED", "CONTRADICTS"}, max_hops |-> 3]
IntentPatterns == {Mentioned, Anything}
NamedConcepts == {[concepts |-> <<food, m1>>, pattern |-> Anything]}
Chain == {<<short, short>>, <<middle, middle>>, <<long, long>>, <<short, middle>>, <<middle, long>>}
=============================================================================
