---------------------------- MODULE EdgeBuilder ----------------------------
(***************************************************************************)
(* SimpleEdgeBuilder (memory_system/l3_semantic/edge_builder.py): the      *)
(* edges a turn of the conversation is turned into.  Of its text a turn    *)
(* has what the templates match: pairs <<cause, effect>>, pairs of         *)
(* opposites, and whether it is longer than ten characters.  An effect is  *)
(* one character, since every template ends in a lazy group.               *)
(***************************************************************************)
EXTENDS Naturals, Sequences, SequencesExt

CONSTANTS
    Turn,       \* [id, prev, entities, caused, long, opposed]
    NoTurn,     \* the prev of the first turn of a session
    Weak        \* the node "weak_correlation"

MadeEdge(id, source, target, type) ==
    [id |-> id, source |-> source, target |-> target, type |-> type, status |-> "active"]

Mentions(t) ==
    [i \in DOMAIN t.entities |->
        MadeEdge(<<t.id, "mentions", t.entities[i]>>, t.id, t.entities[i], "MENTIONS")]

TemporalNext(t) ==
    IF t.prev = NoTurn THEN <<>>
    ELSE <<MadeEdge(<<t.prev, "next", t.id>>, t.prev, t.id, "TEMPORAL_NEXT")>>

\* A long turn that no template matches is correlated with everything.
extract_caused(t) ==
    IF t.caused # <<>>
    THEN [i \in DOMAIN t.caused |->
            MadeEdge(<<t.id, "caused">> \o t.caused[i], t.caused[i][1], t.caused[i][2], "CAUSED")]
    ELSE IF t.long THEN <<MadeEdge(<<t.id, "correlated">>, t.id, Weak, "CORRELATED")>>
    ELSE <<>>

\* The id names the turn only, however many opposites it holds.
extract_contradicts(t) ==
    [i \in DOMAIN t.opposed |->
        MadeEdge(<<t.id, "contradict">>, t.id, <<"contradict">> \o t.opposed[i], "CONTRADICTS")]

build_edges(t) == Mentions(t) \o TemporalNext(t) \o extract_caused(t) \o extract_contradicts(t)
=============================================================================
