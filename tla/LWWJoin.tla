------------------------------ MODULE LWWJoin ------------------------------
(***************************************************************************)
(* What a last-writer-wins map promises: every replica shows, for each     *)
(* key, the newest of all the versions it has ever learned, whatever the   *)
(* order in which it learned them and however often.  A replica learns a   *)
(* version by writing it or from a replica that shows it.                  *)
(***************************************************************************)
EXTENDS HybridTimestamp

CONSTANTS
    Device,     \* the replicas
    Key,        \* the keys of the map
    Item,       \* the versions a key may have
    None        \* no version

VARIABLES
    learned,    \* learned[d]: the versions replica d has written or received
    view        \* view[d][k]: the version replica d shows for key k

vars == <<learned, view>>

\* v is the newest of the versions of key k in S, or None if there is none.
IsLatest(v, S, k) ==
    \/ /\ v = None
       /\ \A e \in S : e.key # k
    \/ /\ v \in S
       /\ v.key = k
       /\ \A e \in S : e.key = k => e = v \/ Newer(v, e)

\* The newest of the versions of key k in S.
Latest(S, k) == CHOOSE v \in S \union {None} : IsLatest(v, S, k)

Init ==
    /\ learned = [d \in Device |-> {}]
    /\ view = [d \in Device |-> [k \in Key |-> None]]

\* Replica d learns the versions S and shows the newest of what it knows.
Learn(d, S) ==
    /\ learned' = [learned EXCEPT ![d] = @ \union S]
    /\ view' = [view EXCEPT ![d] = [k \in Key |-> Latest(learned[d] \union S, k)]]

Write(d) == \E e \in Item : e.device = d /\ Learn(d, {e})

Receive(d) ==
    \E S \in SUBSET UNION {learned[x] : x \in Device} : Learn(d, S)

Next == \E d \in Device : Write(d) \/ Receive(d)

Spec == Init /\ [][Next]_vars
=============================================================================
