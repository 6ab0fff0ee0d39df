---------------------------- MODULE L0SyncProofs ----------------------------
(***************************************************************************)
(* Proofs about L0Sync: every map, of a layer or of a manager, shows the   *)
(* newest of the versions it was given, or one as new, for any devices,    *)
(* keys and clocks.  So two maps that were given the same agree up to ties.*)
(***************************************************************************)
EXTENDS L0Sync, TLAPS

\* Of the versions given, none is newer than what is shown.
IsNewest(given, k, shown) ==
    /\ shown = None => \A f \in given : f.key # k
    /\ shown # None => shown \in given /\ shown.key = k
    /\ shown # None => \A f \in given : f.key = k => ~Newer(f, shown)

Types ==
    /\ store \in [User -> [Device -> [Key -> Item \union {None}]]]
    /\ learned \in [User -> [Device -> SUBSET Item]]

IInv ==
    /\ Types
    /\ \A u \in User, d \in Device, k \in Key : IsNewest(learned[u][d], k, store[u][d][k])
-----------------------------------------------------------------------------
\* The order is total up to timestamp and device, and what does not win against
\* a version does not win against a newer one.
LEMMA NewerOrder ==
    ASSUME NEW a \in Item, NEW b \in Item, NEW c \in Item
    PROVE  /\ ~Newer(a, a)
           /\ ~Newer(a, b) /\ ~Newer(b, a) => TsEqual(a, b) /\ a.device = b.device
           /\ ~Newer(a, b) /\ Newer(c, b) => ~Newer(a, c)
<1>1. ASSUME NEW x \in Item
      PROVE  x.physical \in Int /\ x.logical = 0 /\ x.device \in Int
  <2>1. x.physical \in 0..MaxTime /\ x.logical = 0 /\ x.device \in Device
    BY DEF Item
  <2>2. x.physical \in Int
    BY <2>1, BoundAssumption
  <2>3. x.device \in Nat
    BY <2>1, DeviceAssumption
  <2> QED
    BY <2>1, <2>2, <2>3
<1>2. /\ a.physical \in Int /\ a.logical = 0 /\ a.device \in Int
      /\ b.physical \in Int /\ b.logical = 0 /\ b.device \in Int
      /\ c.physical \in Int /\ c.logical = 0 /\ c.device \in Int
  BY <1>1
<1> QED
  BY <1>2 DEF Newer, TsBefore, TsEqual

\* One map takes a version or keeps its own: of all it has been given it shows
\* the newest still.
LEMMA WinnerIsNewest ==
    ASSUME NEW given \in SUBSET Item, NEW S \in SUBSET Item,
           \A e, f \in S : e.key = f.key => e = f,
           NEW k, NEW shown \in Item \union {None}, IsNewest(given, k, shown),
           NEW won \in SUBSET S, NEW next,
           \A e \in S : e \in won <=> e.key = k /\ Wins(shown, e),
           IF won = {} THEN next = shown ELSE next \in won
    PROVE  next \in Item \union {None} /\ IsNewest(given \union S, k, next)
<1>1. CASE won = {}
  <2>1. next = shown
    BY <1>1
  <2>2. \A e \in S : e.key = k => shown # None /\ ~Newer(e, shown)
    BY <1>1 DEF Wins
  <2> QED
    BY <2>1, <2>2 DEF IsNewest
<1>2. CASE won # {}
  <2>1. next \in won
    BY <1>2
  <2>2. next \in S /\ next \in Item /\ next.key = k /\ next # None
        /\ (shown = None \/ Newer(next, shown))
    BY <2>1, NoneAssumption DEF Wins
  <2>3. ASSUME NEW f \in given, f.key = k PROVE ~Newer(f, next)
    <3>1. shown # None /\ ~Newer(f, shown)
      BY <2>3 DEF IsNewest
    <3>2. shown \in Item
      BY <3>1
    <3> QED
      BY <2>2, <3>1, <3>2, NewerOrder
  <2>4. ASSUME NEW f \in S, f.key = k PROVE ~Newer(f, next)
    <3>1. f = next
      BY <2>2, <2>4
    <3> QED
      BY <2>2, <3>1, NewerOrder
  <2> QED
    BY <2>2, <2>3, <2>4 DEF IsNewest
<1> QED
  BY <1>1, <1>2

\* A call that resolves versions keeps the invariant of its map and touches no
\* other.
LEMMA ResolveKeepsIInv ==
    ASSUME IInv, NEW u \in User, NEW d \in Device, NEW S \in SUBSET Item,
           \A e, f \in S : e.key = f.key => e = f, Resolve(u, d, S)
    PROVE  IInv'
<1> DEFINE won(k) == {e \in S : e.key = k /\ Wins(store[u][d][k], e)}
           next == [k \in Key |-> IF won(k) = {} THEN store[u][d][k]
                                  ELSE CHOOSE e \in won(k) : TRUE]
<1>1. /\ store' = [store EXCEPT ![u][d] = next]
      /\ learned' = [learned EXCEPT ![u][d] = @ \union S]
  BY DEF Resolve
<1>2. ASSUME NEW k \in Key
      PROVE  next[k] \in Item \union {None} /\ IsNewest(learned[u][d] \union S, k, next[k])
  <2> DEFINE shown == store[u][d][k]
             given == learned[u][d]
             mine == {e \in S : e.key = k /\ Wins(shown, e)}
             new == IF mine = {} THEN shown ELSE CHOOSE e \in mine : TRUE
  <2>1. given \in SUBSET Item /\ shown \in Item \union {None} /\ IsNewest(given, k, shown)
    BY DEF IInv, Types
  <2>2. next[k] = new
    OBVIOUS
  <2> HIDE DEF shown, given, next
  <2>3. mine \in SUBSET S /\ \A e \in S : e \in mine <=> e.key = k /\ Wins(shown, e)
    OBVIOUS
  <2>4. IF mine = {} THEN new = shown ELSE new \in mine
    OBVIOUS
  <2> HIDE DEF mine, new
  <2>5. new \in Item \union {None} /\ IsNewest(given \union S, k, new)
    BY <2>1, <2>3, <2>4, WinnerIsNewest
  <2> QED
    BY <2>2, <2>5 DEF given
<1>3. next \in [Key -> Item \union {None}]
  BY <1>2
<1> HIDE DEF next
<1>4. Types'
  BY <1>1, <1>3 DEF IInv, Types
<1>5. ASSUME NEW w \in User, NEW a \in Device, NEW k \in Key
      PROVE  IsNewest(learned'[w][a], k, store'[w][a][k])
  <2>1. CASE w = u /\ a = d
    <3>1. learned'[w][a] = learned[u][d] \union S /\ store'[w][a] = next
      BY <1>1, <2>1 DEF IInv, Types
    <3> QED
      BY <1>2, <3>1
  <2>2. CASE ~(w = u /\ a = d)
    <3>1. learned'[w][a] = learned[w][a] /\ store'[w][a] = store[w][a]
      BY <1>1, <2>2 DEF IInv, Types
    <3> QED
      BY <3>1 DEF IInv
  <2> QED
    BY <2>1, <2>2
<1> QED
  BY <1>4, <1>5 DEF IInv

\* No map has been given anything.
LEMMA InitIInv == Init => IInv
BY DEF Init, IInv, Types, IsNewest

\* Every call keeps the invariant.
LEMMA StepKeepsIInv == IInv /\ [Next]_vars => IInv'
<1> SUFFICES ASSUME IInv, [Next]_vars PROVE IInv'
  OBVIOUS
<1>1. CASE UNCHANGED <<store, learned>>
  BY <1>1 DEF IInv, Types, IsNewest
<1>2. ASSUME NEW d \in Device, NEW k \in Key, NEW v \in Value, NEW t \in 0..MaxTime,
             NEW x \in Device, LayerSet(d, k, v, t, x)
      PROVE  IInv'
  <2> DEFINE e == [key |-> k, value |-> v, physical |-> t, logical |-> 0, device |-> x]
  <2>1. e \in Item
    BY DEF Item
  <2> QED
    BY <1>2, <2>1, ResolveKeepsIInv DEF LayerSet, User
<1>3. ASSUME NEW d \in Device, NEW S \in Entries, LayerMerge(d, S) \/ ManagerApply(d, S)
      PROVE  IInv'
  <2>1. issued \subseteq Item
    BY DEF issued, IInv, Types, User
  <2>2. S \in SUBSET Item /\ \A e, f \in S : e.key = f.key => e = f
    BY <2>1 DEF Entries
  <2> QED
    BY <1>3, <2>2, ResolveKeepsIInv DEF LayerMerge, ManagerApply, User
<1>4. ASSUME NEW d \in Device,
             (\E r \in Device : LayerMergeValues(d, r)) \/ LayerCheckpoint(d) \/ ManagerCheckpoint(d)
      PROVE  IInv'
  BY <1>1, <1>4 DEF LayerMergeValues, LayerCheckpoint, ManagerCheckpoint
<1> QED
  BY <1>1, <1>2, <1>3, <1>4 DEF Next, vars

\* Every map shows the newest of what it was given, at all times.
THEOREM LayerInvariant == Spec => []IInv
BY InitIInv, StepKeepsIInv, PTL DEF Spec

\* Layers and managers that were given the same versions agree on every key up to
\* its value, in whatever order and grouping they were given them, for any
\* devices and clocks (L0SyncLayer.merge, SyncManager.apply_remote).
THEOREM MapsAgree == Spec => []AgreeUpToTies
<1>1. IInv => AgreeUpToTies
  <2> SUFFICES ASSUME IInv, NEW u \in User, NEW w \in User, NEW a \in Device, NEW b \in Device,
                      NEW k \in Key, learned[u][a] = learned[w][b]
               PROVE  LET e == store[u][a][k]
                          f == store[w][b][k]
                      IN  \/ e = None /\ f = None
                          \/ /\ e # None /\ f # None
                             /\ TsEqual(e, f) /\ e.device = f.device
    BY DEF AgreeUpToTies
  <2> DEFINE e == store[u][a][k]
             f == store[w][b][k]
  <2>1. /\ e \in Item \union {None} /\ IsNewest(learned[u][a], k, e)
        /\ f \in Item \union {None} /\ IsNewest(learned[u][a], k, f)
    BY DEF IInv, Types
  <2> HIDE DEF e, f
  <2>2. (e = None) <=> (f = None)
    BY <2>1 DEF IsNewest
  <2>3. CASE e # None /\ f # None
    <3>1. ~Newer(e, f) /\ ~Newer(f, e) /\ e \in Item /\ f \in Item
      BY <2>1, <2>3 DEF IsNewest
    <3> QED
      BY <2>3, <3>1, NewerOrder DEF e, f
  <2> QED
    BY <2>2, <2>3 DEF e, f
<1> QED
  BY <1>1, LayerInvariant, PTL
=============================================================================
