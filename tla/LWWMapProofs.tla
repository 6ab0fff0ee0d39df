---------------------------- MODULE LWWMapProofs ----------------------------
(***************************************************************************)
(* Proofs about LWWMap: the order of versions, what one resolution does to *)
(* a map, the inductive invariant IInv and the safety properties it gives. *)
(***************************************************************************)
EXTENDS LWWMap, FiniteSetTheorems, TLAPS

-----------------------------------------------------------------------------
(***************************************************************************)
(* The order of versions.                                                  *)
(***************************************************************************)

\* The fields of a version are numbers, and no version is None.
LEMMA ItemFields ==
    ASSUME NEW e \in Item
    PROVE  /\ e.key \in Key
           /\ e.physical \in Int
           /\ e.logical \in Int
           /\ e.device \in Int
           /\ e.device \in Device
           /\ e # None
<1>1. e # None
  BY NoneAssumption
<1>2. /\ e.key \in Key
      /\ e.physical \in Int
      /\ e.logical \in Int
      /\ e.device \in Device
  BY BoundAssumption DEF Item
<1>3. e.device \in Nat
  BY <1>2, DeviceAssumption
<1> QED
  BY <1>1, <1>2, <1>3

\* Newer is transitive: deltas may be merged in any order.
LEMMA NewerTransitive ==
    ASSUME NEW a \in Item, NEW b \in Item, NEW c \in Item,
           Newer(a, b), Newer(b, c)
    PROVE  Newer(a, c)
BY ItemFields DEF Newer, TsBefore, TsEqual

\* Two versions never replace one another.
LEMMA NewerAsymmetric ==
    ASSUME NEW a \in Item, NEW b \in Item, Newer(a, b)
    PROVE  ~ Newer(b, a)
BY ItemFields DEF Newer, TsBefore, TsEqual

\* Of two versions with different stamps one replaces the other.
LEMMA NewerTotal ==
    ASSUME NEW a \in Item, NEW b \in Item, ~ Newer(a, b), ~ Newer(b, a)
    PROVE  a.logical = b.logical /\ a.device = b.device
BY ItemFields DEF Newer, TsBefore, TsEqual

\* A version that covers a newer one than w covers w as well.
LEMMA CoversTransitive ==
    ASSUME NEW a \in Item \union {None}, NEW b \in Item, NEW c \in Item,
           Covers(a, b), Covers(b, c)
    PROVE  Covers(a, c)
BY NewerTransitive DEF Covers

-----------------------------------------------------------------------------
(***************************************************************************)
(* One resolution: Resolve(d, S) for a set S with one version per key.     *)
(***************************************************************************)

OnePerKey(S) == \A e, f \in S : e.key = f.key => e = f

\* The types of the four variables a resolution changes are kept.
LEMMA ResolveType ==
    ASSUME NEW d \in Device, NEW S \in SUBSET Item, TypeOK, Resolve(d, S)
    PROVE  /\ store' \in [Device -> [Key -> Item \union {None}]]
           /\ dirty' \in [Device -> SUBSET Key]
           /\ skew' \in [Device -> [Key -> Conflict \union {None}]]
           /\ learned' \in [Device -> SUBSET Item]
<1> DEFINE won(k) == {e \in S : e.key = k /\ Wins(store[d][k], e)}
           far(k) == {e \in S : e.key = k /\ Skewed(store[d][k], e)}
<1>1. \A k \in Key : won(k) # {} => (CHOOSE e \in won(k) : TRUE) \in Item
  OBVIOUS
<1>2. [k \in Key |-> IF won(k) = {} THEN store[d][k]
                     ELSE CHOOSE e \in won(k) : TRUE] \in [Key -> Item \union {None}]
  BY <1>1 DEF TypeOK
<1>3. ASSUME NEW k \in Key, far(k) # {}
      PROVE  [local |-> store[d][k], remote |-> CHOOSE e \in far(k) : TRUE] \in Conflict
  <2>1. (CHOOSE e \in far(k) : TRUE) \in Item
    BY <1>3
  <2>2. store[d][k] \in Item
    BY <1>3 DEF TypeOK, Skewed
  <2> QED
    BY <2>1, <2>2 DEF Conflict
<1>4. [k \in Key |-> IF far(k) = {} THEN skew[d][k]
                     ELSE [local |-> store[d][k],
                           remote |-> CHOOSE e \in far(k) : TRUE]]
        \in [Key -> Conflict \union {None}]
  BY <1>3 DEF TypeOK
<1>5. store' \in [Device -> [Key -> Item \union {None}]]
  BY <1>2 DEF TypeOK, Resolve
<1>6. dirty' \in [Device -> SUBSET Key]
  BY DEF TypeOK, Resolve
<1>7. skew' \in [Device -> [Key -> Conflict \union {None}]]
  BY <1>4 DEF TypeOK, Resolve
<1>8. learned' \in [Device -> SUBSET Item]
  BY DEF TypeOK, Resolve
<1> QED
  BY <1>5, <1>6, <1>7, <1>8

\* A key either keeps its version, which no version in S beats, or takes the
\* version of S for it, which beats it and marks the key dirty.
LEMMA ResolveStore ==
    ASSUME NEW d \in Device, NEW S \in SUBSET Item, TypeOK, Resolve(d, S),
           NEW k \in Key
    PROVE  /\ \A x \in Device : x # d => store'[x] = store[x]
           /\ \/ /\ store'[d][k] = store[d][k]
                 /\ \A e \in S : e.key = k => ~ Wins(store[d][k], e)
              \/ /\ store'[d][k] \in S
                 /\ store'[d][k].key = k
                 /\ Wins(store[d][k], store'[d][k])
                 /\ k \in dirty'[d]
<1> DEFINE won == {e \in S : e.key = k /\ Wins(store[d][k], e)}
<1>1. store'[d][k] = IF won = {} THEN store[d][k] ELSE CHOOSE e \in won : TRUE
  BY DEF TypeOK, Resolve
<1>2. \A x \in Device : x # d => store'[x] = store[x]
  BY DEF TypeOK, Resolve
<1>3. won # {} => (CHOOSE e \in won : TRUE) \in won
  OBVIOUS
<1>4. won # {} => k \in dirty'[d]
  BY DEF TypeOK, Resolve
<1> QED
  BY <1>1, <1>2, <1>3, <1>4

\* A resolution adds the versions it is given to what d learned, and only there.
LEMMA ResolveLearned ==
    ASSUME NEW d \in Device, NEW S \in SUBSET Item, TypeOK, Resolve(d, S)
    PROVE  /\ learned'[d] = learned[d] \union S
           /\ \A x \in Device : x # d => learned'[x] = learned[x]
           /\ issued' = issued \union S
<1>1. learned'[d] = learned[d] \union S
  BY DEF TypeOK, Resolve
<1>2. \A x \in Device : x # d => learned'[x] = learned[x]
  BY DEF TypeOK, Resolve
<1>3. issued' = issued \union S
  BY <1>1, <1>2 DEF issued
<1> QED
  BY <1>1, <1>2, <1>3

\* A map never goes back: what covered a version still covers it.
LEMMA ResolveMonotone ==
    ASSUME NEW d \in Device, NEW S \in SUBSET Item, TypeOK, Resolve(d, S),
           NEW x \in Device, NEW w \in Item, Covers(store[x][w.key], w)
    PROVE  Covers(store'[x][w.key], w)
<1>1. w.key \in Key
  BY ItemFields
<1>2. CASE x # d
  BY <1>1, <1>2, ResolveStore
<1>3. CASE x = d /\ store'[d][w.key] = store[d][w.key]
  BY <1>3
<1>4. CASE /\ x = d
           /\ store'[d][w.key] \in S
           /\ Wins(store[d][w.key], store'[d][w.key])
  <2>1. store[d][w.key] \in Item /\ store'[d][w.key] \in Item
    BY <1>1, <1>4 DEF TypeOK, Covers
  <2>2. Covers(store'[d][w.key], store[d][w.key])
    BY <1>4, <2>1, ItemFields DEF Wins, Covers
  <2> QED
    BY <1>4, <2>1, <2>2, CoversTransitive
<1> QED
  BY <1>1, <1>2, <1>3, <1>4, ResolveStore

\* If stamps are unique, the map covers every version it was just given.
LEMMA ResolveCovers ==
    ASSUME NEW d \in Device, NEW S \in SUBSET Item, TypeOK, Resolve(d, S),
           OnePerKey(S), StampsUnique', StoreFromLearned, NEW e \in S
    PROVE  Covers(store'[d][e.key], e)
<1>1. e \in Item /\ e.key \in Key /\ e # None
  BY ItemFields
<1>2. CASE /\ store'[d][e.key] = store[d][e.key]
           /\ ~ Wins(store[d][e.key], e)
  <2>1. store[d][e.key] \in Item /\ ~ Newer(e, store[d][e.key])
    BY <1>1, <1>2 DEF TypeOK, Wins
  <2>2. store[d][e.key] \in issued' /\ e \in issued'
    BY <1>1, <2>1, ItemFields, ResolveLearned DEF StoreFromLearned, issued
  <2>3. CASE Newer(store[d][e.key], e)
    BY <1>2, <2>1, <2>3, ItemFields DEF Covers
  <2>4. CASE ~ Newer(store[d][e.key], e)
    <3>1. store[d][e.key] = e
      BY <1>1, <2>1, <2>2, <2>4, NewerTotal DEF StampsUnique
    <3> QED
      BY <1>1, <1>2, <3>1 DEF Covers
  <2> QED
    BY <2>3, <2>4
<1>3. CASE store'[d][e.key] \in S /\ store'[d][e.key].key = e.key
  <2>1. store'[d][e.key] = e
    BY <1>3 DEF OnePerKey
  <2> QED
    BY <1>1, <2>1 DEF Covers
<1> QED
  BY <1>1, <1>2, <1>3, ResolveStore

-----------------------------------------------------------------------------
(***************************************************************************)
(* The inductive invariant.                                                *)
(***************************************************************************)

\* Empty maps and no messages: the inductive invariant holds at the start.
LEMMA InitIInv == Init => IInv
<1> SUFFICES ASSUME Init PROVE IInv
  OBVIOUS
<1>1. issued = {}
  BY DEF Init, issued
<1>2. TypeOK
  BY BoundAssumption DEF Init, TypeOK
<1> QED
  BY <1>1, <1>2 DEF Init, IInv, StoreFromLearned, MessagesWellFormed, CounterAhead,
     StampsUnique, OwnWritesLearned, StoreCoversLearned, DeltaLosesNothing,
     MessagesInTurn

\* What a device shows somebody wrote, and what it learned somebody wrote.
LEMMA LearnedIssued ==
    ASSUME TypeOK, NEW d \in Device
    PROVE  learned[d] \subseteq issued /\ issued \subseteq Item
BY DEF TypeOK, issued

\* A resolution of versions S keeps the four conjuncts about one device's map
\* and what it learned, if S is in turn (first fact) and the stamps of what is
\* issued after it are still unique.
LEMMA ResolveKeeps ==
    ASSUME NEW d \in Device, NEW S \in SUBSET Item, IInv, Resolve(d, S),
           OnePerKey(S), StampsUnique',
           \A e \in S : \A w \in issued' :
                w.device = e.device /\ w.logical <= e.logical =>
                    Covers(store[d][w.key], w) \/ \E f \in S : f.key = w.key /\ Covers(f, w),
           \A e \in issued : \A w \in issued' \ issued :
                w.device = e.device /\ w.logical <= e.logical => FALSE
    PROVE  StoreFromLearned' /\ StoreCoversLearned' /\ DeltaLosesNothing'
<1> USE DEF IInv
<1>1. /\ learned'[d] = learned[d] \union S
      /\ \A x \in Device : x # d => learned'[x] = learned[x]
      /\ issued' = issued \union S
      /\ issued \subseteq Item
  BY ResolveLearned, LearnedIssued
<1>2. StoreFromLearned'
  <2> SUFFICES ASSUME NEW x \in Device, NEW k \in Key, store'[x][k] # None
               PROVE  store'[x][k].key = k /\ store'[x][k] \in learned'[x]
    BY DEF StoreFromLearned
  <2>1. CASE x # d
    BY <1>1, <2>1, ResolveStore DEF StoreFromLearned
  <2>2. CASE x = d
    BY <1>1, <2>2, ResolveStore DEF StoreFromLearned
  <2> QED
    BY <2>1, <2>2
<1>3. StoreCoversLearned'
  <2> SUFFICES ASSUME NEW x \in Device, NEW w \in learned'[x]
               PROVE  Covers(store'[x][w.key], w)
    BY DEF StoreCoversLearned
  <2>1. CASE w \in learned[x]
    <3>1. w \in Item /\ Covers(store[x][w.key], w)
      BY <2>1, LearnedIssued DEF StoreCoversLearned
    <3> QED
      BY <3>1, ResolveMonotone
  <2>2. CASE x = d /\ w \in S
    BY <2>2, ResolveCovers
  <2> QED
    BY <1>1, <2>1, <2>2
<1>4. DeltaLosesNothing'
  <2> SUFFICES ASSUME NEW x \in Device, NEW e \in learned'[x], NEW w \in issued',
                      w.device = e.device, w.logical <= e.logical
               PROVE  Covers(store'[x][w.key], w)
    BY DEF DeltaLosesNothing
  <2>0. w \in Item /\ w.key \in Key
    BY <1>1, ItemFields
  <2>1. CASE e \in learned[x]
    <3>1. e \in issued /\ w \in issued
      BY <2>1, LearnedIssued
    <3>2. Covers(store[x][w.key], w)
      BY <2>1, <3>1 DEF DeltaLosesNothing
    <3> QED
      BY <2>0, <3>2, ResolveMonotone
  <2>2. CASE x = d /\ e \in S
    <3>1. CASE Covers(store[d][w.key], w)
      BY <2>0, <2>2, <3>1, ResolveMonotone
    <3>2. ASSUME NEW f \in S, f.key = w.key, Covers(f, w)
          PROVE  Covers(store'[x][w.key], w)
      <4>1. Covers(store'[d][w.key], f)
        BY <3>2, ResolveCovers
      <4>2. store'[d][w.key] \in Item \union {None}
        BY <2>0, ResolveType
      <4> QED
        BY <2>0, <2>2, <3>2, <4>1, <4>2, CoversTransitive
    <3> QED
      BY <2>2, <3>1, <3>2
  <2> QED
    BY <1>1, <2>1, <2>2
<1> QED
  BY <1>2, <1>3, <1>4

\* Maps only move forward, so a message that was in turn stays in turn unless
\* a version it should have carried is issued later.
LEMMA ResolveKeepsMessages ==
    ASSUME NEW d \in Device, NEW S \in SUBSET Item, IInv, Resolve(d, S),
           net' \subseteq net,
           \A e \in issued : \A w \in issued' \ issued :
                w.device = e.device /\ w.logical <= e.logical => FALSE
    PROVE  MessagesWellFormed' /\ MessagesInTurn'
<1> USE DEF IInv
<1>1. issued' = issued \union S /\ issued \subseteq Item
  BY ResolveLearned, LearnedIssued
<1>2. MessagesWellFormed'
  BY <1>1 DEF MessagesWellFormed
<1>3. MessagesInTurn'
  <2> SUFFICES ASSUME NEW m \in net, NEW e \in m.delta, NEW w \in issued',
                      w.device = e.device, w.logical <= e.logical
               PROVE  \/ Covers(store'[m.to][w.key], w)
                      \/ \E f \in m.delta : f.key = w.key /\ Covers(f, w)
    BY DEF MessagesInTurn
  <2>1. e \in issued /\ m.to \in Device
    BY DEF MessagesWellFormed, TypeOK, Message
  <2>2. w \in issued /\ w \in Item
    BY <1>1, <2>1
  <2>3. CASE Covers(store[m.to][w.key], w)
    BY <2>1, <2>2, <2>3, ResolveMonotone
  <2> QED
    BY <2>2, <2>3 DEF MessagesInTurn
<1> QED
  BY <1>2, <1>3

\* set(): the new version has a stamp of its own, above all of its device.
LEMMA SetKeepsIInv ==
    ASSUME IInv, NEW d \in Device, NEW k \in Key, NEW v \in Value,
           NEW t \in 0..MaxTime, Set(d, k, v, t)
    PROVE  IInv'
<1> DEFINE e == [key |-> k, value |-> v, physical |-> t,
                 logical |-> counter[d] + 1, device |-> d]
<1> USE DEF IInv
<1>1. e \in Item /\ counter[d] \in 0..MaxCounter /\ e.device = d
  BY BoundAssumption DEF Set, Item, TypeOK
<1>2. Resolve(d, {e}) /\ {e} \in SUBSET Item /\ OnePerKey({e})
  BY <1>1 DEF Set, OnePerKey
<1>3. /\ counter' = [counter EXCEPT ![d] = @ + 1]
      /\ net' = net
      /\ saved' = saved
      /\ e.logical = counter[d] + 1
  BY DEF Set
<1> HIDE DEF e
<1>4. /\ issued' = issued \union {e}
      /\ learned'[d] = learned[d] \union {e}
      /\ \A x \in Device : x # d => learned'[x] = learned[x]
  BY <1>2, ResolveLearned
<1>5. issued \subseteq Item /\ \A x \in Device : learned[x] \subseteq issued
  BY LearnedIssued
<1>6. TypeOK'
  <2>1. counter' \in [Device -> 0..MaxCounter]
    BY <1>1, <1>3, BoundAssumption DEF TypeOK, Set
  <2> QED
    BY <1>2, <1>3, <2>1, ResolveType DEF TypeOK
<1>7. \A w \in issued : w.device = d => w.logical < e.logical
  <2> SUFFICES ASSUME NEW w \in issued, w.device = d PROVE w.logical < e.logical
    OBVIOUS
  <2>1. w.logical <= counter[d] /\ w.logical \in Int
    BY <1>5, ItemFields DEF CounterAhead
  <2> QED
    BY <1>1, <1>3, <2>1
<1>8. CounterAhead'
  <2> SUFFICES ASSUME NEW w \in issued' PROVE w.logical <= counter'[w.device]
    BY DEF CounterAhead
  <2>1. CASE w = e
    BY <1>1, <1>3, <2>1 DEF TypeOK
  <2>2. CASE w \in issued
    <3>1. w.logical <= counter[w.device] /\ w.device \in Device /\ w.logical \in Int
      BY <1>5, <2>2, ItemFields DEF CounterAhead
    <3>2. counter[w.device] <= counter'[w.device]
      BY <1>3, <3>1 DEF TypeOK
    <3>3. counter[w.device] \in Int /\ counter'[w.device] \in Int
      BY <1>6, <3>1 DEF TypeOK
    <3> QED
      BY <3>1, <3>2, <3>3
  <2> QED
    BY <1>4, <2>1, <2>2
<1>9. StampsUnique'
  <2> SUFFICES ASSUME NEW w \in issued', NEW x \in issued',
                      w.device = x.device, w.logical = x.logical
               PROVE  w = x
    BY DEF StampsUnique
  <2>1. CASE w \in issued /\ x \in issued
    BY <2>1 DEF StampsUnique
  <2>2. CASE w = e /\ x \in issued
    BY <1>1, <1>5, <1>7, <2>2, ItemFields
  <2>3. CASE x = e /\ w \in issued
    BY <1>1, <1>5, <1>7, <2>3, ItemFields
  <2> QED
    BY <1>4, <2>1, <2>2, <2>3
<1>10. OwnWritesLearned'
  BY <1>1, <1>4, <1>5, ItemFields DEF OwnWritesLearned
<1>11. \A f \in {e} : \A w \in issued' :
          w.device = f.device /\ w.logical <= f.logical =>
              \/ Covers(store[d][w.key], w)
              \/ \E g \in {e} : g.key = w.key /\ Covers(g, w)
  <2> SUFFICES ASSUME NEW w \in issued', w.device = d
               PROVE  \/ Covers(store[d][w.key], w)
                      \/ e.key = w.key /\ Covers(e, w)
    BY <1>1
  <2>1. CASE w = e
    BY <1>1, <2>1, ItemFields DEF Covers
  <2>2. CASE w \in issued
    BY <2>2 DEF OwnWritesLearned, StoreCoversLearned
  <2> QED
    BY <1>4, <2>1, <2>2
<1>12. \A f \in issued : \A w \in issued' \ issued :
          w.device = f.device /\ w.logical <= f.logical => FALSE
  BY <1>1, <1>4, <1>5, <1>7, ItemFields
<1>13. StoreFromLearned' /\ StoreCoversLearned' /\ DeltaLosesNothing'
  BY <1>2, <1>9, <1>11, <1>12, ResolveKeeps
<1>14. MessagesWellFormed' /\ MessagesInTurn'
  BY <1>2, <1>3, <1>12, ResolveKeepsMessages
<1> QED
  BY <1>6, <1>8, <1>9, <1>10, <1>13, <1>14

\* merge(): nothing new is issued, and what the message brings is in turn.
LEMMA MergeKeepsIInv ==
    ASSUME IInv, NEW m \in net, Merge(m), net' \subseteq net
    PROVE  IInv'
<1> DEFINE d == m.to
           S == m.delta
<1> USE DEF IInv
<1>1. /\ d \in Device
      /\ S \in SUBSET Item
      /\ IsFiniteSet(S)
      /\ S \subseteq issued
      /\ OnePerKey(S)
  BY DEF TypeOK, Message, MessagesWellFormed, OnePerKey
<1>2. /\ Resolve(d, S)
      /\ counter' = [counter EXCEPT ![d] = @ + Cardinality(S)]
      /\ counter[d] + Cardinality(S) <= MaxCounter
      /\ saved' = saved
  BY DEF Merge
<1>3. /\ issued' = issued
      /\ learned'[d] = learned[d] \union S
      /\ \A x \in Device : x # d => learned'[x] = learned[x]
  BY <1>1, <1>2, ResolveLearned
<1>4. issued \subseteq Item
  BY <1>1, LearnedIssued
<1>5. Cardinality(S) \in Nat
  BY <1>1, FS_CardinalityType
<1>6. TypeOK'
  <2>1. counter' \in [Device -> 0..MaxCounter]
    BY <1>1, <1>2, <1>5, BoundAssumption DEF TypeOK
  <2>2. net' \in SUBSET Message
    BY DEF TypeOK
  <2> QED
    BY <1>1, <1>2, <2>1, <2>2, ResolveType DEF TypeOK
<1>7. CounterAhead'
  <2> SUFFICES ASSUME NEW w \in issued PROVE w.logical <= counter'[w.device]
    BY <1>3 DEF CounterAhead
  <2>1. w.logical <= counter[w.device] /\ w.device \in Device /\ w.logical \in Int
    BY <1>4, ItemFields DEF CounterAhead
  <2>2. counter[w.device] \in Int /\ counter[w.device] <= counter'[w.device]
    BY <1>1, <1>2, <1>5, <2>1 DEF TypeOK
  <2>3. counter'[w.device] \in Int
    BY <1>6, <2>1 DEF TypeOK
  <2> QED
    BY <2>1, <2>2, <2>3
<1>8. StampsUnique'
  BY <1>3 DEF StampsUnique
<1>9. OwnWritesLearned'
  BY <1>3, <1>4, ItemFields DEF OwnWritesLearned
<1>10. \A e \in S : \A w \in issued' :
          w.device = e.device /\ w.logical <= e.logical =>
              Covers(store[d][w.key], w) \/ \E f \in S : f.key = w.key /\ Covers(f, w)
  BY <1>3 DEF MessagesInTurn
<1>11. StoreFromLearned' /\ StoreCoversLearned' /\ DeltaLosesNothing'
  BY <1>1, <1>2, <1>3, <1>8, <1>10, ResolveKeeps
<1>12. MessagesWellFormed' /\ MessagesInTurn'
  BY <1>1, <1>2, <1>3, ResolveKeepsMessages
<1> QED
  BY <1>6, <1>7, <1>8, <1>9, <1>11, <1>12

\* What get_delta returns, for any baseline: some of the versions shown.
LEMMA FullStateFacts ==
    ASSUME IInv, NEW d \in Device
    PROVE  /\ IsFiniteSet(FullState(d))
           /\ FullState(d) \subseteq learned[d]
           /\ \A e \in FullState(d) : store[d][e.key] = e
           /\ \A k \in Key : store[d][k] # None => store[d][k] \in FullState(d)
<1> DEFINE T == {store[d][k] : k \in Key}
<1>1. store[d] \in [Key -> T]
  BY DEF IInv, TypeOK
<1>2. store[d] \in Surjection(Key, T)
  BY <1>1 DEF Surjection
<1>3. IsFiniteSet(T)
  BY <1>2, KeyAssumption, FS_Surjection
<1>4. FullState(d) \in SUBSET T
  BY DEF FullState
<1>5. IsFiniteSet(FullState(d))
  BY <1>3, <1>4, FS_Subset
<1> QED
  BY <1>5 DEF FullState, IInv, StoreFromLearned

\* get_delta(c): a write at or below the counter of a version in the answer is
\* covered by the sender; its version is in the answer, or the baseline c has
\* its counter and then the receiver covers it already.
LEMMA DeltaInTurn ==
    ASSUME IInv, NEW d \in Device, NEW r \in Device, NEW D,
           \/ D = FullState(d)
           \/ \E c \in Clocks(r) : D = Delta(d, c),
           NEW e \in D, NEW w \in issued,
           w.device = e.device, w.logical <= e.logical
    PROVE  \/ Covers(store[r][w.key], w)
           \/ \E f \in D : f.key = w.key /\ Covers(f, w)
<1> USE DEF IInv
<1> DEFINE f == store[d][w.key]
<1>1. e \in learned[d] /\ e \in FullState(d)
  BY FullStateFacts DEF Delta
<1>2. w \in Item /\ w.key \in Key
  BY LearnedIssued, ItemFields
<1>3. Covers(f, w)
  BY <1>1 DEF DeltaLosesNothing
<1>4. f \in FullState(d) /\ f.key = w.key
  BY <1>2, <1>3, FullStateFacts DEF Covers, StoreFromLearned
<1>5. f \in issued /\ f \in Item /\ f.device \in Device /\ f.logical \in Int
  BY <1>4, FullStateFacts, LearnedIssued, ItemFields
<1>6. CASE f \in D
  BY <1>3, <1>4, <1>6
<1>7. CASE f \notin D
  <2>1. PICK c \in Clocks(r) : D = Delta(d, c)
    BY <1>4, <1>7
  <2>2. f.logical <= c[f.device]
    <3>1. c[f.device] \in Int
      BY <1>5, BoundAssumption DEF Clocks
    <3> QED
      BY <1>4, <1>5, <1>7, <2>1, <3>1 DEF Delta
  <2>3. f.logical > 0
    BY <1>5 DEF Item
  <2>4. PICK g \in learned[r] : g.device = f.device /\ g.logical = c[f.device]
    BY <1>5, <2>2, <2>3 DEF Clocks
  <2>5. Covers(store[r][f.key], f)
    BY <1>5, <2>2, <2>4 DEF DeltaLosesNothing
  <2>6. store[r][w.key] \in Item \union {None}
    BY <1>2 DEF TypeOK
  <2>7. Covers(store[r][w.key], w)
    BY <1>2, <1>3, <1>4, <1>5, <2>5, <2>6, CoversTransitive
  <2> QED
    BY <2>7
<1> QED
  BY <1>6, <1>7

\* get_delta and the sending of its result keep the inductive invariant, with
\* every baseline the caller may hold and with none.
LEMMA SendKeepsIInv ==
    ASSUME IInv, NEW d \in Device, NEW r \in Device, NEW D,
           \/ D = FullState(d)
           \/ \E c \in Clocks(r) : D = Delta(d, c),
           Send([to |-> r, delta |-> D])
    PROVE  IInv'
<1> DEFINE m == [to |-> r, delta |-> D]
<1> USE DEF IInv
<1>1. /\ net' = net \union {m}
      /\ m.to = r
      /\ m.delta = D
      /\ UNCHANGED <<store, dirty, skew, counter, learned, saved>>
  BY DEF Send
<1>2. issued' = issued
  BY <1>1 DEF issued
<1>3. D \subseteq FullState(d)
  BY DEF Delta
<1>4. D \in SUBSET Item
  BY <1>3, FullStateFacts, LearnedIssued
<1>5. m \in Message
  BY <1>4 DEF Message
<1>6. TypeOK'
  BY <1>1, <1>5 DEF TypeOK
<1> HIDE DEF m
<1>7. MessagesWellFormed'
  <2>1. IsFiniteSet(D)
    BY <1>3, FullStateFacts, FS_Subset
  <2>2. D \subseteq issued
    BY <1>3, FullStateFacts, LearnedIssued
  <2>3. \A e, f \in D : e.key = f.key => e = f
    BY <1>3, FullStateFacts
  <2> QED
    BY <1>1, <1>2, <2>1, <2>2, <2>3 DEF MessagesWellFormed
<1>8. MessagesInTurn'
  <2> SUFFICES ASSUME NEW n \in net', NEW e \in n.delta, NEW w \in issued,
                      w.device = e.device, w.logical <= e.logical
               PROVE  \/ Covers(store[n.to][w.key], w)
                      \/ \E f \in n.delta : f.key = w.key /\ Covers(f, w)
    BY <1>1, <1>2 DEF MessagesInTurn
  <2>1. CASE n \in net
    BY <2>1 DEF MessagesInTurn
  <2>2. CASE n = m
    BY <1>1, <2>2, DeltaInTurn
  <2> QED
    BY <1>1, <2>1, <2>2
<1>9. /\ StoreFromLearned'
      /\ CounterAhead'
      /\ StampsUnique'
      /\ OwnWritesLearned'
      /\ StoreCoversLearned'
      /\ DeltaLosesNothing'
  BY <1>1, <1>2 DEF StoreFromLearned, CounterAhead, StampsUnique, OwnWritesLearned,
     StoreCoversLearned, DeltaLosesNothing
<1> QED
  BY <1>6, <1>7, <1>8, <1>9

\* A step that leaves the maps alone and sends nothing keeps the invariant: it
\* does not mention _dirty_keys, _skew_conflicts or what was saved.
LEMMA IdleKeepsIInv ==
    ASSUME IInv, TypeOK', net' \subseteq net, UNCHANGED <<store, counter, learned>>
    PROVE  IInv'
<1>1. issued' = issued
  BY DEF issued
<1> QED
  BY <1>1 DEF IInv, StoreFromLearned, MessagesWellFormed, CounterAhead, StampsUnique,
     OwnWritesLearned, StoreCoversLearned, DeltaLosesNothing, MessagesInTurn

\* A lost message takes nothing from what the remaining ones promise.
LEMMA LoseKeepsIInv ==
    ASSUME IInv, NEW m \in net, Lose(m)
    PROVE  IInv'
<1>1. TypeOK'
  BY DEF IInv, TypeOK, Lose
<1> QED
  BY <1>1, IdleKeepsIInv DEF Lose

\* checkpoint() touches neither the maps nor the messages.
LEMMA CheckpointKeepsIInv ==
    ASSUME IInv, NEW d \in Device, Checkpoint(d)
    PROVE  IInv'
<1>1. TypeOK'
  BY DEF IInv, TypeOK, Checkpoint
<1> QED
  BY <1>1, IdleKeepsIInv DEF Checkpoint

\* Every operation, and every step of the transport, keeps the invariant.
LEMMA StepKeepsIInv == IInv /\ [Next]_vars => IInv'
<1> SUFFICES ASSUME IInv, [Next]_vars PROVE IInv'
  OBVIOUS
<1>1. ASSUME NEW d \in Device, NEW k \in Key, NEW v \in Value, NEW t \in 0..MaxTime,
             Set(d, k, v, t)
      PROVE  IInv'
  BY <1>1, SetKeepsIInv
<1>2. ASSUME NEW d \in Device, NEW r \in Device, SendFull(d, r)
      PROVE  IInv'
  BY <1>2, SendKeepsIInv DEF SendFull
<1>3. ASSUME NEW d \in Device, NEW r \in Device, SendDelta(d, r)
      PROVE  IInv'
  BY <1>3, SendKeepsIInv DEF SendDelta
<1>4. ASSUME NEW m \in net, Deliver(m)
      PROVE  IInv'
  BY <1>4, MergeKeepsIInv DEF Deliver
<1>5. ASSUME NEW m \in net, Lose(m)
      PROVE  IInv'
  BY <1>5, LoseKeepsIInv
<1>6. ASSUME NEW d \in Device, Checkpoint(d)
      PROVE  IInv'
  BY <1>6, CheckpointKeepsIInv
<1>7. CASE UNCHANGED vars
  <2>1. TypeOK'
    BY <1>7 DEF vars, IInv, TypeOK
  <2> QED
    BY <1>7, <2>1, IdleKeepsIInv DEF vars
<1> QED
  BY <1>1, <1>2, <1>3, <1>4, <1>5, <1>6, <1>7 DEF Next, Synchronise

\* The inductive invariant holds of every behaviour.
THEOREM InductiveInvariant == Spec => []IInv
BY InitIInv, StepKeepsIInv, PTL DEF Spec

\* The variables of every map keep their types.
THEOREM TypeCorrect == Spec => []TypeOK
<1>1. IInv => TypeOK
  BY DEF IInv
<1> QED
  BY <1>1, InductiveInvariant, PTL

\* get_delta never withholds a write that the asking device still needs.
THEOREM DeltaIsComplete == Spec => []DeltaLosesNothing
<1>1. IInv => DeltaLosesNothing
  BY DEF IInv
<1> QED
  BY <1>1, InductiveInvariant, PTL

-----------------------------------------------------------------------------
(***************************************************************************)
(* Convergence and the abstract specification.                             *)
(***************************************************************************)

\* The abstract map orders versions as the code does.
LEMMA JoinNewer == \A a, b : Join!Newer(a, b) <=> Newer(a, b)
BY DEF Join!Newer, Newer, Join!TsBefore, TsBefore, Join!TsEqual, TsEqual

\* What a map shows for a key is the newest version of it that was learned.
LEMMA StoreIsLatest ==
    ASSUME IInv, NEW d \in Device, NEW k \in Key
    PROVE  store[d][k] = Join!Latest(learned[d], k)
<1> USE DEF IInv
<1> DEFINE S == learned[d]
           s == store[d][k]
<1>1. S \subseteq Item /\ \A e \in S : e # None
  BY ItemFields DEF TypeOK
<1>2. \A e \in S : e.key = k => Covers(s, e)
  BY DEF StoreCoversLearned
<1>3. s # None => s \in S /\ s.key = k
  BY DEF StoreFromLearned
<1>4. Join!IsLatest(s, S, k) /\ s \in S \union {None}
  BY <1>2, <1>3, JoinNewer DEF Join!IsLatest, Covers
<1>5. ASSUME NEW v \in S \union {None}, Join!IsLatest(v, S, k)
      PROVE  v = s
  <2>1. CASE s = None
    BY <1>1, <1>4, <1>5, <2>1 DEF Join!IsLatest
  <2>2. CASE s # None
    <3>1. v \in S /\ v.key = k /\ (s = v \/ Newer(v, s))
      BY <1>3, <1>5, <2>2, JoinNewer DEF Join!IsLatest
    <3>2. s = v \/ Newer(s, v)
      BY <1>2, <3>1 DEF Covers
    <3> QED
      BY <1>1, <1>3, <2>2, <3>1, <3>2, NewerAsymmetric
  <2> QED
    BY <2>1, <2>2
<1> QED
  BY <1>4, <1>5 DEF Join!Latest

\* Devices that have learned the same versions hold the same map.
THEOREM Converges == Spec => []StrongConvergence
<1>1. ASSUME IInv, NEW a \in Device, NEW b \in Device, learned[a] = learned[b]
      PROVE  store[a] = store[b]
  <2>1. \A k \in Key : store[a][k] = store[b][k]
    BY <1>1, StoreIsLatest
  <2> QED
    BY <1>1, <2>1 DEF IInv, TypeOK
<1>2. IInv => StrongConvergence
  BY <1>1 DEF StrongConvergence
<1> QED
  BY <1>2, InductiveInvariant, PTL

\* A resolution of the versions S on d is the abstract step that learns S.
LEMMA ResolveIsLearn ==
    ASSUME IInv, IInv', NEW d \in Device, NEW S \in SUBSET Item, Resolve(d, S)
    PROVE  Join!Learn(d, S)
<1>1. learned' = [learned EXCEPT ![d] = @ \union S]
  BY DEF Resolve
<1>2. learned'[d] = learned[d] \union S
  BY ResolveLearned DEF IInv
<1>3. \A k \in Key : store'[d][k] = Join!Latest(learned'[d], k)
  <2> SUFFICES ASSUME NEW k \in Key
               PROVE  store'[d][k] = Join!Latest(learned'[d], k)
    OBVIOUS
  <2>1. (store[d][k] = Join!Latest(learned[d], k))'
    BY StoreIsLatest, PTL
  <2> QED
    BY <2>1
<1>4. store'[d] = [k \in Key |-> Join!Latest(learned[d] \union S, k)]
  BY <1>2, <1>3 DEF IInv, TypeOK
<1>5. \A x \in Device : x # d => store'[x] = store[x]
  BY DEF Resolve, IInv, TypeOK
<1>6. store' = [store EXCEPT ![d] = [k \in Key |-> Join!Latest(learned[d] \union S, k)]]
  BY <1>4, <1>5 DEF IInv, TypeOK
<1> QED
  BY <1>1, <1>6 DEF Join!Learn

\* Empty maps are the abstract map before any write.
LEMMA InitIsJoinInit == Init => Join!Init
BY DEF Init, Join!Init

\* Every operation is a step of the abstract map, or does not change what it
\* can see.
LEMMA StepIsJoinStep == IInv /\ IInv' /\ [Next]_vars => [Join!Next]_Join!vars
<1> SUFFICES ASSUME IInv, IInv', [Next]_vars PROVE [Join!Next]_Join!vars
  OBVIOUS
<1>1. ASSUME NEW d \in Device, NEW k \in Key, NEW v \in Value, NEW t \in 0..MaxTime,
             Set(d, k, v, t)
      PROVE  Join!Next
  <2> DEFINE e == [key |-> k, value |-> v, physical |-> t,
                   logical |-> counter[d] + 1, device |-> d]
  <2>1. e \in Item
    BY <1>1, BoundAssumption DEF Set, Item, IInv, TypeOK
  <2>2. Join!Learn(d, {e})
    BY <1>1, <2>1, ResolveIsLearn DEF Set
  <2> QED
    BY <2>1, <2>2 DEF Join!Next, Join!Write
<1>2. ASSUME NEW m \in net, Deliver(m)
      PROVE  Join!Next
  <2>1. m.to \in Device /\ m.delta \in SUBSET Item /\ m.delta \subseteq issued
    BY DEF IInv, TypeOK, Message, MessagesWellFormed
  <2>2. Join!Learn(m.to, m.delta)
    BY <1>2, <2>1, ResolveIsLearn DEF Deliver, Merge
  <2> QED
    BY <2>1, <2>2 DEF Join!Next, Join!Receive, issued
<1>3. CASE UNCHANGED <<store, learned>>
  BY <1>3 DEF Join!vars
<1>4. ASSUME NEW d \in Device, NEW r \in Device, SendFull(d, r) \/ SendDelta(d, r)
      PROVE  UNCHANGED <<store, learned>>
  BY <1>4 DEF SendFull, SendDelta, Send
<1>5. ASSUME NEW m \in net, Lose(m)
      PROVE  UNCHANGED <<store, learned>>
  BY <1>5 DEF Lose
<1>6. ASSUME NEW d \in Device, Checkpoint(d)
      PROVE  UNCHANGED <<store, learned>>
  BY <1>6 DEF Checkpoint
<1>7. CASE UNCHANGED vars
  BY <1>3, <1>7 DEF vars
<1> QED
  BY <1>1, <1>2, <1>3, <1>4, <1>5, <1>6, <1>7 DEF Next, Synchronise

\* The maps and their delta exchange implement the abstract map: every
\* resolution is one step in which a replica learns versions and shows the
\* newest it knows; messages and checkpoints are invisible.
THEOREM MapImplementsJoin == Spec => ImplementsJoin
<1>1. Spec => Join!Init
  BY InitIsJoinInit DEF Spec
<1>2. Spec => [][Join!Next]_Join!vars
  BY InductiveInvariant, StepIsJoinStep, PTL DEF Spec
<1> QED
  BY <1>1, <1>2 DEF ImplementsJoin, Join!Spec

-----------------------------------------------------------------------------
(***************************************************************************)
(* Checkpoints and recorded conflicts.                                     *)
(***************************************************************************)

\* No operation changes a key without marking it dirty, and checkpoint() hands
\* out every key it takes off the dirty set.
LEMMA StepKeepsCheckpoints ==
    ASSUME IInv, CheckpointsSuffice, [Next]_vars
    PROVE  CheckpointsSuffice'
<1> USE DEF IInv
<1>1. ASSUME NEW d \in Device, NEW S \in SUBSET Item, Resolve(d, S), saved' = saved
      PROVE  CheckpointsSuffice'
  <2> SUFFICES ASSUME NEW x \in Device, NEW k \in Key, k \notin dirty'[x]
               PROVE  saved'[x][k] = store'[x][k]
    BY DEF CheckpointsSuffice
  <2>1. CASE x = d
    <3>1. k \notin dirty[d]
      BY <1>1, <2>1 DEF Resolve, TypeOK
    <3> QED
      BY <1>1, <2>1, <3>1, ResolveStore DEF CheckpointsSuffice
  <2>2. CASE x # d
    <3>1. dirty'[x] = dirty[x]
      BY <1>1, <2>2 DEF Resolve, TypeOK
    <3> QED
      BY <1>1, <2>2, <3>1, ResolveStore DEF CheckpointsSuffice
  <2> QED
    BY <2>1, <2>2
<1>2. ASSUME NEW d \in Device, NEW k \in Key, NEW v \in Value, NEW t \in 0..MaxTime,
             Set(d, k, v, t)
      PROVE  CheckpointsSuffice'
  <2>1. [key |-> k, value |-> v, physical |-> t, logical |-> counter[d] + 1,
         device |-> d] \in Item
    BY <1>2, BoundAssumption DEF Set, Item, TypeOK
  <2> QED
    BY <1>1, <1>2, <2>1 DEF Set
<1>3. ASSUME NEW m \in net, Deliver(m)
      PROVE  CheckpointsSuffice'
  <2>1. m.to \in Device /\ m.delta \in SUBSET Item
    BY DEF TypeOK, Message
  <2> QED
    BY <1>1, <1>3, <2>1 DEF Deliver, Merge
<1>4. ASSUME NEW d \in Device, Checkpoint(d)
      PROVE  CheckpointsSuffice'
  BY <1>4 DEF Checkpoint, CheckpointsSuffice, TypeOK
<1>5. CASE UNCHANGED <<store, dirty, saved>>
  BY <1>5 DEF CheckpointsSuffice
<1>6. ASSUME NEW d \in Device, NEW r \in Device, SendFull(d, r) \/ SendDelta(d, r)
      PROVE  CheckpointsSuffice'
  BY <1>5, <1>6 DEF SendFull, SendDelta, Send
<1>7. ASSUME NEW m \in net, Lose(m)
      PROVE  CheckpointsSuffice'
  BY <1>5, <1>7 DEF Lose
<1>8. CASE UNCHANGED vars
  BY <1>5, <1>8 DEF vars
<1> QED
  BY <1>2, <1>3, <1>4, <1>6, <1>7, <1>8 DEF Next, Synchronise

\* The keys the checkpoints hand out are all that has to be saved.
THEOREM CheckpointsAreComplete == Spec => []CheckpointsSuffice
<1>1. Init => CheckpointsSuffice
  BY DEF Init, CheckpointsSuffice
<1> QED
  BY <1>1, StepKeepsCheckpoints, InductiveInvariant, PTL DEF Spec

\* The pair recorded for a key is about that key, and the map is past it.
ConflictInv ==
    \A d \in Device : \A k \in Key : skew[d][k] # None =>
        /\ skew[d][k].local.key = k
        /\ skew[d][k].remote.key = k
        /\ Covers(store[d][k], skew[d][k].local)
        /\ Covers(store[d][k], skew[d][k].remote)

\* _compare_and_resolve leaves both versions of a conflict it records, and of
\* the conflicts it does not touch, at or behind the version in the map.
LEMMA ResolveKeepsConflicts ==
    ASSUME IInv, IInv', ConflictInv, NEW d \in Device, NEW S \in SUBSET Item,
           OnePerKey(S), Resolve(d, S)
    PROVE  ConflictInv'
<1> USE DEF IInv
<1> SUFFICES ASSUME NEW x \in Device, NEW k \in Key, skew'[x][k] # None
             PROVE  /\ skew'[x][k].local.key = k
                    /\ skew'[x][k].remote.key = k
                    /\ Covers(store'[x][k], skew'[x][k].local)
                    /\ Covers(store'[x][k], skew'[x][k].remote)
  BY DEF ConflictInv
<1> DEFINE far == {e \in S : e.key = k /\ Skewed(store[d][k], e)}
<1>1. CASE skew'[x][k] = skew[x][k]
  <2>1. skew[x][k] # None /\ skew[x][k] \in Conflict \union {None}
    BY <1>1 DEF TypeOK
  <2>2. skew[x][k] \in Conflict
    BY <2>1
  <2>3. skew[x][k].local \in Item /\ skew[x][k].remote \in Item
    BY <2>2 DEF Conflict
  <2> QED
    BY <1>1, <2>1, <2>3, ResolveMonotone DEF ConflictInv
<1>2. CASE x = d /\ far # {} /\ skew'[d][k] = [local |-> store[d][k],
                                             remote |-> CHOOSE e \in far : TRUE]
  <2>1. PICK e \in far : skew'[d][k].remote = e
    BY <1>2
  <2>2. skew'[d][k].local = store[d][k]
    BY <1>2
  <2>3. store[d][k] # None /\ store[d][k] \in Item /\ store[d][k].key = k
    BY <2>1 DEF Skewed, TypeOK, StoreFromLearned
  <2>4. Covers(store'[d][k], store[d][k])
    <3>1. Covers(store[d][k], store[d][k])
      BY <2>3 DEF Covers
    <3> QED
      BY <2>3, <3>1, ResolveMonotone
  <2>5. e.key = k /\ Covers(store'[d][k], e)
    BY <2>1, ResolveCovers
  <2> QED
    BY <1>2, <2>1, <2>2, <2>3, <2>4, <2>5
<1>3. x # d => skew'[x] = skew[x]
  BY DEF Resolve, TypeOK
<1>4. skew'[d][k] = IF far = {} THEN skew[d][k]
                    ELSE [local |-> store[d][k], remote |-> CHOOSE e \in far : TRUE]
  BY DEF Resolve, TypeOK
<1> QED
  BY <1>1, <1>2, <1>3, <1>4

\* No operation lets a recorded version outrank the one the map serves.
LEMMA StepKeepsConflicts ==
    ASSUME IInv, IInv', ConflictInv, [Next]_vars
    PROVE  ConflictInv'
<1> USE DEF IInv
<1>1. ASSUME NEW d \in Device, NEW k \in Key, NEW v \in Value, NEW t \in 0..MaxTime,
             Set(d, k, v, t)
      PROVE  ConflictInv'
  <2> DEFINE e == [key |-> k, value |-> v, physical |-> t,
                   logical |-> counter[d] + 1, device |-> d]
  <2>1. e \in Item
    BY <1>1, BoundAssumption DEF Set, Item, TypeOK
  <2> QED
    BY <1>1, <2>1, ResolveKeepsConflicts DEF Set, OnePerKey
<1>2. ASSUME NEW m \in net, Deliver(m)
      PROVE  ConflictInv'
  <2>1. m.to \in Device /\ m.delta \in SUBSET Item /\ OnePerKey(m.delta)
    BY DEF TypeOK, Message, MessagesWellFormed, OnePerKey
  <2> QED
    BY <1>2, <2>1, ResolveKeepsConflicts DEF Deliver, Merge
<1>3. ASSUME NEW d \in Device, Checkpoint(d)
      PROVE  ConflictInv'
  BY <1>3 DEF Checkpoint, ConflictInv, TypeOK
<1>4. CASE UNCHANGED <<store, skew>>
  BY <1>4 DEF ConflictInv
<1>5. ASSUME NEW d \in Device, NEW r \in Device, SendFull(d, r) \/ SendDelta(d, r)
      PROVE  ConflictInv'
  BY <1>4, <1>5 DEF SendFull, SendDelta, Send
<1>6. ASSUME NEW m \in net, Lose(m)
      PROVE  ConflictInv'
  BY <1>4, <1>6 DEF Lose
<1>7. CASE UNCHANGED vars
  BY <1>4, <1>7 DEF vars
<1> QED
  BY <1>1, <1>2, <1>3, <1>5, <1>6, <1>7 DEF Next, Synchronise

\* A map never serves a version that loses to one it recorded in a conflict.
THEOREM ConflictsStayBehind == Spec => []ConflictNeverOutranksStore
<1>1. Init => ConflictInv
  BY DEF Init, ConflictInv
<1>2. ConflictInv => ConflictNeverOutranksStore
  BY DEF ConflictInv, ConflictNeverOutranksStore
<1> QED
  BY <1>1, <1>2, StepKeepsConflicts, InductiveInvariant, PTL DEF Spec
=============================================================================
