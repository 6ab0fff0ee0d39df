------------------------------- MODULE L0Sync -------------------------------
(***************************************************************************)
(* The two users of LWWMap on a device (memory_system/l0_crdt): the        *)
(* L0SyncLayer, through which the program reads and writes, and the        *)
(* SyncManager, which applies remote entries and takes checkpoints.  Each  *)
(* keeps maps of its own; maps of different branches share nothing, so one *)
(* branch is modelled.  Unlike LWWMap.set without a timestamp, the layer   *)
(* stamps with HybridTimestamp.now(): the wall clock and counter 0.  The   *)
(* counter of its maps, which merge increments, is never read.             *)
(***************************************************************************)
EXTENDS HybridTimestamp, FiniteSets, FiniteSetsExt

CONSTANTS
    Device,     \* device identifiers: their ranks as strings
    Key, Value,
    None,       \* an absent key
    MaxTime,    \* bound: wall clocks read 0 .. MaxTime
    MaxSets     \* bound: calls of set, of all layers together

Item == [key : Key, value : Value, physical : 0..MaxTime, logical : {0},
         device : Device]
User == {"layer", "manager"}

ASSUME DeviceAssumption == Device \subseteq Nat
ASSUME NoneAssumption == None \notin Item
ASSUME BoundAssumption == MaxTime \in Nat /\ MaxSets \in Nat

VARIABLES
    store,      \* store[u][d][k]: _store of the map of user u on device d
    dirty,      \* dirty[u][d]: its _dirty_keys
    learned,    \* learned[u][d]: every version it was given (history)
    outcome     \* how the last call of L0SyncLayer.merge ended

vars == <<store, dirty, learned, outcome>>

issued == UNION {learned["layer"][d] : d \in Device}

\* The sets of versions a dict can hold: one version per key.
Entries == {S \in SUBSET issued : \A e, f \in S : e.key = f.key => e = f}
-----------------------------------------------------------------------------
Init ==
    /\ store = [u \in User |-> [d \in Device |-> [k \in Key |-> None]]]
    /\ dirty = [u \in User |-> [d \in Device |-> {}]]
    /\ learned = [u \in User |-> [d \in Device |-> {}]]
    /\ outcome = None

\* Seeded fault: >= for >, so that no tie-break is needed.
FaultyWins(local, e) == local = None \/ ~TsBefore(e, local)
Wins(local, e) == local = None \/ Newer(e, local)

\* LWWMap._compare_and_resolve for each version in S; recorded skew conflicts
\* and the reports made of them change no version and are left to LWWMap.
Resolve(u, d, S) ==
    LET won(k) == {e \in S : e.key = k /\ Wins(store[u][d][k], e)}
    IN  /\ store' = [store EXCEPT ![u][d] = [k \in Key |->
                        IF won(k) = {} THEN store[u][d][k]
                                       ELSE CHOOSE e \in won(k) : TRUE]]
        /\ dirty' = [dirty EXCEPT ![u][d] = @ \union {k \in Key : won(k) # {}}]
        /\ learned' = [learned EXCEPT ![u][d] = @ \union S]

\* L0SyncLayer.set at wall time t, with the device identifier x that the caller
\* chooses.
LayerSet(d, k, v, t, x) ==
    /\ Cardinality(issued) < MaxSets
    /\ Resolve("layer", d, {[key |-> k, value |-> v, physical |-> t,
                             logical |-> 0, device |-> x]})
    /\ UNCHANGED outcome

\* L0SyncLayer.merge of LWWEntry values.
LayerMerge(d, S) ==
    /\ Resolve("layer", d, S)
    /\ outcome' = "merged"

\* LWWMap.get_delta(c) of user u, c[x] being the counter known of device x.
Delta(u, d, c) ==
    {e \in {store[u][d][k] : k \in Key} \ {None} : e.logical > c[e.device]}

\* The vector clock of a map that learned the versions S.
Clock(S) ==
    [x \in Device |-> Max({0} \union {e.logical : e \in {f \in S : f.device = x}})]

\* L0SyncLayer.merge of what L0SyncLayer.get_delta() of device r returned:
\* the values without their entries.  All values are looked at first.
LayerMergeValues(d, r) ==
    LET values == {<<e.key, e.value>> :
                      e \in {store["layer"][r][k] : k \in Key} \ {None}}
    IN  /\ outcome' = IF values = {} THEN "merged" ELSE "TypeError"
        /\ UNCHANGED <<store, dirty, learned>>

\* L0SyncLayer.checkpoint.
LayerCheckpoint(d) ==
    /\ dirty' = [dirty EXCEPT !["layer"][d] = {}]
    /\ UNCHANGED <<store, learned, outcome>>

\* SyncManager.apply_remote.
ManagerApply(d, S) ==
    /\ Resolve("manager", d, S)
    /\ UNCHANGED outcome

\* SyncManager.checkpoint returns these keys, the dirty ones of its own map.
Flushed(d) == dirty["manager"][d]
ManagerCheckpoint(d) ==
    /\ dirty' = [dirty EXCEPT !["manager"][d] = {}]
    /\ UNCHANGED <<store, learned, outcome>>

Next == \E d \in Device :
    \/ \E k \in Key, v \in Value, t \in 0..MaxTime, x \in Device : LayerSet(d, k, v, t, x)
    \/ \E S \in Entries : LayerMerge(d, S) \/ ManagerApply(d, S)
    \/ \E r \in Device \ {d} : LayerMergeValues(d, r)
    \/ LayerCheckpoint(d)
    \/ ManagerCheckpoint(d)

Spec == Init /\ [][Next]_vars
-----------------------------------------------------------------------------
\* Any two maps, of layers or managers, that were given the same versions agree
\* on every key up to its value: they show versions with the same timestamp and
\* device.  So they show the same, whatever the order of arrival, except where a
\* key was set twice under one identifier within one tick of the clock.
AgreeUpToTies ==
    \A u, w \in User : \A a, b \in Device : \A k \in Key :
        learned[u][a] = learned[w][b] =>
            LET e == store[u][a][k]
                f == store[w][b][k]
            IN  \/ e = None /\ f = None
                \/ /\ e # None /\ f # None
                   /\ TsEqual(e, f) /\ e.device = f.device
-----------------------------------------------------------------------------
(***************************************************************************)
(* What the comments and interfaces say.                                   *)
(***************************************************************************)

\* "Tie-break by device_id lexicographic order for determinism" (lww_map.py):
\* maps that were given the same versions are equal.
Deterministic ==
    \A u, w \in User : \A a, b \in Device :
        learned[u][a] = learned[w][b] => store[u][a] = store[w][b]

\* get_delta computes the "delta since a given vector clock for incremental
\* sync": the delta for the clock of a layer has the versions that layer lacks.
DeltaCarriesNews ==
    \A d, r \in Device : \A k \in Key :
        LET e == store["layer"][d][k]
        IN  e # None /\ e \notin learned["layer"][r]
                => e \in Delta("layer", d, Clock(learned["layer"][r]))
=============================================================================
