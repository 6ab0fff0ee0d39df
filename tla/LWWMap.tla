------------------------------- MODULE LWWMap -------------------------------
(***************************************************************************)
(* LWWMap (memory_system/l0_crdt/lww_map.py) on several devices, each with *)
(* one map, as SyncManager keeps one per branch.  A device writes with its *)
(* own clock, asks others for a delta since its vector clock or for their  *)
(* full state, and merges what arrives.  The transport is outside the      *)
(* repository: messages are lost, duplicated, delayed and reordered.       *)
(***************************************************************************)
EXTENDS HybridTimestamp, FiniteSets

CONSTANTS
    Device,             \* device identifiers: their ranks as strings
    Key,
    Value,
    None,               \* a key that is absent, a conflict that is absent
    MAX_CLOCK_SKEW_NS,  \* the skew threshold, in ticks of the model's clock
    MaxTime,            \* bound: physical clocks read 0 .. MaxTime
    MaxCounter,         \* bound: of every logical counter
    MaxWrites,          \* bound: writes of all devices together
    MaxNet              \* bound: messages in flight

Item == [key : Key, value : Value, physical : 0..MaxTime,
         logical : 1..MaxCounter, device : Device]

ASSUME DeviceAssumption == Device \subseteq Nat
ASSUME KeyAssumption == IsFiniteSet(Key)
ASSUME NoneAssumption == None \notin Item
ASSUME BoundAssumption ==
    /\ MAX_CLOCK_SKEW_NS \in Nat
    /\ MaxTime \in Nat
    /\ MaxCounter \in Nat
    /\ MaxWrites \in Nat
    /\ MaxNet \in Nat

VARIABLES
    store,      \* store[d][k]: _store of the map of device d
    dirty,      \* dirty[d]: _dirty_keys
    skew,       \* skew[d][k]: _skew_conflicts, the pair of versions or None
    counter,    \* counter[d]: _logical_counter
    net,        \* messages in flight
    learned,    \* learned[d]: every version d wrote or was given (history)
    saved       \* saved[d][k]: version last flushed by a checkpoint of d

vars == <<store, dirty, skew, counter, net, learned, saved>>

Conflict == [local : Item, remote : Item]
Message == [to : Device, delta : SUBSET Item]

\* Every version written so far, by any device.
issued == UNION {learned[d] : d \in Device}
-----------------------------------------------------------------------------
Init ==
    /\ store = [d \in Device |-> [k \in Key |-> None]]
    /\ dirty = [d \in Device |-> {}]
    /\ skew = [d \in Device |-> [k \in Key |-> None]]
    /\ counter = [d \in Device |-> 0]
    /\ net = {}
    /\ learned = [d \in Device |-> {}]
    /\ saved = [d \in Device |-> [k \in Key |-> None]]

\* Seeded faults.  An operator named Faulty... is its neighbour below with a bug
\* that its code could have; no specification uses it.  It stands for the
\* question whether a property would notice that bug.
\* Here: >= for >, no tie-break by device; the logical counter not compared.
FaultyWinsArrival(local, e) == local = None \/ ~TsBefore(e, local)
FaultyWinsPhysical(local, e) == local = None \/ e.physical >= local.physical

\* The version e replaces what the map holds for its key.
Wins(local, e) == local = None \/ Newer(e, local)

\* The version e is so far from the one the map holds that both are recorded.
Skewed(local, e) == local # None /\ Apart(e, local, MAX_CLOCK_SKEW_NS)

\* _compare_and_resolve for every version in S (at most one per key) on d.
Resolve(d, S) ==
    LET won(k) == {e \in S : e.key = k /\ Wins(store[d][k], e)}
        far(k) == {e \in S : e.key = k /\ Skewed(store[d][k], e)}
    IN  /\ store' = [store EXCEPT ![d] = [k \in Key |->
                        IF won(k) = {} THEN store[d][k]
                                       ELSE CHOOSE e \in won(k) : TRUE]]
        /\ dirty' = [dirty EXCEPT ![d] = @ \union {k \in Key : won(k) # {}}]
        /\ skew' = [skew EXCEPT ![d] = [k \in Key |->
                        IF far(k) = {} THEN skew[d][k]
                        ELSE [local |-> store[d][k],
                              remote |-> CHOOSE e \in far(k) : TRUE]]]
        /\ learned' = [learned EXCEPT ![d] = @ \union S]

\* set(key, value): the logical counter goes up, the wall clock reads any t.
Set(d, k, v, t) ==
    LET e == [key |-> k, value |-> v, physical |-> t,
              logical |-> counter[d] + 1, device |-> d]
    IN  /\ counter[d] < MaxCounter
        /\ Cardinality(issued) < MaxWrites
        /\ counter' = [counter EXCEPT ![d] = @ + 1]
        /\ Resolve(d, {e})
        /\ UNCHANGED <<net, saved>>

\* The versions get_delta returns: everything, or what the baseline c lacks.
FullState(d) == {store[d][k] : k \in Key} \ {None}
\* Fault: the clock is taken for the first counter that is still missing.
FaultyDelta(d, c) == {e \in FullState(d) : e.logical > c[e.device] + 1}
Delta(d, c) == {e \in FullState(d) : e.logical > c[e.device]}

Send(m) ==
    /\ m \in net \/ Cardinality(net) < MaxNet
    /\ net' = net \union {m}
    /\ UNCHANGED <<store, dirty, skew, counter, learned, saved>>

\* get_delta() for device r: the full state.
SendFull(d, r) == Send([to |-> r, delta |-> FullState(d)])

\* The vector clocks the caller of get_delta may hold for device r: for each
\* device, the counter of a version of that device r was given, or nothing.
\* This has the clock of every moment r may have sent its request at.
Clocks(r) ==
    {c \in [Device -> 0..MaxCounter] : \A x \in Device :
        c[x] = 0 \/ \E e \in learned[r] : e.device = x /\ e.logical = c[x]}

\* get_delta(c) for device r.
SendDelta(d, r) ==
    \E c \in Clocks(r) : Send([to |-> r, delta |-> Delta(d, c)])

\* merge: one tick of the counter and one comparison per version received.
Merge(m) ==
    LET d == m.to
    IN  /\ counter[d] + Cardinality(m.delta) <= MaxCounter
        /\ counter' = [counter EXCEPT ![d] = @ + Cardinality(m.delta)]
        /\ Resolve(d, m.delta)
        /\ UNCHANGED saved

\* The message stays in flight, to be delivered again, or is used up.
Deliver(m) == Merge(m) /\ UNCHANGED net
DeliverOnce(m) == Merge(m) /\ net' = net \ {m}

Lose(m) ==
    /\ net' = net \ {m}
    /\ UNCHANGED <<store, dirty, skew, counter, learned, saved>>

\* Fault: the set handed out is the one that is then emptied.
FaultyCheckpoint(d) ==
    /\ dirty' = [dirty EXCEPT ![d] = {}]
    /\ skew' = [skew EXCEPT ![d] = [k \in Key |-> None]]
    /\ UNCHANGED <<store, counter, net, learned, saved>>

\* checkpoint: the dirty keys are handed out to be saved, both sets emptied.
Checkpoint(d) ==
    /\ saved' = [saved EXCEPT ![d] = [k \in Key |->
                    IF k \in dirty[d] THEN store[d][k] ELSE saved[d][k]]]
    /\ dirty' = [dirty EXCEPT ![d] = {}]
    /\ skew' = [skew EXCEPT ![d] = [k \in Key |-> None]]
    /\ UNCHANGED <<store, counter, net, learned>>

Synchronise ==
    \/ \E d \in Device, k \in Key, v \in Value, t \in 0..MaxTime : Set(d, k, v, t)
    \/ \E d, r \in Device : d # r /\ (SendFull(d, r) \/ SendDelta(d, r))
    \/ \E m \in net : Deliver(m) \/ Lose(m)

Next == Synchronise \/ \E d \in Device : Checkpoint(d)

Spec == Init /\ [][Next]_vars

\* A caller that polls: device r asks d for what it lacks, one message at a
\* time; polling never stops and not every answer is lost.  The repository
\* leaves polling to the transport, so this is what convergence demands of it.
Poll(d, r) ==
    /\ \A m \in net : m.to # r
    /\ \E c \in Clocks(r) :
        /\ \A e \in learned[r] : e.logical <= c[e.device]
        /\ Delta(d, c) # {}
        /\ Send([to |-> r, delta |-> Delta(d, c)])

PollNext ==
    \/ \E d \in Device, k \in Key, v \in Value, t \in 0..MaxTime : Set(d, k, v, t)
    \/ \E d, r \in Device : d # r /\ Poll(d, r)
    \/ \E m \in net : DeliverOnce(m) \/ Lose(m)

PollSpec ==
    /\ Init
    /\ [][PollNext]_vars
    /\ \A d, r \in Device : d # r => SF_vars(Poll(d, r))
    /\ \A r \in Device : SF_vars(\E m \in net : m.to = r /\ DeliverOnce(m))
-----------------------------------------------------------------------------
\* The types of the variables.
TypeOK ==
    /\ store \in [Device -> [Key -> Item \union {None}]]
    /\ dirty \in [Device -> SUBSET Key]
    /\ skew \in [Device -> [Key -> Conflict \union {None}]]
    /\ counter \in [Device -> 0..MaxCounter]
    /\ net \in SUBSET Message
    /\ learned \in [Device -> SUBSET Item]
    /\ saved \in [Device -> [Key -> Item \union {None}]]

\* The version w is held by x or by something newer than it.
Covers(x, w) == x # None /\ (x = w \/ Newer(x, w))

\* Two devices that have been given the same versions hold the same map,
\* whatever the order, the repetitions and the grouping into messages in
\* which _compare_and_resolve saw them.
StrongConvergence ==
    \A a, b \in Device : learned[a] = learned[b] => store[a] = store[b]

\* No write is ever skipped by get_delta: what the counter of a version learned
\* by d covers, in d's vector clock, d's map holds or has replaced by something
\* newer, although the logical counters get_delta filters on are not the
\* physical times by which versions are ordered, and deltas pass through others.
DeltaLosesNothing ==
    \A d \in Device : \A e \in learned[d] : \A w \in issued :
        w.device = e.device /\ w.logical <= e.logical => Covers(store[d][w.key], w)

\* A key outside _dirty_keys has not changed since it was last flushed, so the
\* keys the checkpoints return are enough to rebuild the map after a crash.
CheckpointsSuffice ==
    \A d \in Device : \A k \in Key :
        k \notin dirty[d] => saved[d][k] = store[d][k]

\* The version a map serves never loses to a version it only keeps in a
\* recorded conflict, through any writes and merges after it was recorded.
ConflictNeverOutranksStore ==
    \A d \in Device : \A k \in Key :
        skew[d][k] # None =>
            /\ Covers(store[d][k], skew[d][k].local)
            /\ Covers(store[d][k], skew[d][k].remote)

\* Every map shows the newest version it has learned, however it learned it.
Join == INSTANCE LWWJoin WITH view <- store
ImplementsJoin == Join!Spec

\* Once the writes have ended, polling alone brings all the maps together:
\* get_delta never filters out the version a map still needs.
EventualConvergence ==
    <>[](\A a, b \in Device : store[a] = store[b])
-----------------------------------------------------------------------------
(***************************************************************************)
(* The inductive invariant of the proofs in LWWMapProofs.                  *)
(***************************************************************************)

\* A map shows versions of the right key, and only versions it was given.
StoreFromLearned ==
    \A d \in Device : \A k \in Key : store[d][k] # None =>
        store[d][k].key = k /\ store[d][k] \in learned[d]

\* A message is a finite map of versions somebody wrote: one per key.
MessagesWellFormed ==
    \A m \in net :
        /\ IsFiniteSet(m.delta)
        /\ m.delta \subseteq issued
        /\ \A e, f \in m.delta : e.key = f.key => e = f

\* The logical counter of a device is past all of its own writes, so that a
\* device and a counter name one write.
CounterAhead == \A w \in issued : w.logical <= counter[w.device]
StampsUnique ==
    \A w, x \in issued : w.device = x.device /\ w.logical = x.logical => w = x

\* A device knows its own writes.
OwnWritesLearned == \A w \in issued : w \in learned[w.device]

\* A map has, for every version it learned, that version or a newer one.
StoreCoversLearned ==
    \A d \in Device : \A w \in learned[d] : Covers(store[d][w.key], w)

\* The delta m brings device m.to nothing out of turn: a write at or below the
\* counter of a version it carries is covered by the receiver or by the delta.
MessagesInTurn ==
    \A m \in net : \A e \in m.delta : \A w \in issued :
        w.device = e.device /\ w.logical <= e.logical =>
            \/ Covers(store[m.to][w.key], w)
            \/ \E f \in m.delta : f.key = w.key /\ Covers(f, w)

IInv ==
    /\ TypeOK
    /\ StoreFromLearned
    /\ MessagesWellFormed
    /\ CounterAhead
    /\ StampsUnique
    /\ OwnWritesLearned
    /\ StoreCoversLearned
    /\ DeltaLosesNothing
    /\ MessagesInTurn
=============================================================================
