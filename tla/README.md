# ChronoPersona in TLA+

Specifications of ChronoPersona's core: what its components keep, what their operations do to it, and
what must hold whatever the order in which devices, calls, clients and failures come. Every definition
is translated from the Python source; `PROJECT.json` gives the lines of each (`map`). TLC checks the
specifications on small instances, TLAPS proves the central properties for every value of the constants.

Paths below are relative to `src/`; `cp/` stands for `chronopersona/`.

## 1. The system

ChronoPersona is a memory system for a conversational agent with a body: a chat turn goes through
intent, mood, memory and a language model, is remembered in layers (L0 synchronised key-value state, L1
working memory, L2 episodes, L3 a semantic graph, insights), and may move a robot in a simulated room.
The part that runs as a server is `scripts/serve_mva.py`:

    browser --websocket--> websocket_handler --sync call--> WebSocketGateway.handle_message
        ^                     (one coroutine per client)                |
        |                                                               v
        +-- frames, pose <-- broadcast_state_async       StateMachineAgentCore.run_turn
                                   ^                      |        |         |        |
                                   |                   L1 window  L2 store  router  adapter
                                   +---- reads _nav_path and the pose ---------------+

### Inventory

| component | state | operations | interacts with | hard behaviour | what makes it correct |
|---|---|---|---|---|---|
| L0 map (`cp/memory_system/l0_crdt/lww_map.py`, `hybrid_timestamp.py`) | `_store`, `_dirty_keys`, `_skew_conflicts`, `_logical_counter` | set, merge, get_delta, checkpoint | maps of other devices, by messages of a transport the repository leaves open | loss, repetition, reordering; clocks apart; delta filters on a counter, order on a time | same versions, same map; deltas lose nothing; checkpoints suffice |
| L0 layer and manager (`sync_layer.py`, `sync_manager.py`) | a map per branch, each of its own | set, merge, get_delta; apply_remote, get_dirty_keys, checkpoint | two users of the same kind of map, stamps without a counter | ties within a clock tick | agreement up to ties |
| L1 window (`l1_working/sliding_window.py`) | `_turns`, `_compressed_summaries`, `_next_turn_id` | add_turn, get_context | calls a compressor (a model) | the compressor raises half way; two triggers compress in one call; summaries may grow | every turn told once; bounded; contexts without gaps |
| Model router (`cp/model_router/fallback_router.py`) | cache with times, health marks, cost records | route, stream_route, cost summary, cache_clear | model clients, mode switch | expiry while a call runs, failing clients, keys that collide | isolation, order of fallback, honest giving up, costs |
| Mode switch and credentials (`api_mode_switch.py`, `runtime_credential_provider.py`) | mode, reported health; overrides of keys | switch_mode, get_mode_for_task, update_local_health; get_api_key | router, HTTP clients | keys that change under a call | the mode has no say in who answers (and, in this code, cannot have any) |
| HTTP clients (`base_http_client.py` and three subclasses) | none between calls | complete with retries, stream_complete, health_check | credential provider, services over a network | answers lost, late, refused, broken; several threads; a stream is a generator that its consumer may leave | nothing answered is asked again; retries used up; streams whole; calls end |
| Agent core (`cp/agent_core/state_machine.py` and its nodes) | mood, tokens used, windows, turn counts, persona | run_turn, switch_persona, commit_session_snapshot | all of the above, planner, adapter, scheduler | any call may raise and end the turn; branches share the mood | nothing done or told is forgotten; budget; consolidation |
| Insight scheduler (`cp/memory_system/insight/scheduler.py`) | last trigger per branch | maybe_trigger | the agent core counts, an agent consolidates | two counters; agents that decline, raise or have other signatures | no branch waits for more than a round unless its agent did not agree |
| Server and gateway (`scripts/serve_mva.py`, `cp/api/ws_gateway.py`) | table of clients, path history | connect, message, replay, broadcast, disconnect | coroutines share the robot and its animation | interleaving at every await, those of the sends included; clients that vanish; a failed send unregisters a client that is served | the table is right, movements are shown once, the last view is true |
| Grid world and HM3D adapters (`cp/embodied/grid_world_adapter.py`, `hm3d_adapter.py`) | poses, object index, obstacles, `_nav_path` | execute_action, navigate_to_object, get_perception | agent core, server | A* without a closed set, floats rounded in three places, goals off the grid | paths legal and shortest, ends nearest, frames of animations near free cells |
| Habitat adapter (`habitat_adapter.py`) | simulator, `_nav_path` | navigate_to_object step by step, execute_action, probe | the simulator | a step may raise, the server reads the path between walks | a result tells its own walk |
| Startup (`serve_mva.py`, `main`) | the adapter and what clients are told of it | choice of scene and backend, degradation | all adapters | imports and probes that fail in different ways | what is served is what is said |
| L2 stores (`l2_episodic/`) | entries and vectors per branch, soft deletions | add, retrieve, delete | agent core, retriever | near duplicates, deleted entries among the top k, an embedder that raises after the entry is listed | what was added and not deleted is kept and, if nothing failed before, can be found |
| L3 graph (`l3_semantic/`) | edges per branch, their status kept twice | build edges from turns, add, deprecate, reactivate, navigate | retriever | any order of the status changes, cycles | only active edges, nearest nodes |
| Hybrid retriever (`retrieval/hybrid_retriever.py`) | none | retrieve | both | lists of different lengths with common members | the fused list is exact |
| Persona injector (`cp/persona/injector.py`) | none | inject, eject | agent core | refuses an id after the core has taken it | the persona in place can be replaced (it cannot, section 6) |
| Snapshots, write-domain lock, privacy filter, insight engine, cost tracker, auth, emotion model | little or none | | | | section 7 |

## 2. The modules

| module | models | state and actions against the code |
|---|---|---|
| `HybridTimestamp` | `HybridTimestamp.__lt__`, the comparison of `_compare_and_resolve` | a version (`Item`) is a key with its `LWWEntry`; device identifiers are their ranks as strings |
| `LWWMap` | `LWWMap` on several devices | `store`, `dirty`, `skew`, `counter` are the fields of one map per device, `net` the transport (external), `learned` and `saved` histories. `Set`, `SendFull`, `SendDelta`, `Deliver`, `Lose`, `Checkpoint` |
| `LWWJoin` | abstract specification | each replica shows the newest of the versions it has learned; `LWWMap` implements it with `view <- store` |
| `L0Sync` | `L0SyncLayer` and `SyncManager` | both users' maps on each device; `LayerSet` stamps with counter 0 as `HybridTimestamp.now()` does, and with whatever device identifier its caller gives |
| `WorkingMemory` | `WorkingMemoryWindow` | `add_turn` in the steps between the compressor's calls: `AddTurn`, `Relieve`, `Relieved`, `Shift`, `Fits`, `CompressorRaises`; `Context` is `get_context` |
| `FallbackRouter` | `FallbackRouter` | one request at a time (`request`, `chain`), one action per attempt: `Start`, `CacheHit`, `NoClient` (a preference that names none), `LocalRule`, `Skip`, `Succeeds`, `Fails`, `RejectsCall`, `Exhausted`; `stream_route`; `Tick` is the clock, also during a call. A response carries the model name its cost record is filed under, which need not be its client's |
| `ModeSwitch` | `APIModeSwitch` | mode and reported health; the router holds one and its steps run in between |
| `HttpClient` | `BaseHttpClient`, `RuntimeCredentialProvider` | `call[t]` is the call thread t is in and how far it is; the services and the network are external: a request is refused, carried out, lost before or after that, or broken. A stream waits at each chunk (`yielded`) until its consumer calls `next()` (`Resume`) or closes it (`StreamClosed`). Keys are set and revoked meanwhile |
| `AgentCore` | `run_turn`, `_update_emotion`, `maybe_trigger`, the action planner, `switch_persona` | `phase` is the call a turn has reached; `Raises`, `RememberRaises`, and some ends of `Consolidate` and `Declines`, are the exceptions it does not catch. A call of the adapter that raises may have moved the body first (`moved` is "cut"); a goal is navigated to only if there is an adapter (`embodied`); the consolidation agent agrees, does not, or raises, as its kind allows (`Answers`); `Planned` is what `ActionPlanner` makes of a reply, `Executed` what the adapter answers to its steps; `SwitchPersona` comes between turns, a switch that fails before the id is taken changes nothing, and `inject` has nothing to do beyond its refusal, since it updates objects that have an `update` method and the agent core has none; `log` is a history |
| `MvaServer` | the coroutines of `websocket_handler` | an action is the code between two awaits, so that a broadcast is begun by one action and every send is another (`Send`); `todo`, `showing`: whom a coroutine still has to send what; `handler` says where it is; `pose` is reduced to the turn that moved the robot there. `last`, `misled`, `dropped` are histories of the sends |
| `AStar` | `_astar_2d` and `_astar_path` | a step is one turn of the loop: `Begin`, `Expand`, `Reach`, `GiveUp`, with the heap as a set; `Forget` is the return. Costs are integers: millimetres, or cells. Its `Spec` lets any problem be asked for, one after the other; no run checks that one, `Navigation` implements it (section 5) |
| `Navigation` | the rest of `HM3DAdapter` and `GridWorldAdapter` | the grid made of obstacles, nearest free cells, smoothing one comparison at a time, animation, straight-line fallback, the other actions; EXTENDS `AStar` and lets it search; the loop of `_find_nearest_free_cell` is a recursive function of its queue and its set of visited cells (`Fresh`, `Inside`, `Exhausted`, `Later` are the parts of a turn). Lengths are millimetres, sampled points rationals; where floats decide a rounding, both outcomes are possible |
| `House` | the furniture built into `hm3d_adapter.py` and `serve_mva.py` | constants, so that the run includes the real rooms; an assumption checks that the tables agree |
| `Habitat` | `HabitatAdapter` | one simulator step per action; place and quarter turn of its robot are external; yaw is read from it as the code reads it (`ReadYaws`) |
| `Embodied` | `main` of `serve_mva.py` with whichever adapter it chose | `step` is where `main` is; afterwards the steps of the chosen adapter |
| `EpisodicStore` | `SimpleEpisodicStore`, `FaissEpisodicStore` | lists and index as sequences; a vector is known by the content it was made from, similarity is a relation that need not be transitive; a retrieval may rank entries in any order. The embedder may raise: `EmbedderRaises` is `add` of the simple store ended between its two appends; `whole`, `failures` and `told` are ghosts that say what was added before that |
| `EdgeBuilder` | `EdgeBuilder.build_from_turn` | the edges made of a turn; texts are what the templates match in them |
| `IntentGraph` | `IntentGraph`, `IntentNavigator` | edges in order with both records of their status; `navigate` is the breadth-first search |
| `Retrieval` | `HybridRetriever` | composes the stores, the graph and the navigator; `Fuse` is the interleaving |
| `Selection` | `[x for x in s if x in T]` | the comprehension as a recursive function, which proofs can unfold; used by the router, the stores and the graph |
| `ShortestPaths` | reference definition | distances by relaxation, against which TLC compares the searches; recursive, so no proof uses it |
| `LWWMapProofs`, `L0SyncProofs`, `MemoryProofs`, `ModelRouterProofs`, `AgentCoreProofs`, `MvaServerProofs`, `EmbodiedProofs` | theorems | section 5; `SelectionProofs` has the lemmas about recursive functions they share |
| `MC...` | instances for TLC | definitions for the `.cfg` files |

Conventions. An operator `Faulty...` is its neighbour with a bug that code could have; no
specification uses it. It stands for the question whether a property would notice: substituted for its
neighbour, TLC finds the property named in `mutants` violated. Names starting with `Max` are bounds of
the model, not of the code. Histories are marked as such where they are declared.

What is abstracted. Values, prompts, replies and turns are identifiers; texts are token counts (window),
sequences of the pieces a cache key tells apart (router), or what the rules see in them (agent core).
Logging and wording are left out.

How they fit. The modules are tied by what one assumes and another shows: `AgentCore` keeps a window as
the turns given to `add_turn`, which `WorkingMemory` shows are never lost, and lets `RememberRaises`
append before it ends the turn because that is where `WorkingMemory`'s `CompressorRaises` leaves the
window; `MvaServer` takes a turn as one step, which may raise at any point, because `handle_message` is
synchronous and `AgentCore` says how a turn may end; `AgentCore` lets an adapter answer anything, which
`Embodied` narrows down; `L0Sync` uses the comparison of `LWWMap` and not its counter. `Embodied` =
startup + `Navigation` (+ `AStar`, `House`) or `Habitat`; `Retrieval` = `EpisodicStore` + `IntentGraph`
(+ `EdgeBuilder`); `FallbackRouter` = router + `ModeSwitch`. `HttpClient` stands alone because `route`
cannot call it (section 6).

## 3. The runs

| run | instance | what it shows |
|---|---|---|
| `lww` | 3 devices, 2 keys, clocks 0..1, threshold 0, 3 writes, 1 message on the way | convergence, refinement of `LWWJoin`, deltas, checkpoints. Threshold 0 makes every difference of the clocks a skew, so there are ties and skews; a third device is what lets a delta arrive by a detour; a second key lets one version hide behind another |
| `lww_poll` | 2 devices, 2 keys, clocks 0..1, threshold 0, 4 writes, 2 messages, `PollSpec` | convergence as liveness; conflicts: with four writes a conflict is recorded and then overtaken by a later version of its key, which three writes leave no room for |
| `l0sync_agree` | 2 devices, 1 key, 2 values, clocks 0..1, 2 sets | layers and managers agree up to ties |
| `l0sync_delta` | same | violation, section 6 |
| `window` | window of 3, threshold 6, 7 turns of 0, 1 or 4 tokens, summaries of 1 or 3 | turns, bounds, contexts, end of the relief loop. Summaries smaller and larger than what they replace; seven turns overflow the window twice, also after a compressor failed |
| `router` | tiers T0, T3b, T5 and an unknown one; branches "a" and "b"; no persona, an empty one, "a" and "b:a"; prompts "a" and "a:a"; a preferred client and one that does not exist; `deepseek` an HTTP client, two clients whose answers name one model; entries live 0 ticks, clock 0..1, 2 cost records per branch; any mode | isolation, order, giving up, costs. The requests differ in one thing at a time, and two of them share a key because of the separator; one tick is enough to expire an entry before, during or after a call; the tiers are one of each kind: local first, rules only, two cloud clients, the default chain |
| `router_http` | all clients HTTP clients, as the router creates them | violation, section 6 |
| `access` | 2 threads, 1 client, 1 key, 3 attempts as in the code, three streams with every kind of line, 1 change of a key | retries, charges, streams, termination. Consumers go on, close a stream or leave it. Threads share only the keys, so two suffice; a key may be missing at first, set, accepted or revoked during a call |
| `agent` | 2 branches (symmetric), 5 kinds of message, costs 1 or 2, budget 2, rounds of 2, 3 for the insight engine, 3 turns, with and without an adapter, the personas "default" and the empty id | budget, memory, mood, consolidation, with four kinds of agent (one that answers as it likes, the repository's two, none) and an exception at any call. Three turns are enough for a round, for an agent that declines once and is asked again, and for the engine's own threshold |
| `server` | 2 clients (symmetric), 3 turns, history of 1 | the table, the settled view, replays. Two clients suffice for a broadcast that overtakes another, for a failed send to either of them, and for a replay during another; each send is a step |
| `embodied` | every combination of backend argument, scene, environment and failing import; rooms of 4 x 4 cells with any of 7 things, grids of 4 x 3 with any of 7 records, the built-in house of 42 x 42 cells, a hall of 14 x 8 cells with a post and the server's grid; a floor of two islands for the simulator, 6 steps, 3 annotations | paths, ends, animations, walks, startup. The 129 rooms and 128 grids hold objects and starts inside obstacles, off the grid, walled in, and both kinds of corner; the hall is where an animation cuts a corner; two trips make the second start where the first ended |
| `recall` | 1 branch, 3 texts of which only neighbours are alike and a blank one that is not even like itself (its vector is zero), 3 calls of `add`, any of which the embedder may fail, 3 edges among the nodes of three turns, both kinds of navigator | stores, graph, fusion. Three texts make the chain short - middle - long, on which a merge may drift; a memory that is also a node appears in both lists |

Deadlock is checked where the system always has a step (`lww`, `l0sync_*`, `access`). The other runs
say `CHECK_DEADLOCK FALSE`: a window that has had its last turn, a clock and cost records at their
bounds, the last turn of an agent, the last trip of a robot or a main that crashed, or (in `lww_poll`)
devices that have nothing left to ask for are ends of the model, or of the program.

The properties. Each is stated above its definition; in short:

- `StrongConvergence`, `ImplementsJoin`: order, repetition and grouping of messages do not matter.
- `DeltaLosesNothing`: a counter covered by a device's vector clock is covered by its map, although
  `get_delta` filters on logical counters and versions are ordered by physical time.
- `CheckpointsSuffice`: what is not dirty has been handed out as it is.
- `ConflictNeverOutranksStore`: a recorded conflict never holds the better version.
- `EveryTurnOnce`, `ContextHasNoGap`, `WindowBounded`, `RelievedInTime`: the window loses nothing to
  either trigger nor to a failing compressor, and its loop needs no emergency brake.
- `CacheIsolation`, `FallbackInOrder`, `GivesUpWhenAllFailed`, `CachedWasCharged`: the router's cache
  leaks nothing between requests whose branches and personas hold no separator (and whose persona is not
  called "none"); an answer, also one served later from the cache, comes from the first client of the
  chain that had not failed; a `ModelClientError` of `route` means that every client of the routing has
  failed, in this request or before; what is served was charged to the branch it was made for, under the
  model the answer named.
- `ChargedAsOftenAsLost`, `GivesUpAfterAllRetries`, `StreamIsFaithful`, `EveryCallEnds`: a client asks
  again only for what never came, reports an error only when its attempts are used up, delivers each
  chunk once and in order, and its calls end, unless a consumer leaves a stream at a chunk for ever.
- `TreeIsSound`, `PathIsShortest`, `EndsAreNearest`, `FramesStayNear`: A* finds a shortest legal path
  although cells improve after others were reached through them; the cells taken for a robot and a goal
  inside obstacles are free and nearest; a frame of an animation cuts less than a quarter of a cell into
  what is blocked.
- `ReportIsTrue`, `ServesWhatItSays`: a walk of the simulator's robot reports its own steps and whether
  it arrived; an adapter without a simulator is never served in silence.
- `VectorsMatchEntries`, `NothingToldIsLost`, `RetrievalIsFull`, `FusionIsExact`,
  `NavigateFindsNearest`, `OnlyActiveTraversed`: what was acknowledged is kept; what was added to a
  branch before the embedder first failed there can be found by what it says, through any merges,
  deletions and later failures; a retrieval misses no more than was deleted or has lost its vector; the
  graph's search is a shortest-path search along active edges only.
- `BudgetOvershotOnce`, `ToldAndDoneIsRemembered`, `MoodIsRecent`, `ConsolidatedInTime`: what a turn
  does and what it remembers stay together wherever it ends: a turn that was answered, and a movement the
  adapter answered for, is in the window; a branch waits longer than a round only if its agent was asked
  at the last turn and did not agree, and the insight engine agrees once both thresholds are reached.
- `TableHoldsTheServed`, `SettledViewIsTrue`, `ReplayedOnce`, whatever the interleaving of replays and of
  the sends of broadcasts: only a failed send takes a connected client out of the table, and nothing puts
  one back or keeps one that has left; once all is quiet, every client in the table was shown where the
  robot is, with the exceptions the histories `unseen` and `misled` name: the coroutine that moved it
  ended or could not see before it could tell, or one broadcast overtook another on its way.

## 4. Fairness

`PollSpec` of `LWWMap`, for `EventualConvergence`. The repository has no polling loop: `get_delta` is
called by whoever synchronises. So the fairness is an assumption about that caller and about the
transport, not about the code: polling never stops (SF of `Poll`) and not every answer is lost (SF of a
delivery). Strong fairness is needed because losing a message disables its delivery. The writes end
because `MaxWrites` bounds them.

`HttpFairSpec` of `HttpClient`, for `EveryCallEnds`: WF of `Progress(t)` for each thread, which holds
the steps of a call while its caller waits for it. The code justifies it: every wait for a service has a
time-out of httpx and `time.sleep` ends. Which step - an answer, a refusal, a loss - is left open. A
stream is a generator suspended at its `yield` (`base_http_client.py:286`) until its consumer asks for
more; neither `Resume` nor `StreamClosed` is in `Progress`, and nothing is assumed of callers, consumers,
operators or services. That is why `EveryCallEnds` excepts a stream left at one chunk for ever.

All other properties are safety properties and need none.

## 5. What is proved

By TLAPS, for any values of the constants: any devices, keys, branches, clients, grids, floors and
graphs, any thresholds, costs, budgets and bounds. The assumptions are those on the constants, all named
and evaluated by TLC in the runs: devices are numbers and keys finitely many (`DeviceAssumption`,
`KeyAssumption`), a message without any word has neither mood nor goal (`MessageAssumption`), `None` is
no version, no key, no request; texts, bodies and the fields of turns and queries are sequences
(`TextAssumption`, `HttpAssumption`, `GraphAssumption`, `QueryAssumption`), nodes are finitely many,
branches of the stores are branches of the graph, there is at least one attempt, a scene is a room whose
grid is within `MaxSpan`, or a grid, with objects at places (`SceneAssumption`), bounds are natural
numbers (`SpanAssumption` and others). One theorem has a hypothesis of
its own (`ReliefEndsInTime`), given below; the instance of its run satisfies it.

Three properties of the runs have no theorem; they are at the end of this section.

### L0: `LWWMapProofs`, `L0SyncProofs`

`InductiveInvariant`, `TypeCorrect`, `DeltaIsComplete`, `Converges`, `MapImplementsJoin`,
`CheckpointsAreComplete`, `ConflictsStayBehind`; `LayerInvariant`, `MapsAgree`.

The argument for the map. `DeltaLosesNothing` is not inductive: a delta in flight may be merged long
after it was made. The invariant `IInv` therefore also says of every message that it is in turn
(`MessagesInTurn`): a write whose counter is at or below that of a version it carries is covered by the
receiver already or by the message. This holds when the message is made because the vector clock is one
the receiver has earned (`Clocks`), and stays true because maps only move forward (`ResolveMonotone`).
That an earlier counter names an earlier write needs stamps to be unique (`StampsUnique`), hence that a
device's counter is ahead of its writes (`CounterAhead`) and that it knows them (`OwnWritesLearned`).
Two facts about the order carry the rest: it is transitive and, up to equal stamps, total. Convergence
and the refinement follow from one lemma: a map shows the latest of what it learned (`StoreIsLatest`).
Checkpoints and conflicts have small invariants of their own on top of `IInv`.

The layer and the manager stamp without a counter, so versions may tie and `StoreIsLatest` has no
analogue. What is inductive is weaker and enough: a map shows one of the versions it was given, and none
of those is newer. Two maps that were given the same then show versions of which neither is newer.

### L1, L2, L3: `MemoryProofs`

Window: `WindowInvariant`, `WindowTypeCorrect`, `TurnsAccountedFor`, `WindowStaysBounded`,
`ContextsHaveNoGap`, `ReliefEndsInTime`. Retrieval: `StoreInvariant`, `VectorsStayBesideEntries`,
`AcknowledgedIsKept`, `RetrievalsAreFull`, `GraphInvariant`, `OnlyActiveEdges`, `NearestIsFound`,
`FusionStaysExact`, all of `Retrieval`'s `Spec`.

The argument for the window. Turns have consecutive identifiers that end at `next_id - 1`;
everything before the window is in the summaries, in order; a compression of the `n` oldest turns moves
the border between the two by `n`, and `Half` is never more than there is. A context takes turns from the
newest backwards while they fit; that what it takes is a suffix is shown along the recursion. The relief
loop at least halves the window in each iteration: `ReliefEndsInTime` has the hypothesis
`EnoughHalvings`, that the limit of the loop leaves room for as many halvings as the turns allow. With
the code's limit of 100 that is 2^98 turns; the instance has the same limit and seven turns. Without any
such bound the property would be false.

The argument for the stores. Entries, vectors, deletions, acknowledgements and the number of whole
entries of one branch are good together (`Good`): the whole entries come first and lie beside their
vectors, there are no more vectors than entries, and whatever callers were told is among the entries, and
among the whole ones if it was whole when told. An append, an `add` that raises between its two appends,
a merge, a removal (which shifts both lists by one, or only the first if the place has no vector) and a
mark keep a branch good; what the embedder fails at later comes after the whole entries and cannot move
their vectors. A retrieval filters the best of a list that is as long as the shorter of the two; that it
misses no more than was deleted or lacks a vector counts the kinds of entries in what the filter kept.

The argument for the graph. The two records of an edge's status agree in every state, so the edges the
navigator follows are the active ones. The search is a queue of nodes with levels. Levels never fall
along the queue and span two values at most, and all that the nodes before the current one lead to is in
the queue one level up or lower (`Waves`). A turn keeps this (`TurnKeepsWaves`); each turn finishes one
node, so as many turns as there are nodes exhaust the queue, and then levels are distances
(`LevelsAreDistances`): the search returns what is within reach, and that only. The fused list is
compared with the two lists place by place.

### Router and clients: `ModelRouterProofs`

`RouterTypeCorrect`, `AnsweredInOrder`, `GivesUpHonestly`, `CacheIsCharged`, `CacheIsIsolated`,
`ModeDecidesNothing`; `HttpInvariant`, `HttpTypeCorrect`, `ChargedForLosses`, `NoEarlyGivingUp`,
`StreamsAreFaithful`.

A client is called by `route` only while it is marked healthy, so marks of failure are never taken away
(`FailedKept`). A chain is in order (`InChain`) if whoever the routing has before a client has failed, by
the marks, or is to be tried before it; an attempt keeps it so and makes of it what `FallbackInOrder`
says of the answer, also when the cache returns it later. Likewise every client of a routing is marked or
still to be tried (`Covers`), so when the chain is used up all are marked. For the costs, the invariant
counts for any set of models at once how many responses of them a branch has in the cache and how many
records (`ChargeInv`): a call adds to both, expiry and `cache_clear` take from the first only.

`CacheIsIsolated` holds for all texts; it is the property that speaks only of requests whose branch and
persona hold no separator and whose persona is not called "none"; prompts and tasks may contain anything.
Then the parts of a key can be read back, the persona and the branch from its end, the task from its
beginning (`KeyIsFaithful`). An empty persona and none have the same part in the key, as
`persona_id or 'none'` has it, and count as the same. Without the restriction the property is false of
the code (section 6).

`ModeDecidesNothing`: the chain is the same whatever mode is in force, for any request.

All that matters of a thread of the clients is its call, its two counts and its last outcome. An answer
that came is worth one charge; before its n-th attempt a call can have lost at most n - 1 answers, while
it pauses after it at most n; and it pauses only if an attempt is left. Then each way a call can go on or
end keeps this, and each action is one of these ways. A stream has delivered the chunks of the lines read
so far, and reading one line more adds its chunk or none; waiting at a `yield` changes nothing.

### Agent core: `AgentCoreProofs`

`InductiveInvariant`, `TypeCorrect`, `BudgetHolds`, `ConsolidationComes`, `MoodFollowsMessages`,
`NothingDoneIsForgotten`: all the invariants that the run `agent` checks.

Two lemmas say how a turn writes to the log: it begins an entry (`RunTurnLog`) and later touches that
entry only (`OtherStepsLog`). Types need the counts of turns to be bounded by the turns there were
(`CountsTurns`), and to be behind while the turn is not in its window. Each property is then strengthened
by what holds in the middle of a turn: while the model is called the branch was within its budget
(`WithinBudget`); only the branch whose turn was just counted may be due, any other has been consolidated
in time or its agent did not agree at its last turn (`NobodyWaits`, `Served`); only the turn
in progress may be missing from its window, and before its last call it has not moved the body, unless
the call that moved it raised (`WindowsInOrder`, `OthersTold`) - another call between moving and
remembering that may raise would break the last.

### Server: `MvaServerProofs`

`InductiveInvariant`, `TypeCorrect`, `TableIsRight`, `NothingReplayedTwice`, `ViewIsTrue`: all the
invariants that the run `server` checks.

The table and the replays are inductive together with one fact about the animation that waits in
`_nav_path`: its turn was taken and nobody has replayed it (`AnimationWaits`), which holds because
reading and clearing `_nav_path` is one step; and with one about the sends (`SendsFit`): whoever has
still to send a client the last state that was broadcast has it on his list, and a client that somebody
else still sends something after that is among the misled.

The view is inductive before the sends are out. `Coming(d)` is what a client will show: the last state
broadcast to it if that is still to be sent, else what it was shown. When no message is being handled,
that is the pose for every client in the table (`ViewComes`): a coroutine that goes back to waiting has
begun to broadcast the pose, one that ends without having done so is what `unseen` notes, and a send only
turns what is coming into what is shown. Once all lists are empty, what is coming is shown.

### The robot: `EmbodiedProofs`

Of `AStar`'s `Spec`, for every grid, any obstacles, any start and goal: `InductiveInvariant`,
`PathsAreLegal`, `HeapInvariant`, `SearchIsComplete`, `SearchIsShortest`. Of the planner:
`NavInvariant`, `NavigationSearches` (`NavSpec => Spec`). Of `EmbodiedSpec`, the server with its
adapters: `ServerNavigates` (`EmbodiedSpec => NavSpec`), `RobotPathsAreLegal`, `RobotSearches`,
`EndsAreTheNearest`, `FramesStay`, `ReportsAreTrue`, `ServerSaysWhatItServes`.

`TreeIsSound` is inductive once it is known that only cells with scores are predecessors (`ScoresInv`):
an improvement hangs a cell on the one being expanded, by a legal step, and lowers its score; those that
hang on it keep theirs, which are then larger than need be.

`HeapInv` is the invariant behind completeness and length. There is no closed set, so a cell that was
reached is either in the heap with an entry as good as its score, or all its neighbours have been
improved from that score (`Queued`, `Expanded`); an entry that was overtaken stays in the heap, but no
entry is below the score of its cell. On any legal way from the start to the goal there is then a cell in
the heap that was reached at no more than its cost on the way (`SomeCellWaits`). If the heap is empty,
there is no such way: `SearchIsComplete`. If the goal is the least entry, then its score is at most the
cost of the way so far plus the estimate of the rest, which exceeds the true rest by nothing in the grid
world. In `_astar_2d` a diagonal step costs 0.5 * 1.4142 and is estimated by a square root, so the excess
is the difference of the two, less than a millimetre for every row or column (`EstimateIsNear`,
`SquaresAreNear`). The path that is read off `came_from` is the only chain of predecessors of the goal
(`PathIsChain`), a legal way, and costs no more than the score: `SearchIsShortest`. So the comment "global
shortest path" (`hm3d_adapter.py:783`) is true but for that rounding; on grids of the sizes the run has
the path is exactly shortest, which is what `PathIsShortest` says.

The planner is a client of that search. `NavigationSearches` is the refinement, with the variables of
`AStar` mapped to themselves: `Navigate` is a `Begin` of the problem it computes, the answers (`NoWay`,
`Walk`, `Arrive`) forget the search, everything else is a turn of the loop or a stutter. That the problem
is one (`ProblemForFacts`) needs the robot to be somewhere and to look somewhere, which is what `NavInv`
keeps, together with: a search under way is the one for the scene, the robot and the object at hand. So
completeness and length hold of the robot's searches as well (`RobotSearches`).

Where a search starts and ends (`EndsAreTheNearest`). `FirstFree` recurs over queues and sets of visited
cells and ends by looking itself up at the next state. Such a recursion has a value whether or not the
loop stops (`LoopHasValue` of `SelectionProofs`), so `FirstFree` can be unfolded turn by turn
(`FirstFreeSweeps`). What it comes to is the argument for breadth-first search. Before
every turn (`Swept`, kept by `SweptGoesOn`): the cells seen are blocked; the queue holds seen cells with
their distances from the start (the larger of the two coordinate differences, since a turn looks at all
eight neighbours), not decreasing and within one level; a cell that was seen is still queued, or all its
neighbours have been seen. So every cell not farther than the head has been seen (`AllSeen`). The
first free cell that shows up is then nearest (`FindsTheNearest`). Among states from which the loop came
to another cell there would be one with the fewest cells unseen and, of those, the shortest queue, but
its successor would be another with fewer or a shorter one (`FirstFreeIsNearest`), as a turn sees new
cells of the grid or leaves the queue shorter. The property only
speaks of searches that began, so that the cut at `max_search_radius` cannot refute it: where it cuts,
the call goes straight instead.

Where the frames of an animation lie (`FramesStay`). `WayInv`: while `_smooth_path` is at work, what it
was given and what it has kept so far are paths, each two successive cells of which are connected, that
is, neighbours, or cells of a line found free (`WayKept`). `StepsFor` takes at least twice as many samples
as the line has cells, so successive samples are at most half a cell apart per axis (`StepsFacts`),
every frame is within a quarter of a cell of a sample (`SampleNextTo`), and a sample is within half of
the free cell it is rounded to: three quarters (`NearSample`). Between neighbours the nearer of the two is
within half. The frames of an animation are those of its legs (`FlattenTypes`, `AnimationFrames`).

A walk of the simulator's robot has left a trail of single steps from where it began to where the robot
stands, none of them near the goal but the last; the report is that trail. Startup is a matter of cases,
after noting in which of them a simulator runs.

### Recursive functions

`SelectionProofs`: the provers have no induction over data. A function that recurs over `0 .. n` has a
value (`RecursionHasValue`) and what each step keeps holds at the end (`StepByStep`), both since a set of
numbers that is not empty has a least one (`LeastElement`). What else recurs, over cells through
`came_from`, is treated alike with the least score; a loop over any other state has the value at the end of
the run from it, if there is one (`LoopHasValue`). With this the filter, the context, the searches and
the fused list are unfolded without induction theorems.

### Only model-checked

- `EventualConvergence` and `EveryCallEnds`: liveness is out of this prover's reach.
- `PathIsShortest`: its reference definition `Relax` is a recursive operator, which the provers cannot
  expand, and for `_astar_2d` it holds exactly only where the rounding of 1.4142 does not add up, as on
  the grids of the run; `RobotSearches` states the same for all grids, up to that excess.

Every other invariant and action property of the runs that pass, and the refinement of `LWWJoin`, is
stated by a theorem.

## 6. Where code and words part

Found by a run:

- `l0sync_delta`: versions set through the layer have counter 0, and `get_delta` with a vector clock
  returns counters above the clock's only (`lww_map.py:176`): the incremental delta is always empty.
- `router_http`: `route` calls `client.complete(ModelRequest)` (`fallback_router.py:219`); the HTTP
  clients it creates take a prompt, a task type and a branch: `TypeError`, caught nowhere. The run ends
  in `route`, at its first client; `stream_route` fails alike and is kept apart (`stream TypeError`).

Properties that TLC refutes when they are added to a run; they are kept in their modules:

- `EverythingToldIsFound` (`EpisodicStore`): `SimpleEpisodicStore.add` appends the entry and then asks
  the embedder (`simple_store.py:64-66`). If that raises, the entry stays without a vector and the
  vectors of all later entries of the branch lie one place too early: they are acknowledged and found by
  what another entry says, or not at all.
- `EveryStepIsRemembered` (`AgentCore`): a walk of the Habitat adapter that raises after some steps
  (`habitat_adapter.py:422-424`) leaves the robot elsewhere, and the turn in no window.
- `EveryViewIsTrue` (`MvaServer`): any exception of a send, that of `json.dumps` included, unregisters
  the client (`ws_gateway.py:128-134`), which is connected all the same, goes on being served and is
  sent no position any more. And since every send is awaited, an older broadcast may reach a client after
  a newer one.

- `Deterministic` (`L0Sync`): two sets of a key by one device within one reading of the clock tie on
  timestamp and device, and each map keeps whichever came first (`sync_layer.py:37`; `lww_map.py:90`
  promises determinism).
- `NoJumps` (`MvaServer`): with two clients the position shown jumps, although the document on
  navigation says it no longer does.
- `DegradesInSteps` (`Embodied`): `docs/embodied_intelligence_navigation.md:46` has Habitat degrade to
  HM3D and then to the grid; with `--backend habitat` the server announces the HM3D mode and
  `serve_mva.py:412`, which wants `hm3d` or `auto`, goes straight to the grid.
- `AnimationIsClear` (`Navigation`): `docs/embodied_intelligence_navigation.md:100` says paths no longer
  cross obstacles. Smoothing looks at a line every half cell and the frames of the animation lie at other
  places of it: in the hall of `MCEmbodied`, on the line of 11 by 5 cells between door and window, the
  cell of the post is hit by a frame and by no sample. In the house and in the small rooms it holds; what
  holds in every room of the run is `FramesStayNear`.
- `ActivePersonaCanLeave` (`AgentCore`): `abstract_agent_core.py:57` promises a `ValueError` for an empty
  persona id. The core checks the branch only and takes the id before the injector refuses it; from then
  on `eject` raises in every call, so no persona can be set again. Without an injector nothing is raised.
- `SwitchClearsWindow` (`AgentCore`, an action property): the project's introduction (`docs/`, line 814)
  has L1 empty after a switch. `switch_persona` touches no window, and the next prompt holds what was
  said to the last persona.

Seen while modelling, without a run of their own:

- `lww_map.py:144-145` says that on skew the local winner is kept. The code lets the newer version win
  and records both; keeping the local one would break convergence, so the code is right.
- `readme.md:40` says conflicts are kept and not overwritten; `_skew_conflicts` keeps one per key, and a
  checkpoint empties it.
- `hybrid_timestamp.py:44` speaks of monotonic time; `time.time_ns()` may step back, and a device's
  later write then loses to its earlier one, in the layer also on the device itself.
- `L0SyncLayer.get_delta` returns plain values, which `L0SyncLayer.merge` refuses with `TypeError`
  (`LayerMergeValues`); and the layer's dirty keys are not those the manager's checkpoint returns, each
  having maps of its own.
- `sliding_window.py:123` says add_turn compresses until the tokens are within the threshold; summaries
  are never dropped and count, so it may return above it with every turn summarised.
- `fallback_router.py:118` says a preference overrides the selection; the cache key lacks it, so a
  cached answer of another client is returned. The parts of the key are joined by colons, which a
  branch, persona or prompt may contain: the two requests `RunTogether` of `MCFallbackRouter` differ in
  branch, persona and prompt and share an entry. `CacheIsolation` without `Unambiguous` is violated by
  them. A persona called "none" is none.
- `route` skips a client marked unhealthy and only a call of it could mark it healthy: one rate limit
  lasts for the life of the process, while `stream_route` asks clients whatever their marks.
- `InsightScheduler` calls `should_trigger(branch_id, count)`; `ConsolidationAgent.should_trigger` takes
  one argument. With it every turn from the N-th on raises `TypeError`, which `run_turn` does not catch
  (`Declines`); with `SimpleInsightEngine`, which has no `consolidate`, every turn at which both
  thresholds are reached raises `AttributeError` (`Consolidate`). The tests use agents that take both.
- `FallbackRouter`: the mode switch has no effect on routing, since "local" is no client and is left out
  in either case. `stream_route` of T0, T1 and T3b therefore always raises; other streams use clients
  marked unhealthy and are charged to nobody. Prompts without an answer in `choices` and broken
  connections (`ReadError`, `RemoteProtocolError`) end a call as exceptions of their own kinds.
- `BaseHttpClient`: a 4xx while streaming raises `ResponseNotRead`, because its text is read before its
  body; Retry-After is parsed and not waited for (`:151`); `RETRY_MAX_ATTEMPTS = 4` (`:38`) is not used,
  the clients make 3 attempts; the key is read once per call; `health_check` takes a 401 for health;
  `refresh` of the credentials clears a cache that is never filled.
- `HybridRetriever` unpacks triples (`hybrid_retriever.py:44`), `IntentNavigator` answers with pairs:
  the error is caught and the graph never contributes. `MemoryNode` builds its navigator without
  patterns (`memory_node.py:33`), so there would be none to follow.
- `EdgeBuilder` lists CORRELATED among its types (`edge_builder.py:31`) and builds such edges, which
  `IntentGraph.add_edge` refuses. Its lazy groups make an effect one character long.
- `SimpleEpisodicStore.add` ignores the caller's id for a near duplicate; `delete` removes the first of
  two entries with one id; `FaissEpisodicStore.delete` finds the first entry with an id even if it is
  deleted, so an id that was deleted and added again cannot be deleted.
- `IntentGraph`: an id that is deprecated before its edge is added leaves the edge "active" and unused.
- `HM3DAdapter`: an animation ends at the centre of the nearest free cell, the pose is set to the
  object's point beside it, so the next animation starts elsewhere. A start in the goal's cell gives no
  animation although the pose changes. Smoothing accepts corners that A* refuses. When A* finds nothing,
  a straight line goes through the obstacles with success and a collision count of 0
  (`docs/embodied_intelligence_navigation.md:100` says paths no longer cross obstacles). Obstacles whose
  bottom is above 1.7 m are to be passed under (`:56`); no code looks at the bottom. `execute_action`
  knows no obstacles; approach and retreat take the plan's dy for a height; turn_to_user always turns by
  90 degrees; `_OBSTACLES` (`hm3d_adapter.py:57`), with its safety radii, is never read.
- `HabitatAdapter`: the planner's tokens are not in the simulator's action space, and what is not known
  becomes its first action, a step forward, also for idle and retreat. The path that `find_path` returns
  is not followed. Yaw is read as 0, or as 0 or pi, so steering may turn for ever until the steps are
  used up; the position after the last step is not tested. Only the nearest object of a category counts.
  A scene without annotations has the objects of another scene.
- Startup: an HM3D scene that fails to load in an unforeseen way ends the server
  (`docs/demo_embodied.md:25` says failures do not block it); so does `auto` when importing
  `habitat_sim` raises something else than ImportError, and `habitat` when it raises what
  `serve_mva.py:408` does not catch; what is caught there leaves the adapter in place (`TryHabitat`).
- `PersonaInjector.inject` updates only what has an `update` method; the agent core it is given has none,
  so no persona reaches a prompt.
- The gateway's `heartbeat_loop` is never started by the server.

## 7. What is not modelled, and why

- Snapshots: the version manager exists as a mock only, so `commit_session_snapshot` and the commit of a
  switch change nothing the code keeps. Write-domain lock: nobody
  in the repository acquires it. The collector of L2, the PostgreSQL store, the correlation miner and
  the loader of seeds are stubs, or keep nothing. The VLN agent has no caller outside the tests.
- Within modelled parts: what is streamed by the router; the heartbeat and the synchronous broadcast of
  the gateway, which the server does not use; the API-key check and speech input; fields of view and spatial memory, which only
  read; observations of the simulator; access counts and weights, which only order what is found;
  payloads, prices and the wording of errors.
- A restart of an `LWWMap`: the repository has no code that restores one. Its counter would start at 0
  again and deltas would hide the new writes.
- `_skew_conflicts` with more than `MAX_CONTRADICT_KEYS` only logs.
- Privacy filter (its comment says the longer of two overlapping spans is kept, its code keeps the one
  that starts first), insight statistics, cost tracker, authentication, emotion model, evaluation,
  mocks, demos, frontend, migrations: text, numbers, I/O, or not wired into the program. The packages
  `memory_system/` and `contracts/` at the top level are older copies nothing imports.

## 8. Plan

Done, most important first: `LWWMap` with `LWWJoin`, `L0Sync`, `WorkingMemory`, `FallbackRouter` with
`ModeSwitch`, `AgentCore` with the planner, `MvaServer`, `AStar` with `Navigation`, `House`, `Habitat`
and `Embodied`, `HttpClient`, `EpisodicStore` with `EdgeBuilder`, `IntentGraph` and `Retrieval`; the
proofs of section 5, which state all safety properties of the runs but `PathIsShortest`.

What could follow, in this order:

1. `commit_session_snapshot` in `AgentCore`, once the repository has a version manager.
2. `EpisodicStore` as a refinement of a map from ids to contents, for the simple store without near
   duplicates; with them no such map exists, which `NothingToldIsLost` says in its weaker form.
