----------------------------- MODULE MvaServer -----------------------------
(***************************************************************************)
(* The joint server (scripts/serve_mva.py with api/ws_gateway.py): one     *)
(* coroutine per connection, all sharing the gateway's table of clients,   *)
(* the robot's pose and the adapter's _nav_path, the animation of its last *)
(* movement.  A coroutine gives way only where it awaits: after a reply    *)
(* (to a slow client), in the pauses between the frames of a replay, and   *)
(* at every send of a broadcast.  An action is the code between two of     *)
(* these points, so that each send is an action, and nothing is assumed of *)
(* the order in which coroutines that wait for a client go on.             *)
(*                                                                         *)
(* A pose is the number of the turn that brought the robot there.          *)
(***************************************************************************)
EXTENDS Integers, Sequences, FiniteSets, SequencesExt

CONSTANTS
    Client,
    None,           \* no animation, no coroutine
    HistoryLimit,   \* paths kept for the traces on the map (20 in the code)
    MaxTurns        \* bound: messages handled, of all clients together

Turn == 1..MaxTurns
Pose == 0..MaxTurns
Animation == [turn : Turn, points : Seq(Pose)]

ASSUME BoundAssumption == MaxTurns \in Nat /\ HistoryLimit \in Nat \ {0}
ASSUME NoneAssumption == None \notin Animation /\ None \notin Client

VARIABLES
    open,       \* the clients whose connection is open
    clients,    \* _clients of the gateway
    handler,    \* where the coroutine of a connection is
    frames,     \* the frames it has still to broadcast
    todo,       \* the clients it has still to send the state it is broadcasting
    showing,    \* the position in that state
    history,    \* path_history: the animations it has replayed, by turn
    pose,       \* where the robot is
    nav_path,   \* adapter._nav_path: the frames and the turn they show, or None
    shown,      \* the position a client was sent last
    turns,      \* history: messages handled
    replays,    \* history: how often the animation of a turn was replayed
    unseen,     \* history: a coroutine ended, after a turn, without the broadcast of
                \* the pose, or broadcast another, and none of the pose has followed
    last,       \* history: who still has to send a client the last state broadcast
    misled,     \* history: the clients whose last state was overtaken on the way, or,
                \* the first, could not be sent
    dropped     \* history: the clients that a failed send has taken out of the table

robot == <<pose, nav_path, turns>>
sending == <<todo, showing, last>>

vars == <<open, clients, handler, frames, sending, history, robot, shown, replays,
          unseen, misled, dropped>>
-----------------------------------------------------------------------------
Init ==
    /\ open = {}
    /\ clients = {}
    /\ handler = [c \in Client |-> "off"]
    /\ frames = [c \in Client |-> <<>>]
    /\ history = [c \in Client |-> <<>>]
    /\ pose = 0
    /\ nav_path = None
    /\ shown = [c \in Client |-> 0]
    /\ turns = 0
    /\ replays = [t \in Turn |-> 0]
    /\ unseen = FALSE
    /\ todo = [c \in Client |-> {}]
    /\ showing = [c \in Client |-> 0]
    /\ last = [c \in Client |-> None]
    /\ misled = {} /\ dropped = {}

\* broadcast_state_async, with the sends still to come: who is in the table now.
Broadcast(c, p) ==
    /\ todo' = [todo EXCEPT ![c] = clients]
    /\ showing' = [showing EXCEPT ![c] = p]
    /\ last' = [d \in Client |-> IF d \in clients THEN c ELSE last[d]]
    /\ misled' = misled \ clients

register_client(c) == clients' = clients \union {c}
unregister_client(c) == clients' = clients \ {c}

\* One send of a broadcast.  It fails if the client is gone, and may fail in other
\* ways (a state that is no JSON fails for every client): the client is taken out of
\* the table, and its coroutine, if there is one, goes on.
Send(c, d) ==
    /\ d \in todo[c]
    /\ todo' = [todo EXCEPT ![c] = @ \ {d}]
    /\ last' = IF last[d] = c THEN [last EXCEPT ![d] = None] ELSE last
    /\ misled' = IF last[d] = c /\ \E x \in Client \ {c} : d \in todo[x]
                 THEN misled \union {d} ELSE misled
    /\ \/ /\ d \in open /\ shown' = [shown EXCEPT ![d] = showing[c]]
          /\ UNCHANGED <<clients, dropped>>
       \/ /\ unregister_client(d)
          /\ dropped' = dropped \union {d}
          /\ UNCHANGED shown
    /\ UNCHANGED <<open, handler, frames, history, robot, showing, replays, unseen>>

\* A connection is accepted, registered and sent the pose; if that fails it stays.
\* The id of a connection is not used again while a broadcast refers to it.
Connect(c) ==
    /\ c \notin open /\ handler[c] = "off" /\ \A x \in Client : c \notin todo[x]
    /\ open' = open \union {c}
    /\ register_client(c)
    /\ \/ shown' = [shown EXCEPT ![c] = pose] /\ misled' = misled \ {c}
       \/ UNCHANGED shown /\ misled' = misled \union {c}
    /\ handler' = [handler EXCEPT ![c] = "listen"]
    /\ history' = [history EXCEPT ![c] = <<>>]
    /\ dropped' = dropped \ {c}
    /\ UNCHANGED <<frames, sending, robot, replays, unseen>>

\* A client closes its connection, or loses it.
Disconnect(c) ==
    /\ c \in open
    /\ open' = open \ {c}
    /\ UNCHANGED <<clients, handler, frames, sending, history, robot, shown, replays,
                   unseen, misled, dropped>>

\* execute_action: the animation of a movement, unless one is waiting.
Moves(p, t) ==
    /\ pose' = p
    /\ nav_path' = IF nav_path = None THEN [turn |-> t, points |-> <<pose, p>>]
                                      ELSE nav_path

\* navigate_to_object: the cells of the path, only one if the goal is reached.
Navigates(p, t) ==
    /\ pose' = p
    /\ nav_path' = [turn |-> t, points |-> IF p = pose THEN <<p>> ELSE <<pose, p>>]

\* What a turn does to the robot: nothing, an action (which may leave it where
\* it is), or a navigation to where it is or elsewhere.
TurnOf(t) ==
    /\ turns' = t
    /\ \/ UNCHANGED <<pose, nav_path>>
       \/ \E p \in {pose, t} : Moves(p, t) \/ Navigates(p, t)

\* The coroutine goes on: it has sent its broadcast to everyone.
Awake(c, at) == handler[c] = at /\ todo[c] = {}

\* handle_message returns and the reply is on its way.
Handle(c) ==
    /\ Awake(c, "listen") /\ c \in open /\ turns < MaxTurns
    /\ TurnOf(turns + 1)
    /\ handler' = [handler EXCEPT ![c] = "reply"]
    /\ UNCHANGED <<open, clients, frames, sending, history, shown, replays, unseen,
                   misled, dropped>>

\* Seeded faults (Faulty...): bugs the code could have; no specification uses
\* them.  Here: the client is not unregistered.
FaultyStops(c) ==
    /\ handler' = [handler EXCEPT ![c] = "off"]
    /\ open' = open \ {c}
    /\ UNCHANGED <<clients, frames, sending, history, shown, replays, misled, dropped>>

\* The coroutine ends: the client is unregistered and the connection closed.
Stops(c) ==
    /\ handler' = [handler EXCEPT ![c] = "off"]
    /\ unregister_client(c)
    /\ open' = open \ {c}
    /\ UNCHANGED <<frames, sending, history, shown, replays, misled, dropped>>

\* handle_message raises, before, in or after what it does to the robot.
HandleRaises(c) ==
    /\ Awake(c, "listen") /\ c \in open /\ turns < MaxTurns
    /\ TurnOf(turns + 1)
    /\ unseen' = (unseen \/ pose' # pose)
    /\ Stops(c)

\* A coroutine that waits for a message or for its reply finds its client gone.
Leave(c) ==
    /\ Awake(c, "listen") \/ Awake(c, "reply")
    /\ c \notin open
    /\ unseen' = (unseen \/ handler[c] = "reply")
    /\ Stops(c)
    /\ UNCHANGED robot

\* The broadcast of the pose begins, or, if get_perception raises what is expected of
\* it, of the place where the robot starts; then the coroutine waits for a message.
Final(c) ==
    /\ \/ Broadcast(c, pose) /\ unseen' = FALSE
       \/ Broadcast(c, 0) /\ unseen' = TRUE
    /\ handler' = [handler EXCEPT ![c] = "listen"]

\* The reply is sent and no animation is waiting.
NoReplay(c) ==
    /\ Awake(c, "reply") /\ c \in open /\ nav_path = None
    /\ Final(c)
    /\ UNCHANGED <<open, clients, frames, history, robot, shown, replays, dropped>>

\* Fault: the animation is only cleared once it has been replayed.
FaultyTake == UNCHANGED nav_path

\* The animation is taken, in the same step in which it is read.
Take == nav_path' = None

\* The last HistoryLimit animations.
Kept(s) == IF Len(s) > HistoryLimit THEN Tail(s) ELSE s

\* The reply is sent and the replay of the waiting animation begins.
Replay(c) ==
    /\ Awake(c, "reply") /\ c \in open /\ nav_path # None
    /\ Take
    /\ history' = [history EXCEPT ![c] = Kept(Append(@, nav_path.turn))]
    /\ replays' = [replays EXCEPT ![nav_path.turn] = @ + 1]
    /\ Broadcast(c, Head(nav_path.points))
    /\ frames' = [frames EXCEPT ![c] = Tail(nav_path.points)]
    /\ handler' = [handler EXCEPT ![c] = "replay"]
    /\ UNCHANGED <<open, clients, pose, turns, shown, unseen, dropped>>

\* Another frame after a pause, whether or not the client is still there.
Frame(c) ==
    /\ Awake(c, "replay") /\ frames[c] # <<>>
    /\ Broadcast(c, Head(frames[c]))
    /\ frames' = [frames EXCEPT ![c] = Tail(@)]
    /\ UNCHANGED <<open, clients, handler, history, robot, shown, replays, unseen, dropped>>

\* Fault: the last frame is broadcast for the pose.
FaultyFinish(c) ==
    /\ Awake(c, "replay") /\ frames[c] = <<>>
    /\ Broadcast(c, showing[c])
    /\ handler' = [handler EXCEPT ![c] = "listen"]
    /\ unseen' = FALSE
    /\ UNCHANGED <<open, clients, frames, history, robot, shown, replays, dropped>>

\* The end of the replay.
Finish(c) ==
    /\ Awake(c, "replay") /\ frames[c] = <<>>
    /\ Final(c)
    /\ UNCHANGED <<open, clients, frames, history, robot, shown, replays, dropped>>

\* get_perception raises something else before the pose is broadcast.
PerceptionRaises(c) ==
    /\ \/ Awake(c, "reply") /\ c \in open /\ nav_path = None
       \/ Awake(c, "replay") /\ frames[c] = <<>>
    /\ unseen' = TRUE
    /\ Stops(c)
    /\ UNCHANGED robot

Next ==
    \/ \E c \in Client :
          \/ Connect(c) \/ Disconnect(c)
          \/ Handle(c) \/ HandleRaises(c) \/ Leave(c)
          \/ NoReplay(c) \/ Replay(c) \/ Frame(c) \/ Finish(c) \/ PerceptionRaises(c)
    \/ \E c, d \in Client : Send(c, d)

Spec == Init /\ [][Next]_vars
-----------------------------------------------------------------------------
\* The types of the variables.
TypeOK ==
    /\ open \subseteq Client
    /\ clients \subseteq Client
    /\ handler \in [Client -> {"off", "listen", "reply", "replay"}]
    /\ frames \in [Client -> Seq(Pose)]
    /\ history \in [Client -> Seq(Turn)]
    /\ \A c \in Client : Len(history[c]) <= HistoryLimit
    /\ pose \in Pose
    /\ nav_path \in Animation \union {None}
    /\ shown \in [Client -> Pose]
    /\ turns \in 0..MaxTurns
    /\ replays \in [Turn -> Nat]
    /\ unseen \in BOOLEAN
    /\ todo \in [Client -> SUBSET Client]
    /\ showing \in [Client -> Pose]
    /\ last \in [Client -> Client \union {None}]
    /\ misled \subseteq Client /\ dropped \subseteq Client

\* The table has the clients that are connected, but for those a send to which has
\* failed, and no client without a coroutine: failed turns, connections that are lost
\* in the middle of a broadcast and a broadcast still on its way to clients that have
\* left never put one back nor take one out.
TableHoldsTheServed ==
    /\ \A c \in open : handler[c] # "off" => (c \in clients <=> c \notin dropped)
    /\ \A c \in clients : handler[c] # "off"

\* No message is being handled and no broadcast is under way.
Quiet == \A c \in Client : handler[c] \in {"off", "listen"} /\ todo[c] = {}

\* When all is quiet, every client in the table has been shown where the robot is,
\* however the replays and the sends of several coroutines ran into each other;
\* unless the coroutine that moved the robot ended or could not see before it could tell,
\* or, on the way to this client, the last broadcast overtook another.
SettledViewIsTrue ==
    ~unseen /\ Quiet => \A c \in (clients \cap open) \ misled : shown[c] = pose

\* More than the code promises: a client that a failed send has dropped goes on being
\* served, and a broadcast may overtake another on its way.
EveryViewIsTrue ==
    ~unseen /\ Quiet => \A c \in open : handler[c] # "off" => shown[c] = pose

\* No movement is replayed twice, although all coroutines look for animations in
\* one place and a turn may overwrite or inherit that of another.
ReplayedOnce == \A t \in Turn : replays[t] <= 1
-----------------------------------------------------------------------------
\* "The frontend sees a smooth movement, no more jumps in position"
\* (embodied_intelligence_navigation.md): the pose broadcast after a turn is
\* where the frames before it have brought the clients.
NoJumps ==
    [][\A c \in Client : NoReplay(c) \/ Finish(c) =>
        \A d \in (clients \cap open) \ misled : shown[d] = pose]_vars
=============================================================================
