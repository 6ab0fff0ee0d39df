-------------------------- MODULE MvaServerProofs --------------------------
(***************************************************************************)
(* For any number of clients and turns: the table of clients is right, no  *)
(* movement is replayed twice, and what the clients show is true, however  *)
(* the coroutines and their sends interleave.                              *)
(***************************************************************************)
EXTENDS MvaServer, TLAPS

\* An animation that waits shows a turn that was taken and that nobody has
\* replayed; turns that are still to come have not been replayed either.
AnimationWaits ==
    /\ \A t \in Turn : replays[t] > 0 => t <= turns
    /\ nav_path # None =>
        /\ nav_path.points # <<>>
        /\ nav_path.turn <= turns
        /\ replays[nav_path.turn] = 0

\* Whoever has still to send a client the last state has it on his list, and a client
\* that others still send something after the last state is misled.
SendsFit ==
    /\ \A d \in Client : last[d] # None => d \in todo[last[d]]
    /\ \A c, d \in Client : d \in todo[c] /\ last[d] = None => d \in misled

IInv == TypeOK /\ TableHoldsTheServed /\ ReplayedOnce /\ AnimationWaits /\ SendsFit

LEMMA InitIInv == Init => IInv
<1> SUFFICES ASSUME Init PROVE IInv
  OBVIOUS
<1>1. TypeOK
  <2>1. /\ handler \in [Client -> {"off", "listen", "reply", "replay"}]
        /\ frames \in [Client -> Seq(Pose)]
        /\ shown \in [Client -> Pose]
        /\ replays \in [Turn -> Nat]
    BY BoundAssumption DEF Init, Pose
  <2>2. /\ history \in [Client -> Seq(Turn)]
        /\ \A c \in Client : Len(history[c]) <= HistoryLimit
    BY BoundAssumption DEF Init
  <2>3. open \subseteq Client /\ clients \subseteq Client /\ unseen \in BOOLEAN
    BY DEF Init
  <2>4. /\ pose \in Pose /\ turns \in 0..MaxTurns
        /\ nav_path \in Animation \union {None}
    BY BoundAssumption DEF Init, Pose
  <2>5. /\ todo \in [Client -> SUBSET Client]
        /\ showing \in [Client -> Pose]
        /\ last \in [Client -> Client \union {None}]
        /\ misled \subseteq Client /\ dropped \subseteq Client
    BY BoundAssumption DEF Init, Pose
  <2> QED
    BY <2>1, <2>2, <2>3, <2>4, <2>5 DEF TypeOK
<1>2. TableHoldsTheServed /\ ReplayedOnce /\ AnimationWaits
  BY DEF Init, TableHoldsTheServed, ReplayedOnce, AnimationWaits
<1>3. SendsFit
  BY DEF Init, SendsFit
<1> QED
  BY <1>1, <1>2, <1>3 DEF IInv

\* A broadcast begins for the clients in the table, when the coroutine's last is over.
LEMMA BroadcastKeeps ==
    ASSUME IInv, NEW c \in Client, NEW p \in Pose, Broadcast(c, p), todo[c] = {}
    PROVE  /\ todo' \in [Client -> SUBSET Client] /\ showing' \in [Client -> Pose]
           /\ last' \in [Client -> Client \union {None}] /\ misled' \subseteq Client
           /\ SendsFit'
<1>1. /\ todo \in [Client -> SUBSET Client] /\ showing \in [Client -> Pose]
      /\ last \in [Client -> Client \union {None}] /\ clients \subseteq Client
      /\ misled \subseteq Client /\ None \notin Client
  BY NoneAssumption DEF IInv, TypeOK
<1>2. /\ todo' = [todo EXCEPT ![c] = clients] /\ showing' = [showing EXCEPT ![c] = p]
      /\ last' = [d \in Client |-> IF d \in clients THEN c ELSE last[d]]
      /\ misled' = misled \ clients
  BY DEF Broadcast
<1>3. /\ todo' \in [Client -> SUBSET Client] /\ showing' \in [Client -> Pose]
      /\ last' \in [Client -> Client \union {None}] /\ misled' \subseteq Client
  BY <1>1, <1>2
<1>4. ASSUME NEW d \in Client, last'[d] # None PROVE d \in todo'[last'[d]]
  <2>1. CASE d \in clients
    BY <1>1, <1>2, <2>1
  <2>2. CASE d \notin clients
    <3>1. last'[d] = last[d] /\ d \in todo[last[d]] /\ last[d] \in Client
      BY <1>1, <1>2, <1>4, <2>2 DEF IInv, SendsFit
    <3>2. last[d] # c
      BY <3>1
    <3> QED
      BY <1>1, <1>2, <3>1, <3>2
  <2> QED
    BY <2>1, <2>2
<1>5. ASSUME NEW x \in Client, NEW d \in Client, d \in todo'[x], last'[d] = None
      PROVE  d \in misled'
  <2>1. d \notin clients /\ last[d] = None
    BY <1>1, <1>2, <1>5
  <2>2. d \in todo[x]
    BY <1>1, <1>2, <1>5, <2>1
  <2> QED
    BY <1>2, <2>1, <2>2 DEF IInv, SendsFit
<1> QED
  BY <1>3, <1>4, <1>5 DEF SendsFit

\* What a turn does to the robot: at most the animation of this very turn takes
\* the place of the one that waits.
LEMMA TurnKeeps ==
    ASSUME IInv, turns < MaxTurns, TurnOf(turns + 1), UNCHANGED replays
    PROVE  /\ pose' \in Pose
           /\ turns' \in 0..MaxTurns
           /\ nav_path' \in Animation \union {None}
           /\ AnimationWaits'
<1> DEFINE t == turns + 1
<1>1. /\ t \in Turn /\ t \in Pose /\ turns' = t /\ pose \in Pose
      /\ MaxTurns \in Nat /\ turns \in Nat
  BY BoundAssumption DEF IInv, TypeOK, Turn, Pose, TurnOf
<1>2. turns' \in 0..MaxTurns
  BY <1>1 DEF Turn
<1>3. replays \in [Turn -> Nat] /\ replays[t] = 0 /\ replays' = replays
  <2>1. replays \in [Turn -> Nat]
    BY DEF IInv, TypeOK
  <2>2. replays[t] \in Nat
    BY <1>1, <2>1
  <2>3. ~ (replays[t] > 0)
    BY <1>1 DEF IInv, AnimationWaits
  <2> QED
    BY <2>1, <2>2, <2>3
<1>4. \A u \in Turn : replays'[u] > 0 => u <= turns'
  BY <1>1, <1>3 DEF IInv, AnimationWaits, Turn
<1>5. ASSUME nav_path' = nav_path
      PROVE  /\ nav_path' \in Animation \union {None}
             /\ AnimationWaits'
  <2>1. nav_path' \in Animation \union {None}
    BY <1>5 DEF IInv, TypeOK
  <2>2. nav_path # None => nav_path.turn \in Turn
    BY <1>5 DEF IInv, TypeOK, Animation
  <2> QED
    BY <1>1, <1>3, <1>4, <1>5, <2>1, <2>2 DEF IInv, AnimationWaits, Turn
<1>6. ASSUME NEW s \in Seq(Pose), s # <<>>, nav_path' = [turn |-> t, points |-> s]
      PROVE  /\ nav_path' \in Animation \union {None}
             /\ AnimationWaits'
  <2>1. nav_path' \in Animation
    BY <1>1, <1>6 DEF Animation
  <2>2. nav_path'.points = s /\ nav_path'.turn = t
    BY <1>6
  <2> QED
    BY <1>1, <1>3, <1>4, <1>6, <2>1, <2>2 DEF AnimationWaits
<1>7. CASE UNCHANGED <<pose, nav_path>>
  BY <1>1, <1>2, <1>5, <1>7
<1>8. ASSUME NEW p \in {pose, t}, Moves(p, t) \/ Navigates(p, t)
      PROVE  /\ pose' \in Pose
             /\ nav_path' \in Animation \union {None}
             /\ AnimationWaits'
  <2>1. p \in Pose /\ pose' = p
    BY <1>1, <1>8 DEF Moves, Navigates
  <2>2. <<p>> \in Seq(Pose) /\ <<p>> # <<>>
        /\ <<pose, p>> \in Seq(Pose) /\ <<pose, p>> # <<>>
    BY <1>1, <2>1
  <2>3. \/ nav_path' = nav_path
        \/ \E s \in Seq(Pose) : s # <<>> /\ nav_path' = [turn |-> t, points |-> s]
    BY <1>8, <2>2 DEF Moves, Navigates
  <2> QED
    BY <2>1, <2>3, <1>5, <1>6
<1> QED
  BY <1>2, <1>7, <1>8 DEF TurnOf

\* A coroutine that ends leaves the table, and the others in it.
LEMMA StopsKeeps ==
    ASSUME IInv, NEW c \in Client, Stops(c), unseen' \in BOOLEAN,
           pose' \in Pose, turns' \in 0..MaxTurns,
           nav_path' \in Animation \union {None}, AnimationWaits'
    PROVE  IInv'
<1>1. /\ open' \subseteq Client /\ clients' \subseteq Client
      /\ handler' \in [Client -> {"off", "listen", "reply", "replay"}]
  BY DEF IInv, TypeOK, Stops, unregister_client
<1>2. UNCHANGED <<frames, sending, history, shown, replays, misled, dropped>>
  BY DEF Stops, unregister_client
<1>3. TypeOK'
  BY <1>1, <1>2 DEF IInv, TypeOK, sending
<1>4. TableHoldsTheServed'
  BY <1>2 DEF IInv, TypeOK, TableHoldsTheServed, Stops, unregister_client
<1>5. ReplayedOnce' /\ SendsFit'
  BY <1>2 DEF IInv, ReplayedOnce, SendsFit, sending
<1> QED
  BY <1>3, <1>4, <1>5 DEF IInv

LEMMA ConnectKeepsIInv ==
    ASSUME IInv, NEW c \in Client, Connect(c)
    PROVE  IInv'
<1>1. UNCHANGED <<frames, sending, robot, replays, unseen>>
  BY DEF Connect, register_client
<1>2. /\ history' \in [Client -> Seq(Turn)]
      /\ \A d \in Client : Len(history'[d]) <= HistoryLimit
  <2>1. history' = [history EXCEPT ![c] = <<>>]
    BY DEF Connect, register_client
  <2>2. history \in [Client -> Seq(Turn)] /\ <<>> \in Seq(Turn) /\ Len(<<>>) = 0
    BY DEF IInv, TypeOK
  <2>3. \A d \in Client : history'[d] = IF d = c THEN <<>> ELSE history[d]
    BY <2>1, <2>2
  <2> QED
    BY <2>1, <2>2, <2>3, BoundAssumption DEF IInv, TypeOK
<1>3. /\ open' \subseteq Client /\ clients' \subseteq Client
      /\ shown' \in [Client -> Pose]
      /\ handler' \in [Client -> {"off", "listen", "reply", "replay"}]
      /\ misled' \subseteq Client /\ dropped' \subseteq Client
  <2>1. /\ open' \subseteq Client /\ clients' \subseteq Client
        /\ misled' \subseteq Client /\ dropped' \subseteq Client
    BY DEF IInv, TypeOK, Connect, register_client
  <2>2. /\ pose \in Pose /\ shown \in [Client -> Pose]
        /\ handler \in [Client -> {"off", "listen", "reply", "replay"}]
    BY DEF IInv, TypeOK
  <2>3. /\ shown' = shown \/ shown' = [shown EXCEPT ![c] = pose]
        /\ handler' = [handler EXCEPT ![c] = "listen"]
    BY DEF Connect
  <2> QED
    BY <2>1, <2>2, <2>3
<1>4. TypeOK'
  BY <1>1, <1>2, <1>3 DEF IInv, TypeOK, robot, sending
<1>5. TableHoldsTheServed'
  BY DEF IInv, TypeOK, TableHoldsTheServed, Connect, register_client
<1>6. ReplayedOnce' /\ AnimationWaits'
  BY <1>1 DEF IInv, ReplayedOnce, AnimationWaits, robot
<1>7. SendsFit'
  <2>1. \A x \in Client : c \notin todo[x]
    BY DEF Connect
  <2>2. \A d \in Client : d # c /\ d \in misled => d \in misled'
    BY DEF Connect
  <2> QED
    BY <1>1, <2>1, <2>2 DEF IInv, SendsFit, sending
<1> QED
  BY <1>4, <1>5, <1>6, <1>7 DEF IInv

LEMMA DisconnectKeepsIInv ==
    ASSUME IInv, NEW c \in Client, Disconnect(c)
    PROVE  IInv'
<1>1. TypeOK'
  BY DEF IInv, TypeOK, Disconnect, robot, sending
<1>2. TableHoldsTheServed'
  BY DEF IInv, TableHoldsTheServed, Disconnect
<1>3. ReplayedOnce' /\ AnimationWaits' /\ SendsFit'
  BY DEF IInv, ReplayedOnce, AnimationWaits, SendsFit, Disconnect, robot, sending
<1> QED
  BY <1>1, <1>2, <1>3 DEF IInv

LEMMA HandleKeepsIInv ==
    ASSUME IInv, NEW c \in Client, Handle(c)
    PROVE  IInv'
<1>1. /\ pose' \in Pose /\ turns' \in 0..MaxTurns
      /\ nav_path' \in Animation \union {None} /\ AnimationWaits'
  BY TurnKeeps DEF Handle
<1>2. /\ handler' \in [Client -> {"off", "listen", "reply", "replay"}]
      /\ UNCHANGED <<open, clients, frames, sending, history, shown, replays, unseen,
                     misled, dropped>>
  BY DEF IInv, TypeOK, Handle
<1>3. TypeOK'
  BY <1>1, <1>2 DEF IInv, TypeOK, sending
<1>4. TableHoldsTheServed'
  BY DEF IInv, TypeOK, TableHoldsTheServed, Handle, Awake
<1>5. ReplayedOnce' /\ SendsFit'
  BY <1>2 DEF IInv, ReplayedOnce, SendsFit, sending
<1> QED
  BY <1>1, <1>3, <1>4, <1>5 DEF IInv

LEMMA HandleRaisesKeepsIInv ==
    ASSUME IInv, NEW c \in Client, HandleRaises(c)
    PROVE  IInv'
<1>1. UNCHANGED replays /\ Stops(c) /\ unseen' \in BOOLEAN
  BY DEF IInv, TypeOK, HandleRaises, Stops, unregister_client
<1>2. /\ pose' \in Pose /\ turns' \in 0..MaxTurns
      /\ nav_path' \in Animation \union {None} /\ AnimationWaits'
  BY <1>1, TurnKeeps DEF HandleRaises
<1> QED
  BY <1>1, <1>2, StopsKeeps

LEMMA LeaveKeepsIInv ==
    ASSUME IInv, NEW c \in Client, Leave(c) \/ PerceptionRaises(c)
    PROVE  IInv'
<1>1. Stops(c) /\ unseen' \in BOOLEAN /\ UNCHANGED <<robot, replays>>
  BY DEF IInv, TypeOK, Leave, PerceptionRaises, Stops, unregister_client
<1>2. /\ pose' \in Pose /\ turns' \in 0..MaxTurns
      /\ nav_path' \in Animation \union {None} /\ AnimationWaits'
  BY <1>1 DEF IInv, TypeOK, AnimationWaits, robot
<1> QED
  BY <1>1, <1>2, StopsKeeps

\* The end of a turn: a broadcast begins, after which the coroutine listens.
LEMMA FinalKeepsIInv ==
    ASSUME IInv, NEW c \in Client, Final(c), handler[c] # "off", todo[c] = {},
           UNCHANGED <<open, clients, frames, history, robot, shown, replays, dropped>>
    PROVE  IInv'
<1>1. pose \in Pose /\ 0 \in Pose
  BY BoundAssumption DEF IInv, TypeOK, Pose
<1>2. /\ todo' \in [Client -> SUBSET Client] /\ showing' \in [Client -> Pose]
      /\ last' \in [Client -> Client \union {None}] /\ misled' \subseteq Client
      /\ SendsFit'
  BY <1>1, BroadcastKeeps DEF Final
<1>3. /\ handler' \in [Client -> {"off", "listen", "reply", "replay"}]
      /\ unseen' \in BOOLEAN /\ handler' = [handler EXCEPT ![c] = "listen"]
  BY DEF IInv, TypeOK, Final
<1>4. TypeOK'
  BY <1>2, <1>3 DEF IInv, TypeOK, robot
<1>5. TableHoldsTheServed'
  BY <1>3 DEF IInv, TypeOK, TableHoldsTheServed
<1>6. ReplayedOnce' /\ AnimationWaits'
  BY DEF IInv, ReplayedOnce, AnimationWaits, robot
<1> QED
  BY <1>2, <1>4, <1>5, <1>6 DEF IInv

\* A send takes a client from the list, and from the table if it fails.
LEMMA SendKeepsIInv ==
    ASSUME IInv, NEW c \in Client, NEW d \in Client, Send(c, d)
    PROVE  IInv'
<1>1. /\ todo \in [Client -> SUBSET Client] /\ showing \in [Client -> Pose]
      /\ last \in [Client -> Client \union {None}] /\ misled \subseteq Client
      /\ clients \subseteq Client /\ dropped \subseteq Client
      /\ shown \in [Client -> Pose] /\ None \notin Client
  BY NoneAssumption DEF IInv, TypeOK
<1>2. /\ d \in todo[c] /\ todo' = [todo EXCEPT ![c] = @ \ {d}]
      /\ last' = IF last[d] = c THEN [last EXCEPT ![d] = None] ELSE last
      /\ misled' = IF last[d] = c /\ \E x \in Client \ {c} : d \in todo[x]
                   THEN misled \union {d} ELSE misled
      /\ UNCHANGED <<open, handler, frames, history, robot, showing, replays, unseen>>
  BY DEF Send
<1>3. \/ UNCHANGED <<clients, dropped>> /\ shown' = [shown EXCEPT ![d] = showing[c]]
      \/ clients' = clients \ {d} /\ dropped' = dropped \union {d} /\ shown' = shown
  BY DEF Send, unregister_client
<1>4. /\ todo' \in [Client -> SUBSET Client] /\ last' \in [Client -> Client \union {None}]
      /\ misled' \subseteq Client /\ clients' \subseteq Client /\ dropped' \subseteq Client
      /\ shown' \in [Client -> Pose]
  BY <1>1, <1>2, <1>3
<1>5. TypeOK'
  BY <1>2, <1>4 DEF IInv, TypeOK, robot
<1>6. TableHoldsTheServed'
  BY <1>2, <1>3 DEF IInv, TableHoldsTheServed
<1>7. ReplayedOnce' /\ AnimationWaits'
  BY <1>2 DEF IInv, ReplayedOnce, AnimationWaits, robot
<1>8. SendsFit'
  <2>1. ASSUME NEW e \in Client, last'[e] # None PROVE e \in todo'[last'[e]]
    <3>1. last'[e] = last[e] /\ last[e] \in Client /\ e \in todo[last[e]]
      BY <1>1, <1>2, <2>1 DEF IInv, SendsFit
    <3>2. e # d \/ last[e] # c
      BY <1>1, <1>2, <2>1
    <3> QED
      BY <1>1, <1>2, <3>1, <3>2
  <2>2. ASSUME NEW x \in Client, NEW e \in Client, e \in todo'[x], last'[e] = None
        PROVE  e \in misled'
    <3>1. e \in todo[x] /\ (x = c => e # d)
      BY <1>1, <1>2, <2>2
    <3>2. CASE last[e] = None
      BY <1>2, <3>1, <3>2 DEF IInv, SendsFit
    <3>3. CASE last[e] # None
      BY <1>1, <1>2, <2>2, <3>1, <3>3
    <3> QED
      BY <3>2, <3>3
  <2> QED
    BY <2>1, <2>2 DEF SendsFit
<1> QED
  BY <1>5, <1>6, <1>7, <1>8 DEF IInv

\* A history that is full gives up its oldest animation for the new one.
LEMMA KeptFits ==
    ASSUME NEW s \in Seq(Turn), Len(s) <= HistoryLimit, NEW t \in Turn
    PROVE  Kept(Append(s, t)) \in Seq(Turn) /\ Len(Kept(Append(s, t))) <= HistoryLimit
<1> DEFINE r == Append(s, t)
<1>1. r \in Seq(Turn) /\ Len(r) = Len(s) + 1 /\ Len(s) \in Nat /\ HistoryLimit \in Nat
  BY BoundAssumption
<1> HIDE DEF r
<1>2. r # <<>>
  BY <1>1
<1>3. Tail(r) \in Seq(Turn) /\ Len(Tail(r)) = Len(r) - 1
  BY <1>1, <1>2
<1>4. Kept(r) \in Seq(Turn) /\ Len(Kept(r)) <= HistoryLimit
  BY <1>1, <1>3 DEF Kept
<1> QED
  BY <1>4 DEF r

LEMMA ReplayKeepsIInv ==
    ASSUME IInv, NEW c \in Client, Replay(c)
    PROVE  IInv'
<1> DEFINE t == nav_path.turn
           points == nav_path.points
<1>1. t \in Turn /\ points \in Seq(Pose) /\ points # <<>> /\ replays[t] = 0 /\ t <= turns
  BY DEF IInv, TypeOK, AnimationWaits, Animation, Replay
<1>2. Head(points) \in Pose /\ Tail(points) \in Seq(Pose)
  BY <1>1
<1>3. /\ todo' \in [Client -> SUBSET Client] /\ showing' \in [Client -> Pose]
      /\ last' \in [Client -> Client \union {None}] /\ misled' \subseteq Client
      /\ SendsFit'
  BY <1>2, BroadcastKeeps DEF Replay, Awake
<1>4. /\ history' \in [Client -> Seq(Turn)]
      /\ \A d \in Client : Len(history'[d]) <= HistoryLimit
  <2> DEFINE kept == Kept(Append(history[c], t))
  <2>1. history \in [Client -> Seq(Turn)] /\ \A d \in Client : Len(history[d]) <= HistoryLimit
    BY DEF IInv, TypeOK
  <2>2. kept \in Seq(Turn) /\ Len(kept) <= HistoryLimit
    BY <1>1, <2>1, KeptFits
  <2>3. history' = [history EXCEPT ![c] = kept]
    BY DEF Replay
  <2> HIDE DEF kept
  <2> QED
    BY <2>1, <2>2, <2>3
<1>5. /\ frames' \in [Client -> Seq(Pose)]
      /\ handler' \in [Client -> {"off", "listen", "reply", "replay"}]
      /\ nav_path' = None
  BY <1>2 DEF IInv, TypeOK, Replay, Take
<1>6. /\ replays' \in [Turn -> Nat]
      /\ \A u \in Turn : replays'[u] = IF u = t THEN 1 ELSE replays[u]
  <2>1. replays \in [Turn -> Nat] /\ replays' = [replays EXCEPT ![t] = @ + 1]
    BY DEF IInv, TypeOK, Replay
  <2> QED
    BY <1>1, <2>1
<1>7. TypeOK'
  BY <1>3, <1>4, <1>5, <1>6 DEF IInv, TypeOK, Replay
<1>8. TableHoldsTheServed'
  BY DEF IInv, TypeOK, TableHoldsTheServed, Replay, Awake
<1>9. ReplayedOnce'
  BY <1>6 DEF IInv, ReplayedOnce
<1>10. AnimationWaits'
  BY <1>1, <1>5, <1>6 DEF IInv, AnimationWaits, Replay
<1> QED
  BY <1>3, <1>7, <1>8, <1>9, <1>10 DEF IInv

LEMMA FrameKeepsIInv ==
    ASSUME IInv, NEW c \in Client, Frame(c)
    PROVE  IInv'
<1>1. frames[c] \in Seq(Pose) /\ frames[c] # <<>>
  BY DEF IInv, TypeOK, Frame
<1>2. Head(frames[c]) \in Pose /\ Tail(frames[c]) \in Seq(Pose)
  BY <1>1
<1>3. /\ todo' \in [Client -> SUBSET Client] /\ showing' \in [Client -> Pose]
      /\ last' \in [Client -> Client \union {None}] /\ misled' \subseteq Client
      /\ SendsFit'
  BY <1>2, BroadcastKeeps DEF Frame, Awake
<1>4. frames' \in [Client -> Seq(Pose)]
  BY <1>2 DEF IInv, TypeOK, Frame
<1>5. TypeOK'
  BY <1>3, <1>4 DEF IInv, TypeOK, Frame, robot
<1>6. TableHoldsTheServed'
  BY DEF IInv, TypeOK, TableHoldsTheServed, Frame
<1>7. ReplayedOnce' /\ AnimationWaits'
  BY DEF IInv, ReplayedOnce, AnimationWaits, Frame, robot
<1> QED
  BY <1>3, <1>5, <1>6, <1>7 DEF IInv

LEMMA StepKeepsIInv == IInv /\ [Next]_vars => IInv'
<1> SUFFICES ASSUME IInv, [Next]_vars
             PROVE  IInv'
  OBVIOUS
<1>1. ASSUME NEW c \in Client, Connect(c) PROVE IInv'
  BY <1>1, ConnectKeepsIInv
<1>2. ASSUME NEW c \in Client, Disconnect(c) PROVE IInv'
  BY <1>2, DisconnectKeepsIInv
<1>3. ASSUME NEW c \in Client, Handle(c) PROVE IInv'
  BY <1>3, HandleKeepsIInv
<1>4. ASSUME NEW c \in Client, HandleRaises(c) PROVE IInv'
  BY <1>4, HandleRaisesKeepsIInv
<1>5. ASSUME NEW c \in Client, Leave(c) \/ PerceptionRaises(c) PROVE IInv'
  BY <1>5, LeaveKeepsIInv
<1>6. ASSUME NEW c \in Client, NoReplay(c) PROVE IInv'
  <2>1. /\ Final(c) /\ handler[c] # "off" /\ todo[c] = {}
        /\ UNCHANGED <<open, clients, frames, history, robot, shown, replays, dropped>>
    BY <1>6 DEF NoReplay, Awake
  <2> QED
    BY <2>1, FinalKeepsIInv
<1>7. ASSUME NEW c \in Client, Finish(c) PROVE IInv'
  <2>1. /\ Final(c) /\ handler[c] # "off" /\ todo[c] = {}
        /\ UNCHANGED <<open, clients, frames, history, robot, shown, replays, dropped>>
    BY <1>7 DEF Finish, Awake
  <2> QED
    BY <2>1, FinalKeepsIInv
<1>8. ASSUME NEW c \in Client, Replay(c) PROVE IInv'
  BY <1>8, ReplayKeepsIInv
<1>9. ASSUME NEW c \in Client, Frame(c) PROVE IInv'
  BY <1>9, FrameKeepsIInv
<1>10. ASSUME NEW c \in Client, NEW d \in Client, Send(c, d) PROVE IInv'
  BY <1>10, SendKeepsIInv
<1>11. CASE UNCHANGED vars
  BY <1>11 DEF IInv, TypeOK, TableHoldsTheServed, ReplayedOnce, AnimationWaits, SendsFit,
               vars, robot, sending
<1> QED
  BY <1>1, <1>2, <1>3, <1>4, <1>5, <1>6, <1>7, <1>8, <1>9, <1>10, <1>11 DEF Next

\* Every state of every instance satisfies the inductive invariant.
THEOREM InductiveInvariant == Spec => []IInv
BY InitIInv, StepKeepsIInv, PTL DEF Spec

\* The variables keep their types: in particular, the histories of paths that
\* are sent with every state never exceed their limit.
THEOREM TypeCorrect == Spec => []TypeOK
<1>1. IInv => TypeOK
  BY DEF IInv
<1> QED
  BY <1>1, InductiveInvariant, PTL

\* The table of the gateway has the connected clients but for those a send to which has
\* failed, and no client without a coroutine, wherever turns and sends of broadcasts
\* fail and connections end.
THEOREM TableIsRight == Spec => []TableHoldsTheServed
<1>1. IInv => TableHoldsTheServed
  BY DEF IInv
<1> QED
  BY <1>1, InductiveInvariant, PTL

\* The handlers of all clients together replay the movement of a turn at most
\* once: reading and clearing _nav_path in one step suffices.
THEOREM NothingReplayedTwice == Spec => []ReplayedOnce
<1>1. IInv => ReplayedOnce
  BY DEF IInv
<1> QED
  BY <1>1, InductiveInvariant, PTL

-----------------------------------------------------------------------------
(***************************************************************************)
(* What the clients see.                                                   *)
(***************************************************************************)

\* What a client shows once the broadcasts that have begun are out.
Coming(d) == IF last[d] # None THEN showing[last[d]] ELSE shown[d]

\* SettledViewIsTrue before the broadcasts are out.
ViewComes ==
    ~unseen /\ (\A c \in Client : handler[c] \in {"off", "listen"}) =>
        \A d \in (clients \cap open) \ misled : Coming(d) = pose

\* A handler that ends or waits again has either begun to show the pose or said that
\* it has not.
LEMMA StepKeepsView == IInv /\ ViewComes /\ [Next]_vars => ViewComes'
<1> SUFFICES ASSUME IInv, ViewComes, [Next]_vars,
                    ~unseen', \A c \in Client : handler'[c] \in {"off", "listen"},
                    NEW d \in (clients' \cap open') \ misled'
             PROVE  Coming(d)' = pose'
  BY DEF ViewComes
<1>1. /\ handler \in [Client -> {"off", "listen", "reply", "replay"}]
      /\ shown \in [Client -> Pose] /\ showing \in [Client -> Pose]
      /\ last \in [Client -> Client \union {None}] /\ None \notin Client
      /\ unseen \in BOOLEAN /\ clients \subseteq Client /\ open \subseteq Client
  BY NoneAssumption DEF IInv, TypeOK
\* Nobody's pose has changed, and all was quiet before.
<1>2. ASSUME pose' = pose, UNCHANGED <<sending, shown>>,
             d \in (clients \cap open) \ misled, ~unseen,
             \A c \in Client : handler[c] \in {"off", "listen"}
      PROVE  Coming(d)' = pose'
  BY <1>2 DEF ViewComes, Coming, sending
<1>3. ASSUME NEW c \in Client, Connect(c) PROVE Coming(d)' = pose'
  <2>1. /\ pose' = pose /\ unseen' = unseen /\ UNCHANGED sending
        /\ \A x \in Client : c \notin todo[x]
        /\ d # c => shown'[d] = shown[d]
        /\ d = c => shown'[d] = pose
        /\ handler' = [handler EXCEPT ![c] = "listen"] /\ handler[c] = "off"
        /\ d = c \/ d \in (clients \cap open) \ misled
    BY <1>1, <1>3 DEF Connect, register_client, robot
  <2>2. \A x \in Client : handler[x] \in {"off", "listen"}
    BY <1>1, <2>1
  <2>3. CASE d = c
    <3>1. last[d] = None
      BY <1>1, <2>1, <2>3 DEF IInv, SendsFit
    <3> QED
      BY <2>1, <2>3, <3>1 DEF Coming, sending
  <2>4. CASE d # c
    BY <2>1, <2>2, <2>4 DEF ViewComes, Coming, sending
  <2> QED
    BY <2>3, <2>4
<1>4. ASSUME NEW c \in Client, Disconnect(c) PROVE Coming(d)' = pose'
  BY <1>2, <1>4 DEF Disconnect, robot
<1>5. ASSUME NEW c \in Client, Handle(c) PROVE Coming(d)' = pose'
  BY <1>1, <1>5 DEF Handle
<1>6. ASSUME NEW c \in Client, Stops(c), handler[c] = "listen", pose' = pose, ~unseen
      PROVE  Coming(d)' = pose'
  <2>1. UNCHANGED <<sending, shown>> /\ d \in (clients \cap open) \ misled
    BY <1>6 DEF Stops, unregister_client
  <2>2. \A x \in Client : handler[x] \in {"off", "listen"}
    BY <1>1, <1>6 DEF Stops, unregister_client
  <2> QED
    BY <1>2, <1>6, <2>1, <2>2
<1>7. ASSUME NEW c \in Client, HandleRaises(c) PROVE Coming(d)' = pose'
  BY <1>6, <1>7 DEF HandleRaises, Awake
<1>8. ASSUME NEW c \in Client, Leave(c) \/ PerceptionRaises(c) PROVE Coming(d)' = pose'
  BY <1>6, <1>8 DEF Leave, PerceptionRaises, Awake, robot
<1>9. ASSUME NEW c \in Client, Final(c), pose' = pose, UNCHANGED clients
      PROVE  Coming(d)' = pose'
  <2>1. Broadcast(c, pose)
    BY <1>9 DEF Final
  <2>2. last'[d] = c /\ showing'[c] = pose
    BY <1>1, <1>9, <2>1 DEF Broadcast
  <2> QED
    BY <1>1, <1>9, <2>2 DEF Coming
<1>10. ASSUME NEW c \in Client, NoReplay(c) \/ Finish(c) PROVE Coming(d)' = pose'
  BY <1>9, <1>10 DEF NoReplay, Finish, robot
<1>11. ASSUME NEW c \in Client, Replay(c) \/ Frame(c) PROVE Coming(d)' = pose'
  BY <1>1, <1>11 DEF Replay, Frame, Awake
\* A send that is not of the last state misleads, and one that is shows it.
<1>12. ASSUME NEW c \in Client, NEW e \in Client, Send(c, e) PROVE Coming(d)' = pose'
  <2>1. /\ e \in todo[c] /\ UNCHANGED <<open, handler, robot, showing, unseen>>
        /\ last' = IF last[e] = c THEN [last EXCEPT ![e] = None] ELSE last
        /\ d \in (clients \cap open) \ misled
        /\ \/ shown' = [shown EXCEPT ![e] = showing[c]]
           \/ d # e /\ shown' = shown
    BY <1>12 DEF Send, unregister_client
  <2>2. Coming(d) = pose
    BY <2>1 DEF ViewComes
  <2>3. CASE d # e
    BY <1>1, <2>1, <2>2, <2>3 DEF Coming, robot
  <2>4. CASE d = e
    <3>1. last[d] # None
      BY <2>1, <2>4 DEF IInv, SendsFit
    <3>2. Coming(d) = showing[last[d]]
      BY <3>1 DEF Coming
    <3>3. CASE last[d] = c
      <4>1. last'[d] = None /\ shown'[d] = showing[c]
        BY <1>1, <2>1, <2>4, <3>3
      <4> QED
        BY <2>1, <2>2, <3>2, <3>3, <4>1 DEF Coming, robot
    <3>4. CASE last[d] # c
      BY <2>1, <2>2, <2>4, <3>1, <3>2, <3>4 DEF Coming, robot
    <3> QED
      BY <3>3, <3>4
  <2> QED
    BY <2>3, <2>4
<1>13. CASE UNCHANGED vars
  BY <1>2, <1>13 DEF vars, robot
<1> QED
  BY <1>3, <1>4, <1>5, <1>7, <1>8, <1>10, <1>11, <1>12, <1>13 DEF Next

\* For any number of clients and any order of their sends: when all is quiet, every
\* client in the table shows where the robot is, unless a handler ended or could not
\* see before it could tell, or a broadcast overtook the last one to this client.
THEOREM ViewIsTrue == Spec => []SettledViewIsTrue
<1>1. Init => ViewComes
  BY DEF Init, ViewComes
<1>2. IInv /\ ViewComes => SettledViewIsTrue
  <2> SUFFICES ASSUME IInv, ViewComes, ~unseen, Quiet,
                      NEW d \in (clients \cap open) \ misled
               PROVE  shown[d] = pose
    BY DEF SettledViewIsTrue
  <2>1. last[d] = None
    <3>1. last[d] \in Client \union {None} /\ (last[d] # None => d \in todo[last[d]])
      BY DEF IInv, TypeOK, SendsFit
    <3> QED
      BY <3>1 DEF Quiet
  <2> QED
    BY <2>1 DEF ViewComes, Coming, Quiet
<1> QED
  BY <1>1, <1>2, StepKeepsView, InductiveInvariant, PTL DEF Spec

=============================================================================
