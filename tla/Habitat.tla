------------------------------ MODULE Habitat ------------------------------
(***************************************************************************)
(* HabitatAdapter (embodied/habitat_adapter.py) over a simulator that is   *)
(* not part of the repository: here it moves the robot by unit steps on    *)
(* islands of free positions and turns it by quarters.  navigate_to_object *)
(* asks the pathfinder only whether there is a way, and then steers by the *)
(* bearing of the goal and the yaw it reads from the robot's rotation.     *)
(***************************************************************************)
EXTENDS Integers, Sequences, FiniteSets

CONSTANTS Islands,          \* external: the connected parts of the navigation mesh
          Annotations,      \* external: semantic scenes, from categories to sets of positions
          MAX_NAV_STEPS,
          SUCCESS_RADIUS,   \* in metres, which the simulator's steps are here
          NoWalk

ASSUME HabitatAssumption ==
    /\ \A island \in Islands : island \subseteq Int \X Int
    /\ \A annotation \in Annotations : \A category \in DOMAIN annotation :
            annotation[category] \in (SUBSET (Int \X Int)) \ {{}}
    /\ MAX_NAV_STEPS \in Nat \ {0} /\ SUCCESS_RADIUS \in Nat \ {0}

VARIABLES sim,          \* _sim: "none" or "ready"
          rotation,     \* external: "quaternion" object or "list"
          semantic_scene,   \* external: what is annotated in the scene
          place, quarter,   \* external: the state of the simulator's agent
          walked,       \* _nav_path
          walk,         \* navigate_to_object in its loop: [goal, steps, from], or NoWalk
          answer        \* what the last call came to

external == <<rotation, semantic_scene>>
habitatVars == <<sim, external, place, quarter, walked, walk, answer>>

HabitatInit ==
    /\ sim = "none"
    /\ rotation = "list" /\ semantic_scene = <<>> /\ place = <<0, 0>> /\ quarter = 0
    /\ walked = <<>>
    /\ walk = NoWalk
    /\ answer = [kind |-> "none"]

\* _ensure_sim, where the simulator can be initialised.
EnsureSim ==
    /\ sim' = "ready"
    /\ rotation' \in {"quaternion", "list"}
    /\ semantic_scene' \in Annotations
    /\ place' \in UNION Islands
    /\ quarter' \in 0 .. 3
    /\ UNCHANGED <<walked, walk, answer>>
-----------------------------------------------------------------------------
\* Where the robot looks: at yaw 0 along -z, and turning left from there.
Facing == << <<0, -1>>, <<-1, 0>>, <<0, 1>>, <<1, 0>> >>[quarter + 1]

\* The simulator's steps; the border of an island stops the robot.
StepForward ==
    LET next == <<place[1] + Facing[1], place[2] + Facing[2]>>
    IN  /\ place' = IF \E island \in Islands : {place, next} \subseteq island THEN next ELSE place
        /\ UNCHANGED quarter
TurnLeft(quarters) ==
    /\ quarter' = (quarter + quarters) % 4
    /\ UNCHANGED place

SquareDistance(a, b) == (a[1] - b[1]) * (a[1] - b[1]) + (a[2] - b[2]) * (a[2] - b[2])
Near(a, b) == SquareDistance(a, b) < SUCCESS_RADIUS * SUCCESS_RADIUS
Closest(set, v) == {a \in set : \A b \in set : SquareDistance(a, v) <= SquareDistance(b, v)}

\* current_yaw, 0 or half a turn: of an object that is no list it is 0, and of
\* a rotation about the vertical axis the formula keeps the sign of the cosine,
\* which for a quarter is that of a rounding error.
ReadYaws ==
    IF rotation = "quaternion" \/ quarter = 0 THEN {0}
    ELSE IF quarter = 2 THEN {2} ELSE {0, 2}

\* The goal, in a frame turned by the yaw that was read.
Bearing(goal, yaw) ==
    LET sign == IF yaw = 0 THEN 1 ELSE -1
    IN  <<sign * (goal[1] - place[1]), sign * (goal[2] - place[2])>>

\* abs(yaw_diff) <= 0.2
IsAhead(v) == v[1] > 0 /\ 10000 * v[2] <= 2027 * v[1] /\ -10000 * v[2] <= 2027 * v[1]

Steer(goal) ==
    \E yaw \in ReadYaws :
        LET v == Bearing(goal, yaw)
        IN  \/ IsAhead(v) /\ StepForward
            \/ ~IsAhead(v) /\ v[2] > 0 /\ TurnLeft(1)
            \/ ~IsAhead(v) /\ v[2] <= 0 /\ TurnLeft(3)
-----------------------------------------------------------------------------
\* _build_object_index, which is done once: where nothing is annotated, the places
\* of another scene are taken.  Metres on the floor.
DefaultObjects ==
    [sofa |-> {<<2, 3>>}, bed |-> {<<8, 12>>}, table |-> {<<3, 2>>}, chair |-> {<<5, 5>>},
     fridge |-> {<<10, 5>>}, coffee_table |-> {<<4, 3>>}]
ObjectIndex == IF semantic_scene = <<>> THEN DefaultObjects ELSE semantic_scene

\* snap_point of the nearest object of the category, and find_path.
GoalsFor(category) ==
    UNION {Closest(UNION Islands, object) : object \in Closest(ObjectIndex[category], place)}
HasWay(goal) == \E island \in Islands : {place, goal} \subseteq island

Refuse == answer' = [kind |-> "refused"] /\ UNCHANGED <<walked, walk>>

\* Fault: the path of the last walk is kept.
FaultyWalkTo(category) ==
    /\ sim = "ready" /\ walk = NoWalk
    /\ \E goal \in GoalsFor(category) :
        IF HasWay(goal)
        THEN /\ walk' = [goal |-> goal, steps |-> 0, from |-> place]
             /\ answer' = [kind |-> "none"]
             /\ UNCHANGED walked
        ELSE Refuse
    /\ UNCHANGED <<sim, external, place, quarter>>

\* navigate_to_object up to its loop.  Only the nearest object counts, also if
\* there is a way to another one.
WalkTo(category) ==
    /\ sim = "ready" /\ walk = NoWalk
    /\ \E goal \in GoalsFor(category) :
        IF HasWay(goal)
        THEN /\ walk' = [goal |-> goal, steps |-> 0, from |-> place]
             /\ walked' = <<>>
             /\ answer' = [kind |-> "none"]
        ELSE Refuse
    /\ UNCHANGED <<sim, external, place, quarter>>

\* No such category, or no navigation mesh.
WalkNowhere ==
    /\ sim = "ready" /\ walk = NoWalk
    /\ Refuse
    /\ UNCHANGED <<sim, external, place, quarter>>

\* The simulator was never initialised, and cannot be now.
NoSimulator ==
    /\ sim = "none"
    /\ answer' = [kind |-> "raised"]
    /\ UNCHANGED <<sim, external, place, quarter, walked, walk>>

Finish(success) ==
    /\ walk' = NoWalk
    /\ answer' = [kind |-> "walked", success |-> success, from |-> walk.from, goal |-> walk.goal,
                  final |-> place, steps |-> walk.steps, path |-> walked']

\* An iteration of the loop: record, test, steer.
WalkOn ==
    /\ walk # NoWalk /\ walk.steps < MAX_NAV_STEPS
    /\ walked' = Append(walked, place)
    /\ IF Near(place, walk.goal)
       THEN Finish(TRUE) /\ UNCHANGED <<place, quarter>>
       ELSE /\ Steer(walk.goal)
            /\ walk' = [walk EXCEPT !.steps = @ + 1]
            /\ UNCHANGED answer
    /\ UNCHANGED <<sim, external>>

\* The steps are used up.  Where the last one led is not looked at.
GiveUpWalk ==
    /\ walk # NoWalk /\ walk.steps = MAX_NAV_STEPS
    /\ UNCHANGED walked
    /\ Finish(FALSE)
    /\ UNCHANGED <<sim, external, place, quarter>>

\* sim.step raises, and navigate_to_object does not catch it.
WalkRaises ==
    /\ walk # NoWalk /\ walk.steps < MAX_NAV_STEPS /\ ~Near(place, walk.goal)
    /\ walked' = Append(walked, place)
    /\ walk' = NoWalk
    /\ answer' = [kind |-> "raised"]
    /\ UNCHANGED <<sim, external, place, quarter>>

\* execute_action: the tokens of ActionPlanner are not in the action space, and
\* the action that stands first there, a step forward, is taken instead, also
\* for "idle" and "retreat_slowly".  If the step raises, that is caught.
StepAnyway ==
    /\ sim = "ready" /\ walk = NoWalk
    /\ \/ StepForward /\ answer' = [kind |-> "moved"]
       \/ answer' = [kind |-> "failed"] /\ UNCHANGED <<place, quarter>>
    /\ UNCHANGED <<sim, external, walked, walk>>

\* The server replays the walk and clears it.
ReplayWalk ==
    /\ walk = NoWalk /\ walked # <<>>
    /\ walked' = <<>>
    /\ answer' = [kind |-> "none"]
    /\ UNCHANGED <<sim, external, place, quarter, walk>>

HabitatNext ==
    \/ \E category \in DOMAIN ObjectIndex : WalkTo(category)
    \/ WalkNowhere \/ NoSimulator \/ WalkOn \/ GiveUpWalk \/ WalkRaises
    \/ StepAnyway \/ ReplayWalk
-----------------------------------------------------------------------------
\* What a walk reports is what happened: its positions lead by single steps
\* from where the robot stood to where it stands now, one for each step that
\* was taken; none but the last is near the goal, and the last one is if the
\* walk was a success.
ReportIsTrue ==
    answer.kind = "walked" =>
        LET whole == IF answer.success THEN answer.path ELSE Append(answer.path, answer.final)
        IN  /\ Len(whole) = answer.steps + 1
            /\ whole[1] = answer.from /\ whole[Len(whole)] = place
            /\ \A i \in 1 .. answer.steps :
                  /\ SquareDistance(whole[i], whole[i + 1]) <= 1
                  /\ ~Near(whole[i], answer.goal)
            /\ answer.success => Near(place, answer.goal)
=============================================================================
