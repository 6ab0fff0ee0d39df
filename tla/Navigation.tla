----------------------------- MODULE Navigation -----------------------------
(***************************************************************************)
(* Semantic navigation of the two adapters that need no simulator:         *)
(* HM3DAdapter (occupancy grid, nearest free cells, A*, smoothing,         *)
(* animation; a straight line when there is no way) and GridWorldAdapter   *)
(* (A* on integer cells; failure when there is no way).                    *)
(*                                                                         *)
(* Lengths are millimetres; a place is <<x, z, height>>, a heading a vector *)
(* of any length.  The heights of animation frames and the field of view   *)
(* are left out.                                                           *)
(***************************************************************************)
EXTENDS AStar, Selection, SequencesExt, FiniteSetsExt

CONSTANTS Scenes,     \* the surroundings a robot may be put into
          Strides,    \* distance * speed * speed_mult of a planned step
          MaxTrips,   \* bound of the model: navigations and movements
          NoCell, NoTarget, NoScene

VARIABLES scene,        \* _bounds, _OBSTACLE_SHAPES, _object_index
          pose, heading,  \* _agents
          target,       \* where navigate_to_object is heading
          way, kept, at, round,  \* _smooth_path: smoothed, new_path, i, the for loop
          navPath,      \* _nav_path, the animation: <<x, z>> over a denominator
          reply,        \* what the last call came to
          trips

navVars == <<scene, pose, heading, target, way, kept, at, round, navPath, reply, trips>>
vars == <<astarVars, navVars>>

RESOLUTION == 500        \* _GRID_RESOLUTION
AGENT_RADIUS == 300      \* _AGENT_RADIUS
STEP_OVER == 150         \* _STEP_OVER_HEIGHT
SEARCH_RADIUS == 20      \* max_search_radius
ITERATIONS == 3          \* iterations of _smooth_path
-----------------------------------------------------------------------------
(***************************************************************************)
(* Geometry.                                                               *)
(***************************************************************************)
Clamp(lo, hi, v) == IF v < lo THEN lo ELSE IF v > hi THEN hi ELSE v

\* int(round(a / b)): halves go to the even neighbour.
Round(a, b) ==
    LET q == a \div b
        r == 2 * (a % b)
    IN  IF r < b \/ (r = b /\ q % 2 = 0) THEN q ELSE q + 1

\* The integers a float near a / b may be rounded to: both, at a half.
Roundings(a, b) == {k \in (a \div b) .. (a \div b) + 1 : 2 * Dist(a, k * b) <= b}

CellsAlong(s, i) == (s.hi[i] - s.lo[i] + 2 * AGENT_RADIUS + RESOLUTION - 1) \div RESOLUTION
Origin(s) == <<s.lo[1] - AGENT_RADIUS, s.lo[2] - AGENT_RADIUS>>

\* The world position of a cell, and the cell of a position (which may be
\* outside the grid).
Place(s, c) == <<Origin(s)[1] + c[1] * RESOLUTION, Origin(s)[2] + c[2] * RESOLUTION>>
CellAt(s, v) ==
    <<Round(v[1] - Origin(s)[1], RESOLUTION), Round(v[2] - Origin(s)[2], RESOLUTION)>>

\* _is_obstacle_passable_3d: low obstacles are stepped over.
IsPassable(o) == o.height < STEP_OVER

\* The footprint of an obstacle, grown by the radius of the robot.
Covered(o, v) ==
    LET dx == Dist(v[1], o.at[1])
        dz == Dist(v[2], o.at[2])
    IN  IF o.shape = "box"
        THEN /\ 2 * dx < o.size[1] + 2 * AGENT_RADIUS
             /\ 2 * dz < o.size[2] + 2 * AGENT_RADIUS
        ELSE dx * dx + dz * dz < (o.radius + AGENT_RADIUS) * (o.radius + AGENT_RADIUS)

GridCells(s) == (0 .. CellsAlong(s, 1) - 1) \X (0 .. CellsAlong(s, 2) - 1)

\* Surroundings are a room of HM3DAdapter, with furniture, or a grid with records;
\* either has objects that can be navigated to.
ASSUME SceneAssumption ==
    /\ NoScene \notin Scenes /\ NoCell \notin Int \X Int
    /\ Strides \subseteq Nat
    /\ \A s \in Scenes :
        /\ s.kind \in {"hm3d", "grid"}
        /\ \A o \in DOMAIN s.objects : s.objects[o] \in Int \X Int \X Int
        /\ s.kind = "hm3d" =>
            /\ s.lo \in Int \X Int \X Int /\ s.hi \in Int \X Int \X Int
            /\ \A i \in 1 .. 3 : s.lo[i] <= s.hi[i]
            /\ CellsAlong(s, 1) <= MaxSpan /\ CellsAlong(s, 2) <= MaxSpan
        /\ s.kind = "grid" =>
            /\ s.nx \in Nat \ {0} /\ s.nz \in Nat \ {0}
            /\ s.records \subseteq Int \X Int /\ s.home \in Int \X Int \X Int

\* _build_occupancy_grid.  Cells exactly on the edge of a footprint are inside
\* or outside as the floating-point sums fall; a scene says which are inside.
Occupied(s) ==
    {c \in GridCells(s) :
        \/ c \in s.onEdge
        \/ \E o \in s.shapes : ~IsPassable(o) /\ Covered(o, Place(s, c))}

\* The order in which _find_nearest_free_cell looks around.
Around == << <<1, 0>>, <<-1, 0>>, <<0, 1>>, <<0, -1>>, <<1, 1>>, <<-1, 1>>, <<1, -1>>, <<-1, -1>> >>

\* In the state <<queue, visited>>, with pairs <<cell, depth>> in the queue: the
\* cells seen for the first time around the head of the queue, and those of them
\* that are entered, being on the grid.
Fresh(st) ==
    Kept([i \in 1 .. 8 |-> After(Head(st[1])[1], Around[i])], (Int \X Int) \ st[2])
Inside(cells, st) == Kept(Fresh(st), cells)

\* The queue is empty, or too far from the start.
Exhausted(st) == st[1] = <<>> \/ Head(st[1])[2] > SEARCH_RADIUS

\* The state after a turn that finds nothing.
Later(cells, st) ==
    LET inside == Inside(cells, st) IN
    <<Tail(st[1]) \o [i \in 1 .. Len(inside) |-> <<inside[i], Head(st[1])[2] + 1>>],
      st[2] \union Range(Fresh(st))>>

\* Its loop.
FirstFree(cells, blocked, start) ==
    LET look[st \in Seq(cells \X Nat) \X SUBSET (Int \X Int)] ==
            IF Exhausted(st) THEN NoCell ELSE
            LET free == Kept(Inside(cells, st), cells \ blocked)
            IN  IF free # <<>> THEN Head(free) ELSE look[Later(cells, st)]
    IN  look[<< << <<start, 0>> >>, {start}>>]

\* The cell is taken for free because it is the goal.
FaultyNearest(s, blocked, v) ==
    <<Clamp(0, CellsAlong(s, 1) - 1, CellAt(s, v)[1]),
      Clamp(0, CellsAlong(s, 2) - 1, CellAt(s, v)[2])>>
-----------------------------------------------------------------------------
(***************************************************************************)
(* Straight lines between cells, and the animation.                        *)
(***************************************************************************)
Square(a, b) == Dist(a[1], b[1]) * Dist(a[1], b[1]) + Dist(a[2], b[2]) * Dist(a[2], b[2])

\* _find_nearest_free_cell
Nearest(s, blocked, v) ==
    LET c == <<Clamp(0, CellsAlong(s, 1) - 1, CellAt(s, v)[1]),
               Clamp(0, CellsAlong(s, 2) - 1, CellAt(s, v)[2])>>
    IN  IF c \notin blocked THEN c ELSE FirstFree(GridCells(s), blocked, c)

\* ceil(k * length), the length in cells.
StepsFor(a, b, k) ==
    CHOOSE n \in 0 .. k * (Dist(a[1], b[1]) + Dist(a[2], b[2])) :
        /\ n * n >= k * k * Square(a, b)
        /\ n > 0 => (n - 1) * (n - 1) < k * k * Square(a, b)

\* The sample s of n on the line, in n-ths of a cell.
Sample(a, b, s, n) == <<a[1] * n + (b[1] - a[1]) * s, a[2] * n + (b[2] - a[2]) * s>>
SampledCells(a, b, s, n) ==
    LET v == Sample(a, b, s, n) IN Roundings(v[1], n) \X Roundings(v[2], n)

\* Only the middle of the line is looked at.
FaultyMayBeFree(p, a, b) ==
    LET n == StepsFor(a, b, 2) IN
    \E c \in SampledCells(a, b, n \div 2, n) : c \in Cells(p) \ p.blocked

\* _line_collision_free samples every half cell.  Where a sample lies between
\* two cells rounding may take either, so that a line may or must be free.
MayBeFree(p, a, b) ==
    LET n == StepsFor(a, b, 2) IN
    \A s \in 0 .. n : \E c \in SampledCells(a, b, s, n) : c \in Cells(p) \ p.blocked

MustBeFree(p, a, b) ==
    LET n == StepsFor(a, b, 2) IN
    \A s \in 0 .. n : SampledCells(a, b, s, n) \subseteq Cells(p) \ p.blocked

\* The frames of a leg: two or more steps of at most half a metre, the last
\* of which is left to the next leg, if there is one.
Leg(s, a, b, isLast) ==
    LET n == Max({2, StepsFor(a, b, 1)})
        frame(i) == <<Origin(s)[1] * n + RESOLUTION * Sample(a, b, i, n)[1],
                      Origin(s)[2] * n + RESOLUTION * Sample(a, b, i, n)[2], n>>
    IN  [i \in 1 .. (IF isLast THEN n + 1 ELSE n) |-> frame(i - 1)]

Animation(s, cells) ==
    FlattenSeq([i \in 1 .. Len(cells) - 1 |-> Leg(s, cells[i], cells[i + 1], i = Len(cells) - 1)])

\* `steps + 1` points on the line from v to w.
Line(v, w, steps) ==
    [i \in 1 .. steps + 1 |->
        <<v[1] * steps + (w[1] - v[1]) * (i - 1), v[2] * steps + (w[2] - v[2]) * (i - 1), steps>>]
-----------------------------------------------------------------------------
(***************************************************************************)
(* The calls.                                                              *)
(***************************************************************************)
\* _ensure_agent: the middle of the bounds, (10, 10) without bounds (a scene
\* then extends 20 metres, as _build_occupancy_grid takes it to); in the grid
\* world (0, 0), unless the server has put the robot elsewhere.
Home(s) ==
    IF s.kind = "grid" THEN s.home
    ELSE <<(s.lo[1] + s.hi[1]) \div 2, (s.lo[2] + s.hi[2]) \div 2,
           IF s.bounded THEN (s.lo[3] + s.hi[3]) \div 2 ELSE 0>>

\* The adapter has been created; _ensure_agent comes with the first call.
NavInit ==
    /\ Init
    /\ scene = NoScene
    /\ pose = <<0, 0, 0>> /\ heading = <<1, 0>>
    /\ target = NoTarget
    /\ way = <<>> /\ kept = <<>> /\ at = 0 /\ round = 0
    /\ navPath = <<>>
    /\ reply = "none"
    /\ trips = 0

\* The call returns, and its local variables are gone.
Return ==
    /\ Forget
    /\ way' = <<>> /\ kept' = <<>> /\ at' = 0 /\ round' = 0

\* _ensure_agent, in the scene s.
Enter(s) ==
    /\ scene = NoScene
    /\ scene' = s
    /\ pose' = Home(s)
    /\ UNCHANGED <<astarVars, heading, target, way, kept, at, round, navPath, reply, trips>>

\* final_theta: towards v, or as given if the robot is there.
Towards(v, otherwise) ==
    IF pose[1] = v[1] /\ pose[2] = v[2] THEN otherwise ELSE <<v[1] - pose[1], v[2] - pose[2]>>

\* _fallback_linear_path
Straight(v) ==
    /\ pose' = v
    /\ heading' = Towards(v, <<1, 0>>)
    /\ navPath' = Line(pose, v, 10)
    /\ reply' = "straight"

Cell(v) == <<Round(v[1], 1000), Round(v[2], 1000)>>

\* The search navigate_to_object asks for.  In the grid world every record but
\* the goal is an obstacle; the start may be one.
ProblemFor(s, from, v) ==
    IF s.kind = "hm3d"
    THEN LET blocked == Occupied(s) IN
         [kind |-> "hm3d", nx |-> CellsAlong(s, 1), nz |-> CellsAlong(s, 2), blocked |-> blocked,
          start |-> Nearest(s, blocked, from), goal |-> Nearest(s, blocked, v)]
    ELSE [kind |-> "grid", nx |-> s.nx, nz |-> s.nz,
          blocked |-> {Cell(r) : r \in s.records} \ {Cell(v)},
          start |-> Cell(from), goal |-> Cell(v)]

\* navigate_to_object, up to the search.
Navigate(object) ==
    LET v == scene.objects[object]
        p == ProblemFor(scene, pose, v)
    IN
    /\ scene # NoScene /\ search = "idle" /\ trips < MaxTrips
    /\ trips' = trips + 1
    /\ UNCHANGED scene
    /\ \/ /\ NoCell \in {p.start, p.goal}
          /\ target' = v
          /\ Straight(v)
          /\ UNCHANGED <<astarVars, way, kept, at, round>>
       \/ /\ NoCell \notin {p.start, p.goal}
          /\ Begin(p)
          /\ target' = v
          /\ reply' = "none"
          /\ UNCHANGED <<pose, heading, way, kept, at, round, navPath>>

\* An object neither adapter knows.
NavigateNowhere ==
    /\ scene # NoScene /\ search = "idle" /\ trips < MaxTrips
    /\ trips' = trips + 1
    /\ reply' = "failed"
    /\ UNCHANGED <<astarVars, scene, pose, heading, target, way, kept, at, round, navPath>>

Searches == Loop /\ UNCHANGED navVars

\* `if grid_path is None` and `if path is None`.
NoWay ==
    /\ search = "none"
    /\ Return
    /\ IF scene.kind = "hm3d" THEN Straight(target)
       ELSE reply' = "failed" /\ UNCHANGED <<pose, heading, navPath>>
    /\ UNCHANGED <<scene, target, trips>>

\* The grid world steps along the path; a path of one cell moves nothing.
Walk ==
    LET path == PathTo(problem.goal) IN
    /\ search = "found" /\ scene.kind = "grid"
    /\ pose' = IF Len(path) > 1
               THEN <<1000 * problem.goal[1], 1000 * problem.goal[2], 0>> ELSE pose
    /\ heading' = IF Len(path) > 1
                  THEN <<problem.goal[1] - path[Len(path) - 1][1],
                         problem.goal[2] - path[Len(path) - 1][2]>> ELSE heading
    /\ navPath' = [i \in DOMAIN path |-> <<1000 * path[i][1], 1000 * path[i][2], 1>>]
    /\ reply' = "arrived"
    /\ Return
    /\ UNCHANGED <<scene, target, trips>>

\* _smooth_path begins a pass over `cells`, or is done with them.
Pass(cells, n) ==
    /\ way' = cells
    /\ kept' = <<cells[1]>>
    /\ at' = 1
    /\ round' = IF Len(cells) <= 2 THEN ITERATIONS + 1 ELSE n

StartSmoothing ==
    /\ search = "found" /\ scene.kind = "hm3d" /\ round = 0
    /\ Pass(PathTo(problem.goal), 1)
    /\ UNCHANGED <<astarVars, scene, pose, heading, target, navPath, reply, trips>>

\* A turn of the while loop: the farthest point a free line leads to, or the
\* next one.
Shortcut(j) ==
    /\ round \in 1 .. ITERATIONS /\ at < Len(way)
    /\ j \in at + 1 .. Len(way)
    /\ j = at + 1 \/ MayBeFree(problem, way[at], way[j])
    /\ \A k \in j + 1 .. Len(way) : ~MustBeFree(problem, way[at], way[k])
    /\ kept' = Append(kept, way[j])
    /\ at' = j
    /\ UNCHANGED <<astarVars, scene, pose, heading, target, way, round, navPath, reply, trips>>

NextPass ==
    /\ round \in 1 .. ITERATIONS /\ at = Len(way)
    /\ Pass(kept, round + 1)
    /\ UNCHANGED <<astarVars, scene, pose, heading, target, navPath, reply, trips>>

\* The robot is at the object, and the animation at the goal cell.
Arrive ==
    /\ round = ITERATIONS + 1
    /\ pose' = target
    /\ heading' = Towards(target, heading)
    /\ navPath' = Animation(scene, way)
    /\ reply' = "arrived"
    /\ Return
    /\ UNCHANGED <<scene, target, trips>>

\* The length of a vector, rounded down.
Length(v) ==
    LET x == Dist(v[1], 0)
        z == Dist(v[2], 0)
        far == IF x < z THEN z ELSE x
    IN  CHOOSE r \in far .. x + z : r * r <= x * x + z * z /\ x * x + z * z < (r + 1) * (r + 1)

\* A step of this length along the heading, to the millimetre.
Ahead(length) ==
    LET norm == Length(heading)
    IN  <<(length * heading[1]) \div norm, (length * heading[2]) \div norm>>

\* The tokens of ActionPlanner that are no navigation.
Token == {"approach_gently", "retreat_slowly", "turn_to_user", "look_around", "interact", "idle"}

\* <<dx, dy>> as _execute_action_plan computes it.
Displacement(token, stride) ==
    CASE token = "approach_gently" -> Ahead(stride)
      [] token = "retreat_slowly" -> Ahead(-stride)
      [] OTHER -> <<0, 0>>

\* execute_action.  Nothing looks at obstacles here.  The dy of the plan is the
\* depth in the grid world and the height in HM3DAdapter.
Shifted(v, d) ==
    IF scene.kind = "grid"
    THEN <<Clamp(0, 1000 * (scene.nx - 1), v[1] + d[1]), Clamp(0, 1000 * (scene.nz - 1), v[2] + d[2]), 0>>
    ELSE IF scene.bounded
    THEN <<Clamp(scene.lo[1], scene.hi[1], v[1] + d[1]), Clamp(scene.lo[2], scene.hi[2], v[2]),
           Clamp(scene.lo[3], scene.hi[3], v[3] + d[2])>>
    ELSE <<v[1] + d[1], v[2], v[3] + d[2]>>

\* _execute_action_plan and execute_action: both turning tokens turn a quarter
\* to the left; an animation that is still there stays.
Move(token, stride) ==
    /\ scene # NoScene /\ search = "idle" /\ trips < MaxTrips
    /\ trips' = trips + 1
    /\ pose' = Shifted(pose, Displacement(token, stride))
    /\ heading' = IF token \in {"turn_to_user", "look_around"}
                  THEN <<-heading[2], heading[1]>> ELSE heading
    /\ navPath' = IF navPath = <<>> THEN Line(pose, pose', 5) ELSE navPath
    /\ reply' = "moved"
    /\ UNCHANGED <<astarVars, scene, target, way, kept, at, round>>

\* The server reads the animation and clears it.
Replay ==
    /\ search = "idle" /\ navPath # <<>>
    /\ navPath' = <<>>
    /\ reply' = "none"
    /\ UNCHANGED <<astarVars, scene, pose, heading, target, way, kept, at, round, trips>>

NavNext ==
    \/ \E s \in Scenes : Enter(s)
    \/ scene # NoScene /\ \E object \in DOMAIN scene.objects : Navigate(object)
    \/ NavigateNowhere
    \/ Searches
    \/ NoWay
    \/ Walk
    \/ StartSmoothing
    \/ \E j \in 1 .. Len(way) : Shortcut(j)
    \/ NextPass
    \/ Arrive
    \/ \E token \in Token, stride \in Strides : Move(token, stride)
    \/ Replay

NavSpec == NavInit /\ [][NavNext]_vars
-----------------------------------------------------------------------------
(***************************************************************************)
(* What the planner promises.                                              *)
(***************************************************************************)
Chebyshev(a, b) == Max({Dist(a[1], b[1]), Dist(a[2], b[2])})

\* The search starts and ends at free cells, and no free cell is nearer to where
\* the robot and the object are; off the grid, to the edge next to them.
EndsAreNearest ==
    search = "searching" /\ scene.kind = "hm3d" =>
        LET edge(v) == <<Clamp(0, problem.nx - 1, CellAt(scene, v)[1]),
                         Clamp(0, problem.nz - 1, CellAt(scene, v)[2])>>
            free == Cells(problem) \ problem.blocked
        IN  \A e \in {<<problem.start, edge(pose)>>, <<problem.goal, edge(target)>>} :
                e[1] \in free /\ \A c \in free : Chebyshev(e[1], e[2]) <= Chebyshev(c, e[2])

\* No frame of an animation is farther than three quarters of a cell, per axis,
\* from the middle of a free one: smoothing looks at a line every half cell, and
\* the frames fall between the places it looked at.  So an animation may cut
\* into a blocked cell, but by less than a quarter of a cell.
FramesStayNear ==
    reply = "arrived" /\ scene.kind = "hm3d" =>
        \A i \in DOMAIN navPath :
            \E c \in Cells(problem) \ problem.blocked : \A axis \in {1, 2} :
                LET n == navPath[i][3]
                IN  4 * Dist(navPath[i][axis], n * Place(scene, c)[axis]) <= 3 * RESOLUTION * n

\* "Paths no longer cross obstacles" (docs/embodied_intelligence_navigation.md:100):
\* no frame lies in a blocked cell.  True of the house and of small rooms, not of
\* every room: a line of 11 by 5 cells has a frame in a cell that no sample of
\* the line touches.
FrameCells(s, f) ==
    Roundings(f[1] - Origin(s)[1] * f[3], RESOLUTION * f[3])
        \X Roundings(f[2] - Origin(s)[2] * f[3], RESOLUTION * f[3])
AnimationIsClear ==
    reply = "arrived" /\ scene.kind = "hm3d" =>
        \A i \in DOMAIN navPath :
            \E c \in FrameCells(scene, navPath[i]) : c \in Cells(problem) \ problem.blocked
=============================================================================
