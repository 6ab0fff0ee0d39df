------------------------------- MODULE AStar -------------------------------
(***************************************************************************)
(* The two path searches of the robot adapters, HM3DAdapter._astar_2d (8   *)
(* neighbours, Euclidean estimate) and GridWorldAdapter._astar_path (4     *)
(* neighbours, Manhattan estimate).  They share a loop: take the least     *)
(* entry of a heap, stop at the goal, else improve the neighbours.  There  *)
(* is no closed set: a cell that is improved again is pushed again.        *)
(* Spec is of any searches, one after the other; Navigation asks for its   *)
(* own, and is checked and shown to implement it.                          *)
(*                                                                         *)
(* A step of the loop is a step of this module.  Costs of "hm3d" are in    *)
(* millimetres of its 0.5 m grid, costs of "grid" in cells.                *)
(***************************************************************************)
EXTENDS Integers, Sequences, FiniteSets

CONSTANTS MaxSpan,    \* bound of the model: the widest grid of _astar_2d has this many cells
          NoProblem   \* no search has been asked for

VARIABLES problem,    \* [kind, nx, nz, blocked, start, goal]
          open,       \* open_set: pairs <<f, cell>>
          gScore,     \* g_score, a function on the cells reached
          cameFrom,   \* came_from, a function on the cells improved
          search      \* "idle", "searching", "found" or "none"

astarVars == <<problem, open, gScore, cameFrom, search>>

Cells(p) == (0 .. p.nx - 1) \X (0 .. p.nz - 1)

\* Estimates are tabulated for the grids of _astar_2d.
ASSUME SpanAssumption == MaxSpan \in Nat

\* A problem is a finite grid with obstacles, a start and a goal.  Neither the
\* start nor the goal need be free, and they may be off the grid.
Problem ==
    {p \in [kind : {"hm3d", "grid"}, nx : Nat, nz : Nat, blocked : SUBSET (Int \X Int),
            start : Int \X Int, goal : Int \X Int] :
        p.kind = "hm3d" => p.nx <= MaxSpan /\ p.nz <= MaxSpan}
-----------------------------------------------------------------------------
Dist(a, b) == IF a < b THEN b - a ELSE a - b

Moves == {m \in (-1 .. 1) \X (-1 .. 1) : m # <<0, 0>>}
IsDiagonal(m) == m[1] # 0 /\ m[2] # 0

\* NEIGHBORS of _astar_2d, and the four of _astar_path, with their costs:
\* 0.5 and 0.5 * 1.4142 metres, or 1.
StepCost(p, m) ==
    IF p.kind = "grid" THEN 1 ELSE IF IsDiagonal(m) THEN 707 ELSE 500

After(c, m) == <<c[1] + m[1], c[2] + m[2]>>

\* Diagonal steps are not refused at corners.
FaultyCanStep(p, c, m) ==
    /\ After(c, m) \in Cells(p)
    /\ After(c, m) \notin p.blocked
    /\ IsDiagonal(m) => p.kind = "hm3d"

\* The tests that `continue` the neighbour loop.
CanStep(p, c, m) ==
    /\ After(c, m) \in Cells(p)
    /\ After(c, m) \notin p.blocked
    /\ IsDiagonal(m) =>
        /\ p.kind = "hm3d"
        /\ <<c[1] + m[1], c[2]>> \notin p.blocked
        /\ <<c[1], c[2] + m[2]>> \notin p.blocked

\* The length in millimetres of a vector of cells, rounded down.
Hypot[v \in (0 .. MaxSpan) \X (0 .. MaxSpan)] ==
    LET square == 250000 * (v[1] * v[1] + v[2] * v[2])
        far == IF v[1] < v[2] THEN v[2] ELSE v[1]
    IN  CHOOSE r \in 500 * far .. 500 * (v[1] + v[2]) :
            r * r <= square /\ square < (r + 1) * (r + 1)

\* The Manhattan estimate for both.
FaultyEstimate(p, c) ==
    (IF p.kind = "grid" THEN 1 ELSE 500) * (Dist(p.goal[1], c[1]) + Dist(p.goal[2], c[2]))

\* The heuristic of either search.  A diagonal step costs a little less than
\* the estimate says, 0.70710 against 0.70711 m: it is not quite admissible.
Estimate(p, c) ==
    LET dx == Dist(p.goal[1], c[1])
        dz == Dist(p.goal[2], c[2])
    IN  IF p.kind = "grid" THEN dx + dz ELSE Hypot[<<dx, dz>>]

\* heapq orders the tuples (f, (x, z)) by their parts.
Before(a, b) ==
    \/ a[1] < b[1]
    \/ a[1] = b[1] /\ a[2][1] < b[2][1]
    \/ a[1] = b[1] /\ a[2][1] = b[2][1] /\ a[2][2] < b[2][2]
-----------------------------------------------------------------------------
Init ==
    /\ problem = NoProblem
    /\ open = {}
    /\ gScore = <<>>
    /\ cameFrom = <<>>
    /\ search = "idle"

\* The call, up to the loop.  _astar_2d refuses what lies off the grid.
Begin(p) ==
    /\ problem' = p
    /\ open' = {<<0, p.start>>}
    /\ gScore' = [c \in {p.start} |-> 0]
    /\ cameFrom' = <<>>
    /\ search' = IF p.kind = "hm3d" /\ ~({p.start, p.goal} \subseteq Cells(p))
                 THEN "none" ELSE "searching"

\* heappop returns the least entry.
Popped(e) == \A f \in open : f = e \/ Before(e, f)

\* tentative_g of the neighbour a move leads to.
Tentative(cell, m) == gScore[cell] + StepCost(problem, m)

\* The moves that reach a neighbour for the first time or at a lower cost.
Improving(cell) ==
    {m \in Moves :
        /\ CanStep(problem, cell, m)
        /\ After(cell, m) \in DOMAIN gScore => Tentative(cell, m) < gScore[After(cell, m)]}

\* A turn of the loop at a cell that is not the goal.
Expand(e) ==
    LET cell == e[2]
        better == {After(cell, m) : m \in Improving(cell)}
        moveTo(n) == <<n[1] - cell[1], n[2] - cell[2]>>
        pushed(n) == <<Tentative(cell, moveTo(n)) + Estimate(problem, n), n>>
    IN
    /\ search = "searching" /\ Popped(e) /\ cell # problem.goal
    /\ gScore' = [n \in DOMAIN gScore \union better |->
                    IF n \in better THEN Tentative(cell, moveTo(n)) ELSE gScore[n]]
    /\ cameFrom' = [n \in DOMAIN cameFrom \union better |->
                    IF n \in better THEN cell ELSE cameFrom[n]]
    /\ open' = (open \ {e}) \union {pushed(n) : n \in better}
    /\ UNCHANGED <<problem, search>>

\* `if current == goal`: the path is read off came_from, see PathTo.
Reach(e) ==
    /\ search = "searching" /\ Popped(e) /\ e[2] = problem.goal
    /\ search' = "found"
    /\ UNCHANGED <<problem, open, gScore, cameFrom>>

\* `return None`: the heap is empty.
GiveUp ==
    /\ search = "searching" /\ open = {}
    /\ search' = "none"
    /\ UNCHANGED <<problem, open, gScore, cameFrom>>

Loop == GiveUp \/ \E e \in open : Expand(e) \/ Reach(e)

\* `while current in came_from`, then reverse.
PathTo(goal) ==
    LET back[c \in Cells(problem) \union {problem.start}] ==
            IF c \in DOMAIN cameFrom THEN Append(back[cameFrom[c]], c) ELSE <<c>>
    IN  back[goal]

\* The function has returned, and its local variables are gone.
Forget ==
    /\ search \in {"found", "none"} /\ search' = "idle"
    /\ open' = {} /\ gScore' = <<>> /\ cameFrom' = <<>>
    /\ UNCHANGED problem

\* Any search may be asked for, one after the other.
Next == Loop \/ Forget \/ (search = "idle" /\ \E p \in Problem : Begin(p))

Spec == Init /\ [][Next]_astarVars
-----------------------------------------------------------------------------
\* A step the adapters promise: into a neighbouring free cell of the grid, and
\* not past the corner of an obstacle.
LegalStep(p, a, b) ==
    /\ b \in Cells(p) /\ b # a
    /\ Dist(a[1], b[1]) <= 1 /\ Dist(a[2], b[2]) <= 1
    /\ p.kind = "grid" => a[1] = b[1] \/ a[2] = b[2]
    /\ \A x \in {a[1], b[1]}, z \in {a[2], b[2]} : <<x, z>> # a => <<x, z>> \notin p.blocked

LegalCost(p, a, b) == StepCost(p, <<b[1] - a[1], b[2] - a[2]>>)

\* What came_from says of a cell is a legal step, never into or between
\* obstacles, at the cost g_score says or less: re-opening a cell, which lowers
\* its g_score under cells already reached through it, breaks no path, and no
\* chain of predecessors runs in a circle, so that reading the path off ends.
TreeIsSound ==
    search # "idle" =>
        \A c \in DOMAIN cameFrom :
            /\ c # problem.start
            /\ cameFrom[c] \in DOMAIN gScore
            /\ LegalStep(problem, cameFrom[c], c)
            /\ gScore[cameFrom[c]] + LegalCost(problem, cameFrom[c], c) <= gScore[c]

\* What holds between the heap, the scores and the predecessors.
ScoresInv ==
    /\ search \in {"idle", "searching", "found", "none"}
    /\ search # "idle" =>
        /\ problem \in Problem
        /\ DOMAIN gScore \subseteq Int \X Int
        /\ \A c \in DOMAIN gScore : gScore[c] \in Nat
        /\ problem.start \in DOMAIN gScore /\ gScore[problem.start] = 0
        /\ \A e \in open : e[2] \in DOMAIN gScore
        /\ DOMAIN cameFrom \subseteq DOMAIN gScore

IInv == ScoresInv /\ TreeIsSound

\* What _astar_2d does not refuse.
InGrid(p) == p.kind = "hm3d" => {p.start, p.goal} \subseteq Cells(p)

\* A cell that was reached is in the heap, with an entry as good as its score,
\* or its neighbours have been improved from that score.
Queued(c) == \E e \in open : e[2] = c /\ e[1] <= gScore[c] + Estimate(problem, c)
Expanded(c) ==
    \A m \in Moves : CanStep(problem, c, m) =>
        /\ After(c, m) \in DOMAIN gScore
        /\ gScore[After(c, m)] <= gScore[c] + StepCost(problem, m)

\* What the heap stands for: without a closed set, entries that were overtaken
\* stay in it, but none of them promises less than the score of its cell.
HeapInv ==
    /\ search \in {"searching", "found"} => InGrid(problem)
    /\ search # "idle" /\ InGrid(problem) =>
        /\ DOMAIN gScore \subseteq Cells(problem) \union {problem.start}
        /\ DOMAIN gScore \subseteq DOMAIN cameFrom \union {problem.start}
        /\ \A e \in open : e[1] \in Nat /\ gScore[e[2]] <= e[1]
        /\ \A c \in DOMAIN gScore : Queued(c) \/ (c # problem.goal /\ Expanded(c))
        /\ search = "found" =>
            \E e \in open : e[2] = problem.goal /\ \A f \in open : e[1] <= f[1]
        /\ search = "none" => open = {}
=============================================================================
