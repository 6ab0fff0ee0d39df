--------------------------- MODULE EmbodiedProofs ---------------------------
(***************************************************************************)
(* Proofs about the robot's adapters and how the server chooses one of     *)
(* them.  Whatever the grid, the obstacles and the order of the heap, the  *)
(* search is complete and what it finds is legal and, but for the rounding *)
(* of 1.4142, shortest.  The planner makes such searches and no others;    *)
(* whatever the room, the cells it searches between are the nearest free   *)
(* ones, and no frame of an animation is far from a free cell.  Whatever   *)
(* the floor and the yaws that are read, a walk in the simulator is        *)
(* reported as it went; and on whatever machine it is started, the server  *)
(* serves with the adapter it names.                                       *)
(***************************************************************************)
EXTENDS Embodied, SelectionProofs

-----------------------------------------------------------------------------
(***************************************************************************)
(* The search of AStar.                                                    *)
(***************************************************************************)
\* Sequences, of whatever elements.
LEMMA SequenceFacts ==
    ASSUME NEW S, NEW s \in Seq(S)
    PROVE  Len(s) \in Nat /\ DOMAIN s = 1 .. Len(s) /\ \A i \in 1 .. Len(s) : s[i] \in S
  OBVIOUS

LEMMA SequenceOf ==
    ASSUME NEW S, NEW T, NEW s \in Seq(S), \A i \in 1 .. Len(s) : s[i] \in T
    PROVE  s \in Seq(T)
  <1> DEFINE n == Len(s)
  <1>1. n \in Nat /\ s = [i \in 1 .. n |-> s[i]] /\ \A i \in 1 .. n : s[i] \in T
    OBVIOUS
  <1> HIDE DEF n
  <1> QED  BY <1>1

\* What a problem is made of.
LEMMA ProblemFacts ==
    \A p \in Problem :
        /\ p.kind \in {"hm3d", "grid"} /\ p.nx \in Nat /\ p.nz \in Nat
        /\ p.start \in Int \X Int /\ p.goal \in Int \X Int
        /\ p.kind = "hm3d" => p.nx <= MaxSpan /\ p.nz <= MaxSpan
  BY DEF Problem

\* A move changes the cell, by at most one in each direction.
LEMMA MoveTypes ==
    \A m \in Moves : m \in Int \X Int /\ m # <<0, 0>>
                     /\ m[1] \in {-1, 0, 1} /\ m[2] \in {-1, 0, 1}
  BY DEF Moves

\* Every step costs something, and leads to another cell of the plane.
LEMMA StepTypes ==
    ASSUME NEW p, NEW c \in Int \X Int, NEW m \in Moves
    PROVE  /\ StepCost(p, m) \in Nat \ {0}
           /\ After(c, m) \in Int \X Int
           /\ After(c, m) # c
           /\ <<After(c, m)[1] - c[1], After(c, m)[2] - c[2]>> = m
  <1>1. m \in Int \X Int /\ m # <<0, 0>>  BY MoveTypes
  <1>2. StepCost(p, m) \in Nat \ {0}  BY DEF StepCost
  <1>3. After(c, m) = <<c[1] + m[1], c[2] + m[2]>>  BY DEF After
  <1>4. m[1] # 0 \/ m[2] # 0  BY <1>1
  <1> QED  BY <1>1, <1>2, <1>3, <1>4

\* The tests of the neighbour loop let only legal steps through, those of the
\* grid world because it refuses diagonal moves, the others because both cells
\* beside a diagonal move must be free.
LEMMA StepsAreLegal ==
    ASSUME NEW p, NEW c \in Int \X Int, NEW m \in Moves, CanStep(p, c, m)
    PROVE  LegalStep(p, c, After(c, m)) /\ LegalCost(p, c, After(c, m)) = StepCost(p, m)
  <1> DEFINE n == After(c, m)
  <1>1. m \in Int \X Int /\ m[1] \in {-1, 0, 1} /\ m[2] \in {-1, 0, 1}  BY MoveTypes
  <1>2. n \in Int \X Int /\ n # c /\ n = <<c[1] + m[1], c[2] + m[2]>>
        /\ <<n[1] - c[1], n[2] - c[2]>> = m
    BY StepTypes DEF After
  <1>3. n \in Cells(p) /\ n \notin p.blocked  BY DEF CanStep
  <1>4. Dist(c[1], n[1]) <= 1 /\ Dist(c[2], n[2]) <= 1  BY <1>1, <1>2 DEF Dist
  <1>5. p.kind = "grid" => c[1] = n[1] \/ c[2] = n[2]
    BY <1>1, <1>2 DEF CanStep, IsDiagonal
  <1>6. ASSUME NEW x \in {c[1], n[1]}, NEW z \in {c[2], n[2]}, <<x, z>> # c
        PROVE  <<x, z>> \notin p.blocked
    <2>1. CASE x = n[1] /\ z = n[2]  BY <2>1, <1>2, <1>3
    <2>2. CASE x = c[1] /\ z = c[2]  BY <2>2, <1>6
    <2>3. CASE x = n[1] /\ z = c[2] /\ z # n[2] /\ x # c[1]
      <3>1. IsDiagonal(m)  BY <2>3, <1>1, <1>2 DEF IsDiagonal
      <3> QED  BY <3>1, <2>3, <1>2 DEF CanStep
    <2>4. CASE x = c[1] /\ z = n[2] /\ z # c[2] /\ x # n[1]
      <3>1. IsDiagonal(m)  BY <2>4, <1>1, <1>2 DEF IsDiagonal
      <3> QED  BY <3>1, <2>4, <1>2 DEF CanStep
    <2> QED  BY <2>1, <2>2, <2>3, <2>4
  <1>7. LegalCost(p, c, n) = StepCost(p, m)  BY <1>2 DEF LegalCost
  <1> QED  BY <1>2, <1>3, <1>4, <1>5, <1>6, <1>7 DEF LegalStep

\* Expanding a cell improves neighbours of it, and never the cell itself.
LEMMA Improvements ==
    ASSUME NEW c \in DOMAIN gScore, c \in Int \X Int, \A d \in DOMAIN gScore : gScore[d] \in Nat,
           NEW n \in {After(c, m) : m \in Improving(c)}
    PROVE  LET t == Tentative(c, <<n[1] - c[1], n[2] - c[2]>>) IN
           /\ n \in Int \X Int /\ n # c
           /\ LegalStep(problem, c, n)
           /\ t = gScore[c] + LegalCost(problem, c, n)
           /\ t \in Nat /\ t > gScore[c]
           /\ n \in DOMAIN gScore => t < gScore[n]
  <1>1. PICK m \in Improving(c) : n = After(c, m)  OBVIOUS
  <1>2. m \in Moves /\ CanStep(problem, c, m)
        /\ (n \in DOMAIN gScore => Tentative(c, m) < gScore[n])
    BY <1>1 DEF Improving
  <1>3. n \in Int \X Int /\ n # c /\ <<n[1] - c[1], n[2] - c[2]>> = m
        /\ StepCost(problem, m) \in Nat \ {0}
    BY <1>1, <1>2, StepTypes
  <1>4. LegalStep(problem, c, n) /\ LegalCost(problem, c, n) = StepCost(problem, m)
    BY <1>1, <1>2, StepsAreLegal
  <1>5. Tentative(c, m) = gScore[c] + StepCost(problem, m) /\ gScore[c] \in Nat
    BY DEF Tentative
  <1>6. LegalCost(problem, c, n) \in Nat \ {0}  BY <1>3, <1>4
  <1>7. Tentative(c, m) = gScore[c] + LegalCost(problem, c, n)  BY <1>4, <1>5
  <1>8. Tentative(c, m) \in Nat /\ Tentative(c, m) > gScore[c]  BY <1>5, <1>6, <1>7
  <1> QED  BY <1>2, <1>3, <1>4, <1>7, <1>8
-----------------------------------------------------------------------------
\* Before the first search there is nothing to keep.
LEMMA InitIInv == Init => IInv
  BY DEF Init, IInv, ScoresInv, TreeIsSound

\* A search begins with the start alone, in the heap and with a score.
LEMMA BeginIInv ==
    ASSUME NEW p \in Problem, Begin(p)
    PROVE  IInv'
  <1>1. p.start \in Int \X Int  BY ProblemFacts
  <1>2. problem' = p /\ open' = {<<0, p.start>>} /\ gScore' = [c \in {p.start} |-> 0]
        /\ DOMAIN cameFrom' = {} /\ search' \in {"searching", "none"}
    BY DEF Begin
  <1>3. ScoresInv'  BY <1>1, <1>2 DEF ScoresInv
  <1>4. TreeIsSound'  BY <1>2 DEF TreeIsSound
  <1> QED  BY <1>3, <1>4 DEF IInv

\* Expanding a cell.
LEMMA ExpandIInv ==
    ASSUME IInv, NEW e \in open, Expand(e)
    PROVE  IInv'
  <1> DEFINE cell == e[2]
             better == {After(cell, m) : m \in Improving(cell)}
             tent(n) == Tentative(cell, <<n[1] - cell[1], n[2] - cell[2]>>)
  <1>1. search = "searching" /\ search' = search /\ problem' = problem  BY DEF Expand
  <1>2. /\ problem \in Problem
        /\ DOMAIN gScore \subseteq Int \X Int
        /\ \A c \in DOMAIN gScore : gScore[c] \in Nat
        /\ problem.start \in DOMAIN gScore /\ gScore[problem.start] = 0
        /\ \A f \in open : f[2] \in DOMAIN gScore
        /\ DOMAIN cameFrom \subseteq DOMAIN gScore
    BY <1>1 DEF IInv, ScoresInv
  <1>3. cell \in DOMAIN gScore /\ cell \in Int \X Int  BY <1>2
  <1>4. gScore' = [n \in DOMAIN gScore \union better |->
                     IF n \in better THEN tent(n) ELSE gScore[n]]
    BY DEF Expand
  <1>5. cameFrom' = [n \in DOMAIN cameFrom \union better |->
                       IF n \in better THEN cell ELSE cameFrom[n]]
    BY DEF Expand
  <1>6. open' \subseteq open \union
                 {<<tent(n) + Estimate(problem, n), n>> : n \in better}
    BY DEF Expand
  <1>7. \A n \in better :
           /\ n \in Int \X Int /\ n # cell
           /\ LegalStep(problem, cell, n)
           /\ tent(n) = gScore[cell] + LegalCost(problem, cell, n)
           /\ tent(n) \in Nat /\ tent(n) > gScore[cell]
           /\ n \in DOMAIN gScore => tent(n) < gScore[n]
    BY <1>2, <1>3, Improvements
  <1> HIDE DEF tent, better, cell
  <1>8. problem.start \notin better
    <2> SUFFICES ASSUME problem.start \in better PROVE FALSE  OBVIOUS
    <2>1. tent(problem.start) < 0 /\ tent(problem.start) \in Nat  BY <1>7, <1>2
    <2> QED  BY <2>1
  <1>9. cell \notin better /\ gScore'[cell] = gScore[cell] /\ cell \in DOMAIN gScore'
    BY <1>3, <1>4, <1>7
  <1>10. \A c \in DOMAIN gScore : c \in DOMAIN gScore' /\ gScore'[c] <= gScore[c]
    BY <1>2, <1>4, <1>7
  <1>11. ScoresInv'
    <2>1. DOMAIN gScore' \subseteq Int \X Int  BY <1>2, <1>4, <1>7
    <2>2. \A c \in DOMAIN gScore' : gScore'[c] \in Nat  BY <1>2, <1>4, <1>7
    <2>3. problem.start \in DOMAIN gScore' /\ gScore'[problem.start] = 0
      BY <1>2, <1>4, <1>8
    <2>4. \A f \in open' : f[2] \in DOMAIN gScore'
      <3> SUFFICES ASSUME NEW f \in open' PROVE f[2] \in DOMAIN gScore'  OBVIOUS
      <3>1. CASE f \in open  BY <3>1, <1>2, <1>4
      <3>2. CASE f \in {<<tent(n) + Estimate(problem, n), n>> : n \in better}
        BY <3>2, <1>4
      <3> QED  BY <3>1, <3>2, <1>6
    <2>5. DOMAIN cameFrom' \subseteq DOMAIN gScore'  BY <1>2, <1>4, <1>5
    <2> QED  BY <1>1, <1>2, <2>1, <2>2, <2>3, <2>4, <2>5 DEF ScoresInv
  <1>12. TreeIsSound'
    <2> SUFFICES ASSUME NEW c \in DOMAIN cameFrom'
                 PROVE  /\ c # problem.start
                        /\ cameFrom'[c] \in DOMAIN gScore'
                        /\ LegalStep(problem, cameFrom'[c], c)
                        /\ gScore'[cameFrom'[c]] + LegalCost(problem, cameFrom'[c], c)
                             <= gScore'[c]
      BY <1>1 DEF TreeIsSound
    <2>1. CASE c \in better
      <3>1. cameFrom'[c] = cell /\ gScore'[c] = tent(c)  BY <2>1, <1>4, <1>5
      <3>2. c # problem.start  BY <2>1, <1>8
      <3>3. gScore'[cell] + LegalCost(problem, cell, c) = gScore'[c]
        BY <2>1, <3>1, <1>7, <1>9
      <3>4. gScore'[c] \in Nat  BY <2>1, <3>1, <1>7
      <3> QED  BY <2>1, <3>1, <3>2, <3>3, <3>4, <1>7, <1>9
    <2>2. CASE c \notin better
      <3> DEFINE b == cameFrom[c]
      <3>1. c \in DOMAIN cameFrom /\ cameFrom'[c] = b  BY <2>2, <1>5
      <3>2. /\ c # problem.start /\ b \in DOMAIN gScore
            /\ LegalStep(problem, b, c)
            /\ gScore[b] + LegalCost(problem, b, c) <= gScore[c]
        BY <3>1, <1>1 DEF IInv, TreeIsSound
      <3>3. gScore'[c] = gScore[c] /\ c \in DOMAIN gScore  BY <2>2, <3>1, <1>2, <1>4
      <3>4. b \in DOMAIN gScore' /\ gScore'[b] <= gScore[b]
            /\ gScore'[b] \in Nat /\ gScore[b] \in Nat /\ gScore[c] \in Nat
        BY <3>2, <3>3, <1>2, <1>10, <1>11, <1>1 DEF ScoresInv
      <3>5. LegalCost(problem, b, c) \in Int  BY DEF LegalCost, StepCost
      <3> QED  BY <3>1, <3>2, <3>3, <3>4, <3>5
    <2> QED  BY <2>1, <2>2
  <1> QED  BY <1>11, <1>12 DEF IInv

\* Every step keeps the invariant of the search.
LEMMA NextIInv == IInv /\ [Next]_astarVars => IInv'
  <1> SUFFICES ASSUME IInv, [Next]_astarVars PROVE IInv'  OBVIOUS
  <1>1. ASSUME NEW p \in Problem, Begin(p) PROVE IInv'  BY <1>1, BeginIInv
  <1>2. ASSUME NEW e \in open, Expand(e) PROVE IInv'  BY <1>2, ExpandIInv
  <1>3. ASSUME NEW e \in open, Reach(e) PROVE IInv'
    BY <1>3 DEF Reach, IInv, ScoresInv, TreeIsSound
  <1>4. CASE GiveUp
    BY <1>4 DEF GiveUp, IInv, ScoresInv, TreeIsSound
  <1>5. CASE UNCHANGED astarVars
    BY <1>5 DEF astarVars, IInv, ScoresInv, TreeIsSound
  <1>6. CASE Forget
    BY <1>6 DEF Forget, IInv, ScoresInv, TreeIsSound
  <1> QED  BY <1>1, <1>2, <1>3, <1>4, <1>5, <1>6 DEF Next, Loop

\* The invariant is inductive.
THEOREM InductiveInvariant == Spec => []IInv
  <1> QED  BY InitIInv, NextIInv, PTL DEF Spec

\* In both adapters, for any grid, any obstacles and any estimate: the path read
\* off came_from enters no obstacle, cuts no corner and has no circle.
THEOREM PathsAreLegal == Spec => []TreeIsSound
  <1>1. IInv => TreeIsSound  BY DEF IInv
  <1> QED  BY InductiveInvariant, <1>1, PTL
-----------------------------------------------------------------------------
(***************************************************************************)
(* What the search finds.                                                  *)
(***************************************************************************)
\* A way w of n legal steps from the start to the goal; to come to its i-th cell
\* costs d[i].
IsWay(p, w, d, n) ==
    /\ w \in [0 .. n -> Int \X Int] /\ d \in [0 .. n -> Int]
    /\ w[0] = p.start /\ w[n] = p.goal /\ d[0] = 0
    /\ \A i \in 1 .. n : /\ LegalStep(p, w[i - 1], w[i])
                         /\ d[i] = d[i - 1] + LegalCost(p, w[i - 1], w[i])

\* The search takes every legal step.
LEMMA LegalStepsAreTaken ==
    ASSUME NEW p, p.kind \in {"hm3d", "grid"},
           NEW a \in Int \X Int, NEW b \in Int \X Int, LegalStep(p, a, b)
    PROVE  \E m \in Moves : /\ CanStep(p, a, m) /\ After(a, m) = b
                            /\ StepCost(p, m) = LegalCost(p, a, b)
<1> DEFINE m == <<b[1] - a[1], b[2] - a[2]>>
<1>1. /\ a = <<a[1], a[2]>> /\ b = <<b[1], b[2]>>
      /\ a[1] \in Int /\ a[2] \in Int /\ b[1] \in Int /\ b[2] \in Int
  OBVIOUS
<1>2. b # a /\ Dist(a[1], b[1]) <= 1 /\ Dist(a[2], b[2]) <= 1
  BY DEF LegalStep
<1>3. b[1] - a[1] \in -1 .. 1 /\ b[2] - a[2] \in -1 .. 1
  BY <1>1, <1>2 DEF Dist
<1>4. b[1] # a[1] \/ b[2] # a[2]
  BY <1>1, <1>2
<1>5. m \in Moves
  BY <1>1, <1>3, <1>4 DEF Moves
<1>6. After(a, m) = b /\ a[1] + m[1] = b[1] /\ a[2] + m[2] = b[2]
  BY <1>1 DEF After
<1>7. ASSUME IsDiagonal(m)
      PROVE  p.kind = "hm3d" /\ <<b[1], a[2]>> \notin p.blocked /\ <<a[1], b[2]>> \notin p.blocked
  <2>1. b[1] # a[1] /\ b[2] # a[2]
    BY <1>1, <1>7 DEF IsDiagonal
  <2>2. <<b[1], a[2]>> # a /\ <<a[1], b[2]>> # a
    BY <1>1, <2>1
  <2> QED
    BY <2>1, <2>2 DEF LegalStep
<1>8. b \in Cells(p) /\ b \notin p.blocked
  <2>1. <<b[1], b[2]>> # a
    BY <1>1, <1>2
  <2> QED
    BY <1>1, <2>1 DEF LegalStep
<1> HIDE DEF m
<1>9. CanStep(p, a, m)
  BY <1>6, <1>7, <1>8 DEF CanStep
<1>10. StepCost(p, m) = LegalCost(p, a, b)
  BY DEF LegalCost, m
<1> QED
  BY <1>5, <1>6, <1>9, <1>10

\* There is an integer square root between bounds of the root.
LEMMA RootExists ==
    ASSUME NEW square \in Nat, NEW low \in Nat, NEW high \in Nat,
           low * low <= square, square < (high + 1) * (high + 1)
    PROVE  \E r \in low .. high : r * r <= square /\ square < (r + 1) * (r + 1)
<1> DEFINE Above == {r \in Nat : square < (r + 1) * (r + 1)}
<1>1. high \in Above
  OBVIOUS
<1>2. PICK r \in Above : \A y \in Above : r <= y
  BY <1>1, LeastElement
<1>3. r \in Nat /\ square < (r + 1) * (r + 1) /\ r <= high
  BY <1>1, <1>2
<1>4. r * r <= square
  <2>1. CASE r = 0
    BY <2>1
  <2>2. CASE r # 0
    <3>1. r - 1 \in Nat /\ r - 1 \notin Above
      BY <1>2, <1>3, <2>2
    <3>2. ~(square < ((r - 1) + 1) * ((r - 1) + 1))
      BY <3>1
    <3>3. (r - 1) + 1 = r /\ r * r \in Nat
      BY <1>3
    <3> QED
      BY <3>2, <3>3
  <2> QED
    BY <2>1, <2>2
<1>5. low <= r
  <2> SUFFICES ASSUME r + 1 <= low PROVE FALSE
    BY <1>3
  <2>1. (r + 1) * (r + 1) <= low * low
    BY <1>3
  <2>2. (r + 1) * (r + 1) \in Nat /\ low * low \in Nat
    BY <1>3
  <2> QED
    BY <1>3, <2>1, <2>2
<1> QED
  BY <1>3, <1>4, <1>5

\* The estimate of a vector of cells is no longer than the vector.
LEMMA HypotFacts ==
    ASSUME NEW x \in 0 .. MaxSpan, NEW z \in 0 .. MaxSpan
    PROVE  /\ Hypot[<<x, z>>] \in Nat
           /\ Hypot[<<x, z>>] * Hypot[<<x, z>>] <= 250000 * (x * x + z * z)
<1> DEFINE square == 250000 * (x * x + z * z)
           far == IF x < z THEN z ELSE x
           low == 500 * far
           high == 500 * (x + z)
           IsRoot(r) == r * r <= square /\ square < (r + 1) * (r + 1)
<1>1. x \in Nat /\ z \in Nat /\ MaxSpan \in Nat /\ far \in Nat
  BY SpanAssumption
<1>2. square \in Nat /\ low \in Nat /\ high \in Nat
  BY <1>1
<1>3. low * low <= square
  <2>1. far * far <= x * x + z * z
    <3>1. x * x >= 0 /\ z * z >= 0
      BY <1>1
    <3> QED
      BY <1>1, <3>1
  <2>2. low * low = 250000 * (far * far)
    BY <1>1
  <2> QED
    BY <1>1, <2>1, <2>2
<1>4. square < (high + 1) * (high + 1)
  <2>1. high * high = 250000 * (x * x + z * z) + 500000 * (x * z)
    BY <1>1
  <2>2. x * z >= 0
    BY <1>1
  <2>3. (high + 1) * (high + 1) = high * high + 2 * high + 1
    BY <1>2
  <2> QED
    BY <1>1, <1>2, <2>1, <2>2, <2>3
<1> HIDE DEF square, low, high, far
<1>5. \E r \in low .. high : IsRoot(r)
  BY <1>2, <1>3, <1>4, RootExists
<1>6. Hypot[<<x, z>>] = CHOOSE y \in low .. high : IsRoot(y)
  BY DEF Hypot, square, low, high, far
<1>7. Hypot[<<x, z>>] \in low .. high /\ IsRoot(Hypot[<<x, z>>])
  <2> HIDE DEF IsRoot
  <2> QED
    BY <1>5, <1>6
<1> QED
  BY <1>2, <1>7 DEF square

\* A cell the search may come to.
Reachable(p, c) == c \in Int \X Int /\ (p.kind = "hm3d" => c \in Cells(p))

\* The cost of the way from a cell to the goal if nothing were in it.
Octile(p, c) ==
    LET dx == Dist(p.goal[1], c[1])
        dz == Dist(p.goal[2], c[2])
    IN  IF p.kind = "grid" THEN dx + dz
        ELSE IF dx < dz THEN 500 * dz + 207 * dx ELSE 500 * dx + 207 * dz

\* What the estimate may exceed it by: nothing, or a millimetre for every row
\* or column of the grid.
Excess(p) == IF p.kind = "grid" THEN 0 ELSE IF p.nx < p.nz THEN p.nx ELSE p.nz

\* 0.70711 is not much more than 0.70710.
LEMMA SquaresAreNear ==
    ASSUME NEW a \in Nat, NEW b \in Nat, a <= b, NEW h \in Nat,
           h * h <= 250000 * (a * a + b * b)
    PROVE  h <= 500 * b + 208 * a
<1> DEFINE r == 500 * b + 208 * a
<1> SUFFICES ASSUME r + 1 <= h PROVE FALSE
  OBVIOUS
<1>1. PICK k \in Nat : b = a + k
  <2>1. b - a \in Nat /\ b = a + (b - a)
    OBVIOUS
  <2> QED
    BY <2>1
<1>2. r = 708 * a + 500 * k /\ r \in Nat
  BY <1>1
<1>3. r * r = 501264 * (a * a) + 708000 * (a * k) + 250000 * (k * k)
  BY <1>2
<1>4. a * a + b * b = 2 * (a * a) + 2 * (a * k) + k * k
  BY <1>1
<1>5. a * a \in Nat /\ a * k \in Nat /\ k * k \in Nat
  OBVIOUS
<1>6. 250000 * (a * a + b * b) <= r * r
  BY <1>3, <1>4, <1>5
<1> HIDE DEF r
<1>7. (r + 1) * (r + 1) <= h * h /\ (r + 1) * (r + 1) > r * r
  BY <1>2
<1>8. h * h \in Nat /\ r * r \in Nat /\ (r + 1) * (r + 1) \in Nat
  BY <1>2
<1> QED
  BY <1>5, <1>6, <1>7, <1>8

\* The estimate is no higher than the octile distance, but for the rounding.
LEMMA EstimateIsNear ==
    ASSUME NEW p \in Problem, InGrid(p), NEW c, Reachable(p, c)
    PROVE  /\ Estimate(p, c) \in Nat /\ Octile(p, c) \in Nat /\ Excess(p) \in Nat
           /\ Estimate(p, c) <= Octile(p, c) + Excess(p)
           /\ Estimate(p, p.goal) = 0 /\ Octile(p, p.goal) = 0
<1> DEFINE x == Dist(p.goal[1], c[1])
           z == Dist(p.goal[2], c[2])
<1>1. /\ p.kind \in {"hm3d", "grid"} /\ p.nx \in Nat /\ p.nz \in Nat
      /\ p.goal \in Int \X Int /\ c \in Int \X Int
  BY ProblemFacts DEF Reachable
<1>2. x \in Nat /\ z \in Nat
  BY <1>1 DEF Dist
<1>3. Dist(p.goal[1], p.goal[1]) = 0 /\ Dist(p.goal[2], p.goal[2]) = 0
  BY <1>1 DEF Dist
<1>4. Octile(p, c) \in Nat /\ Excess(p) \in Nat /\ Octile(p, p.goal) = 0
  <2> HIDE DEF x, z
  <2>1. Excess(p) \in Nat /\ Octile(p, p.goal) = 0
    BY <1>1, <1>3 DEF Excess, Octile
  <2>2. Octile(p, c) \in Nat
    BY <1>2 DEF Octile, x, z
  <2> QED
    BY <2>1, <2>2
<1>5. CASE p.kind = "grid"
  BY <1>1, <1>2, <1>3, <1>4, <1>5 DEF Estimate, Octile
<1>6. CASE p.kind = "hm3d"
  <2>1. /\ c \in Cells(p) /\ p.goal \in Cells(p)
        /\ p.nx <= MaxSpan /\ p.nz <= MaxSpan /\ MaxSpan \in Nat
    BY <1>6, SpanAssumption, ProblemFacts DEF InGrid, Reachable
  <2>2. /\ c[1] \in 0 .. p.nx - 1 /\ c[2] \in 0 .. p.nz - 1
        /\ p.goal[1] \in 0 .. p.nx - 1 /\ p.goal[2] \in 0 .. p.nz - 1
    BY <2>1 DEF Cells
  <2>3. x < p.nx /\ z < p.nz
    BY <1>1, <2>2 DEF Dist
  <2>4. Estimate(p, c) = Hypot[<<x, z>>] /\ Estimate(p, p.goal) = Hypot[<<0, 0>>]
    BY <1>3, <1>6 DEF Estimate
  <2> HIDE DEF x, z
  <2>5. x \in 0 .. MaxSpan /\ z \in 0 .. MaxSpan /\ 0 \in 0 .. MaxSpan
    BY <1>1, <1>2, <2>1, <2>3
  <2>6. Hypot[<<x, z>>] \in Nat /\ Hypot[<<x, z>>] * Hypot[<<x, z>>] <= 250000 * (x * x + z * z)
    BY <2>5, HypotFacts
  <2>7. Estimate(p, p.goal) = 0
    <3>1. Hypot[<<0, 0>>] \in Nat /\ Hypot[<<0, 0>>] * Hypot[<<0, 0>>] <= 250000 * (0 * 0 + 0 * 0)
      BY <2>5, HypotFacts
    <3>2. Hypot[<<0, 0>>] <= 500 * 0 + 208 * 0
      BY <3>1, SquaresAreNear
    <3> QED
      BY <2>4, <3>1, <3>2
  <2>8. Octile(p, c) = IF x < z THEN 500 * z + 207 * x ELSE 500 * x + 207 * z
    BY <1>6 DEF Octile, x, z
  <2>9. Hypot[<<x, z>>] <= Octile(p, c) + Excess(p)
    <3>1. CASE x < z
      <4>1. Hypot[<<x, z>>] <= 500 * z + 208 * x
        BY <1>2, <2>6, <3>1, SquaresAreNear
      <4> QED
        BY <1>1, <1>2, <1>6, <2>3, <2>6, <2>8, <3>1, <4>1 DEF Excess
    <3>2. CASE z <= x
      <4>1. Hypot[<<x, z>>] <= 500 * x + 208 * z
        <5>1. x * x + z * z = z * z + x * x
          BY <1>2
        <5> QED
          BY <1>2, <2>6, <3>2, <5>1, SquaresAreNear
      <4> QED
        BY <1>1, <1>2, <1>6, <2>3, <2>6, <2>8, <3>2, <4>1 DEF Excess
    <3> QED
      BY <1>2, <3>1, <3>2
  <2> QED
    BY <1>4, <2>4, <2>6, <2>7, <2>9
<1> QED
  BY <1>1, <1>5, <1>6

\* A step brings no cell nearer to the goal than it costs.
LEMMA OctileFalls ==
    ASSUME NEW p \in Problem, NEW a \in Int \X Int, NEW b \in Int \X Int, LegalStep(p, a, b)
    PROVE  /\ LegalCost(p, a, b) \in Nat
           /\ Octile(p, a) <= LegalCost(p, a, b) + Octile(p, b)
<1> DEFINE g == p.goal
           xa == Dist(g[1], a[1])
           za == Dist(g[2], a[2])
           xb == Dist(g[1], b[1])
           zb == Dist(g[2], b[2])
           dx == b[1] - a[1]
           dz == b[2] - a[2]
<1>1. /\ p.kind \in {"hm3d", "grid"} /\ g[1] \in Int /\ g[2] \in Int
      /\ a[1] \in Int /\ a[2] \in Int /\ b[1] \in Int /\ b[2] \in Int
      /\ a = <<a[1], a[2]>> /\ b = <<b[1], b[2]>>
  BY ProblemFacts
<1>2. /\ Dist(a[1], b[1]) <= 1 /\ Dist(a[2], b[2]) <= 1 /\ (dx # 0 \/ dz # 0)
      /\ p.kind = "grid" => dx = 0 \/ dz = 0
  BY <1>1 DEF LegalStep
<1>3. dx \in {-1, 0, 1} /\ dz \in {-1, 0, 1}
  BY <1>1, <1>2 DEF Dist
<1>4. xa \in Nat /\ za \in Nat /\ xb \in Nat /\ zb \in Nat
  BY <1>1 DEF Dist
<1>5. /\ dx = 0 => xa = xb
      /\ dx # 0 => xa <= xb + 1 /\ xb <= xa + 1
      /\ dz = 0 => za = zb
      /\ dz # 0 => za <= zb + 1 /\ zb <= za + 1
  BY <1>1, <1>3 DEF Dist
<1>6. LegalCost(p, a, b) = IF p.kind = "grid" THEN 1 ELSE IF dx # 0 /\ dz # 0 THEN 707 ELSE 500
  BY DEF LegalCost, StepCost, IsDiagonal
<1>7. /\ Octile(p, a) = IF p.kind = "grid" THEN xa + za
                        ELSE IF xa < za THEN 500 * za + 207 * xa ELSE 500 * xa + 207 * za
      /\ Octile(p, b) = IF p.kind = "grid" THEN xb + zb
                        ELSE IF xb < zb THEN 500 * zb + 207 * xb ELSE 500 * xb + 207 * zb
  BY DEF Octile
<1> HIDE DEF xa, za, xb, zb, dx, dz
<1>8. LegalCost(p, a, b) \in Nat
  BY <1>6
<1>9. CASE p.kind = "grid"
  BY <1>2, <1>4, <1>5, <1>6, <1>7, <1>9
<1>10. CASE p.kind = "hm3d"
  <2>1. CASE dx # 0 /\ dz # 0
    BY <1>4, <1>5, <1>6, <1>7, <1>10, <2>1
  <2>2. CASE dx = 0
    BY <1>2, <1>4, <1>5, <1>6, <1>7, <1>10, <2>2
  <2>3. CASE dz = 0
    BY <1>2, <1>4, <1>5, <1>6, <1>7, <1>10, <2>3
  <2> QED
    BY <2>1, <2>2, <2>3
<1> QED
  BY <1>1, <1>8, <1>9, <1>10

\* The rest of a way costs what lies between its cells and the goal at least.
LEMMA RestIsNoLess ==
    ASSUME NEW p \in Problem, InGrid(p), NEW n \in Nat, NEW w, NEW d, IsWay(p, w, d, n)
    PROVE  \A i \in 0 .. n : Reachable(p, w[i]) /\ d[i] + Octile(p, w[i]) <= d[n]
<1>1. /\ w \in [0 .. n -> Int \X Int] /\ d \in [0 .. n -> Int]
      /\ w[0] = p.start /\ w[n] = p.goal /\ d[0] = 0
      /\ \A i \in 1 .. n : /\ LegalStep(p, w[i - 1], w[i])
                           /\ d[i] = d[i - 1] + LegalCost(p, w[i - 1], w[i])
  BY DEF IsWay
<1>2. \A i \in 0 .. n : Reachable(p, w[i])
  <2> SUFFICES ASSUME NEW i \in 0 .. n, p.kind = "hm3d" PROVE w[i] \in Cells(p)
    BY <1>1 DEF Reachable
  <2>1. CASE i = 0
    BY <1>1, <2>1 DEF InGrid
  <2>2. CASE i # 0
    <3>1. i \in 1 .. n
      BY <2>2
    <3> QED
      BY <1>1, <3>1 DEF LegalStep
  <2> QED
    BY <2>1, <2>2
<1>3. \A i \in 0 .. n : Octile(p, w[i]) \in Nat /\ d[i] \in Int
  BY <1>1, <1>2, EstimateIsNear
<1>4. Octile(p, w[n]) = 0
  BY <1>1, <1>2, EstimateIsNear
<1> DEFINE Bad == {k \in 0 .. n : ~(d[n - k] + Octile(p, w[n - k]) <= d[n])}
<1>5. Bad = {}
  <2> SUFFICES ASSUME Bad # {} PROVE FALSE
    OBVIOUS
  <2>1. Bad \in SUBSET Nat
    OBVIOUS
  <2>2. PICK k \in Bad : \A l \in Bad : k <= l
    BY <2>1, LeastElement
  <2>3. k \in 0 .. n /\ ~(d[n - k] + Octile(p, w[n - k]) <= d[n])
    BY <2>2
  <2>4. k # 0
    <3> SUFFICES ASSUME k = 0 PROVE FALSE
      OBVIOUS
    <3>1. n - k = n
      OBVIOUS
    <3> QED
      BY <1>3, <1>4, <2>3, <3>1
  <2>5. PICK i \in 1 .. n : i = n - (k - 1)
    BY <2>3, <2>4
  <2>6. i - 1 = n - k /\ k - 1 \in 0 .. n /\ i \in 0 .. n /\ i - 1 \in 0 .. n
    BY <2>3, <2>4, <2>5
  <2>7. d[i] + Octile(p, w[i]) <= d[n]
    <3>1. k - 1 \notin Bad
      BY <2>2, <2>3
    <3> QED
      BY <2>5, <2>6, <3>1
  <2>8. LegalStep(p, w[i - 1], w[i]) /\ d[i] = d[i - 1] + LegalCost(p, w[i - 1], w[i])
    BY <1>1
  <2>9. w[i - 1] \in Int \X Int /\ w[i] \in Int \X Int
    BY <1>1, <2>6
  <2>10. /\ LegalCost(p, w[i - 1], w[i]) \in Nat
         /\ Octile(p, w[i - 1]) <= LegalCost(p, w[i - 1], w[i]) + Octile(p, w[i])
    BY <2>8, <2>9, OctileFalls
  <2>11. ~(d[i - 1] + Octile(p, w[i - 1]) <= d[n])
    BY <2>3, <2>6
  <2>12. /\ d[i - 1] \in Int /\ d[i] \in Int /\ d[n] \in Int
         /\ Octile(p, w[i - 1]) \in Nat /\ Octile(p, w[i]) \in Nat
    BY <1>3, <2>6
  <2> QED
    BY <2>7, <2>8, <2>10, <2>11, <2>12
<1>6. ASSUME NEW i \in 0 .. n PROVE d[i] + Octile(p, w[i]) <= d[n]
  <2>1. n - i \in 0 .. n /\ n - (n - i) = i
    OBVIOUS
  <2>2. n - i \notin Bad
    BY <1>5
  <2> QED
    BY <2>1, <2>2
<1> QED
  BY <1>2, <1>6

\* Cells that were reached can have been.
LEMMA ReachedCells ==
    ASSUME IInv, HeapInv, search # "idle", InGrid(problem), NEW c \in DOMAIN gScore
    PROVE  /\ problem \in Problem /\ Reachable(problem, c)
           /\ gScore[c] \in Nat /\ Estimate(problem, c) \in Nat
<1>1. /\ problem \in Problem /\ c \in Int \X Int /\ gScore[c] \in Nat
      /\ c \in Cells(problem) \union {problem.start}
  BY DEF IInv, ScoresInv, HeapInv
<1>2. Reachable(problem, c)
  BY <1>1 DEF Reachable, InGrid
<1> QED
  BY <1>1, <1>2, EstimateIsNear

\* At the beginning of a search the heap holds the start.
LEMMA BeginHeap ==
    ASSUME NEW p \in Problem, Begin(p)
    PROVE  HeapInv'
<1>1. /\ problem' = p /\ open' = {<<0, p.start>>} /\ gScore' = [c \in {p.start} |-> 0]
      /\ search' = IF p.kind = "hm3d" /\ ~({p.start, p.goal} \subseteq Cells(p))
                   THEN "none" ELSE "searching"
  BY DEF Begin
<1>2. search' = "searching" <=> InGrid(p)
  BY <1>1 DEF InGrid
<1>3. ASSUME InGrid(p)
      PROVE  Queued(p.start)'
  <2>1. Reachable(p, p.start)
    BY <1>3, ProblemFacts DEF InGrid, Reachable
  <2>2. Estimate(p, p.start) \in Nat
    BY <1>3, <2>1, EstimateIsNear
  <2>3. gScore'[p.start] = 0 /\ <<0, p.start>> \in open'
    BY <1>1
  <2>4. 0 <= gScore'[p.start] + Estimate(problem', p.start)
    BY <1>1, <2>2, <2>3
  <2> QED
    BY <2>3, <2>4 DEF Queued
<1>4. /\ DOMAIN gScore' = {p.start} /\ DOMAIN gScore' \subseteq DOMAIN cameFrom' \union {p.start} /\ gScore'[p.start] = 0
      /\ search' \in {"none", "searching"}
  BY <1>1
<1>5. InGrid(problem') = InGrid(p)
  BY <1>1
<1>6. \A e \in open' : e[1] \in Nat /\ gScore'[e[2]] <= e[1]
  BY <1>1
<1> QED
  BY <1>1, <1>2, <1>3, <1>4, <1>5, <1>6 DEF HeapInv

\* Expanding a cell settles it, and puts into the heap what it improves.
LEMMA ExpandHeap ==
    ASSUME IInv, HeapInv, NEW e \in open, Expand(e)
    PROVE  HeapInv'
<1> DEFINE cell == e[2]
           better == {After(cell, m) : m \in Improving(cell)}
           tent(n) == Tentative(cell, <<n[1] - cell[1], n[2] - cell[2]>>)
           pushed(n) == <<tent(n) + Estimate(problem, n), n>>
<1>1. /\ search = "searching" /\ search' = search /\ problem' = problem
      /\ cell # problem.goal
  BY DEF Expand
<1>2. /\ problem \in Problem /\ InGrid(problem)
      /\ \A c \in DOMAIN gScore : /\ c \in Int \X Int /\ gScore[c] \in Nat
                                  /\ Reachable(problem, c)
      /\ \A f \in open : f[2] \in DOMAIN gScore /\ f[1] \in Nat /\ gScore[f[2]] <= f[1]
      /\ \A c \in DOMAIN gScore : Queued(c) \/ (c # problem.goal /\ Expanded(c))
      /\ DOMAIN gScore \subseteq Cells(problem) \union {problem.start}
  BY <1>1, ReachedCells DEF IInv, ScoresInv, HeapInv
<1>3. cell \in DOMAIN gScore /\ cell \in Int \X Int
  BY <1>2
<1>4. gScore' = [n \in DOMAIN gScore \union better |->
                   IF n \in better THEN tent(n) ELSE gScore[n]]
  BY DEF Expand
<1>5. open' = (open \ {e}) \union {pushed(n) : n \in better}
  BY DEF Expand
<1>6. \A n \in better :
         /\ n \in Int \X Int /\ n # cell
         /\ LegalStep(problem, cell, n)
         /\ tent(n) \in Nat
         /\ n \in DOMAIN gScore => tent(n) < gScore[n]
  BY <1>2, <1>3, Improvements
<1>7. \A n \in better : n \in Cells(problem) /\ Reachable(problem, n) /\ Estimate(problem, n) \in Nat
  <2> SUFFICES ASSUME NEW n \in better
               PROVE  n \in Cells(problem) /\ Reachable(problem, n) /\ Estimate(problem, n) \in Nat
    OBVIOUS
  <2>1. n \in Cells(problem) /\ n \in Int \X Int
    BY <1>6 DEF LegalStep
  <2>2. Reachable(problem, n)
    BY <2>1 DEF Reachable
  <2> QED
    BY <1>2, <2>1, <2>2, EstimateIsNear
<1>8. ASSUME NEW m \in Moves, CanStep(problem, cell, m)
      PROVE  \/ After(cell, m) \in better
             \/ /\ After(cell, m) \in DOMAIN gScore
                /\ gScore[After(cell, m)] <= gScore[cell] + StepCost(problem, m)
  <2> DEFINE n == After(cell, m)
  <2>1. CASE m \in Improving(cell)
    BY <2>1
  <2>2. CASE m \notin Improving(cell)
    <3>1. n \in DOMAIN gScore /\ ~(Tentative(cell, m) < gScore[n])
      BY <1>8, <2>2 DEF Improving
    <3>2. Tentative(cell, m) = gScore[cell] + StepCost(problem, m) /\ StepCost(problem, m) \in Nat
      BY DEF Tentative, StepCost
    <3>3. gScore[cell] \in Nat /\ gScore[n] \in Nat
      BY <1>2, <1>3, <3>1
    <3> QED
      BY <3>1, <3>2, <3>3
  <2> QED
    BY <2>1, <2>2
<1>9. ASSUME NEW m \in Moves, After(cell, m) \in better
      PROVE  tent(After(cell, m)) = gScore[cell] + StepCost(problem, m)
  <2>1. <<After(cell, m)[1] - cell[1], After(cell, m)[2] - cell[2]>> = m
    BY <1>3, StepTypes
  <2> QED
    BY <2>1 DEF Tentative
<1> HIDE DEF tent, better, cell
<1>10. /\ \A c \in DOMAIN gScore : c \in DOMAIN gScore' /\ gScore'[c] <= gScore[c]
       /\ \A c \in DOMAIN gScore' : gScore'[c] \in Nat
       /\ \A n \in better : n \in DOMAIN gScore' /\ gScore'[n] = tent(n)
       /\ \A c \in DOMAIN gScore : c \notin better => gScore'[c] = gScore[c]
  BY <1>2, <1>4, <1>6
<1>11. cell \in DOMAIN gScore' /\ gScore'[cell] = gScore[cell]
  BY <1>3, <1>6, <1>10
<1>12. /\ DOMAIN gScore' \subseteq Cells(problem) \union {problem.start}
       /\ DOMAIN gScore' \subseteq DOMAIN cameFrom' \union {problem.start}
  <2>1. DOMAIN gScore \subseteq DOMAIN cameFrom \union {problem.start}
    BY <1>1, <1>2 DEF HeapInv
  <2>2. DOMAIN cameFrom' = DOMAIN cameFrom \union better
    BY DEF Expand, better, cell
  <2> QED
    BY <1>2, <1>4, <1>7, <2>1, <2>2
<1>13. ASSUME NEW f \in open'
       PROVE  f[1] \in Nat /\ gScore'[f[2]] <= f[1]
  <2>1. CASE f \in open
    BY <1>2, <1>10, <2>1
  <2>2. CASE f \notin open
    <3>1. PICK n \in better : f = pushed(n)
      BY <1>5, <2>2
    <3>2. f[1] = tent(n) + Estimate(problem, n) /\ f[2] = n
      BY <3>1
    <3>3. tent(n) \in Nat /\ Estimate(problem, n) \in Nat /\ gScore'[n] = tent(n)
      BY <1>6, <1>7, <1>10
    <3> QED
      BY <3>2, <3>3
  <2> QED
    BY <2>1, <2>2
<1>14. Expanded(cell)'
  <2> SUFFICES ASSUME NEW m \in Moves, CanStep(problem, cell, m)
               PROVE  /\ After(cell, m) \in DOMAIN gScore'
                      /\ gScore'[After(cell, m)] <= gScore'[cell] + StepCost(problem, m)
    BY <1>1, <1>11 DEF Expanded
  <2> DEFINE n == After(cell, m)
  <2>1. StepCost(problem, m) \in Nat /\ gScore[cell] \in Nat
    BY <1>2, <1>3 DEF StepCost
  <2>2. CASE n \in better
    BY <1>9, <1>10, <1>11, <2>1, <2>2
  <2>3. CASE n \notin better
    <3>1. n \in DOMAIN gScore /\ gScore[n] <= gScore[cell] + StepCost(problem, m)
      BY <1>8, <2>3
    <3>2. n \in DOMAIN gScore' /\ gScore'[n] = gScore[n]
      BY <1>10, <2>3, <3>1
    <3> QED
      BY <1>11, <3>1, <3>2
  <2> QED
    BY <2>2, <2>3
<1>15. ASSUME NEW n \in better
       PROVE  Queued(n)'
  <2>1. pushed(n) \in open' /\ pushed(n)[2] = n
    BY <1>5
  <2>2. pushed(n)[1] = gScore'[n] + Estimate(problem', n)
    BY <1>1, <1>10
  <2>3. gScore'[n] + Estimate(problem', n) \in Nat
    BY <1>1, <1>6, <1>7, <1>10
  <2>4. pushed(n)[1] <= gScore'[n] + Estimate(problem', n)
    BY <2>2, <2>3
  <2> QED
    BY <2>1, <2>4 DEF Queued
<1>16. ASSUME NEW c \in DOMAIN gScore', c # cell, c \notin better
       PROVE  Queued(c)' \/ (c # problem.goal /\ Expanded(c)')
  <2>1. c \in DOMAIN gScore /\ gScore'[c] = gScore[c]
    BY <1>4, <1>16
  <2>2. CASE Queued(c)
    <3>1. PICK f \in open : f[2] = c /\ f[1] <= gScore[c] + Estimate(problem, c)
      BY <2>2 DEF Queued
    <3>2. f \in open'
      BY <1>5, <1>16, <3>1 DEF cell
    <3> QED
      BY <1>1, <2>1, <3>1, <3>2 DEF Queued
  <2>3. CASE c # problem.goal /\ Expanded(c)
    <3> SUFFICES ASSUME NEW m \in Moves, CanStep(problem, c, m)
                 PROVE  /\ After(c, m) \in DOMAIN gScore'
                        /\ gScore'[After(c, m)] <= gScore'[c] + StepCost(problem, m)
      BY <1>1, <2>3 DEF Expanded
    <3> DEFINE n == After(c, m)
    <3>1. n \in DOMAIN gScore /\ gScore[n] <= gScore[c] + StepCost(problem, m)
      BY <2>3 DEF Expanded
    <3>2. n \in DOMAIN gScore' /\ gScore'[n] <= gScore[n]
      BY <1>10, <3>1
    <3>3. /\ gScore[n] \in Nat /\ gScore'[n] \in Nat /\ gScore[c] \in Nat
          /\ StepCost(problem, m) \in Nat
      BY <1>2, <1>10, <2>1, <3>1, <3>2 DEF StepCost
    <3> HIDE DEF n
    <3>4. gScore'[n] <= gScore'[c] + StepCost(problem, m)
      BY <2>1, <3>1, <3>2, <3>3
    <3> QED
      BY <3>2, <3>4 DEF n
  <2> QED
    BY <1>2, <2>1, <2>2, <2>3
<1>17. \A c \in DOMAIN gScore' : Queued(c)' \/ (c # problem.goal /\ Expanded(c)')
  BY <1>1, <1>14, <1>15, <1>16
<1>18. InGrid(problem')
  BY <1>1, <1>2
<1> QED
  BY <1>1, <1>12, <1>13, <1>17, <1>18 DEF HeapInv

\* The least entry is the goal's, and no entry promises less.
LEMMA ReachHeap ==
    ASSUME IInv, HeapInv, NEW e \in open, Reach(e)
    PROVE  HeapInv'
<1>1. /\ search = "searching" /\ search' = "found" /\ e[2] = problem.goal
      /\ UNCHANGED <<problem, open, gScore, cameFrom>>
      /\ \A f \in open : f = e \/ Before(e, f)
  BY DEF Reach, Popped
<1>2. /\ InGrid(problem)
      /\ DOMAIN gScore \subseteq Cells(problem) \union {problem.start}
      /\ DOMAIN gScore \subseteq DOMAIN cameFrom \union {problem.start}
      /\ \A f \in open : f[1] \in Nat /\ gScore[f[2]] <= f[1]
      /\ \A c \in DOMAIN gScore : Queued(c) \/ (c # problem.goal /\ Expanded(c))
  BY <1>1 DEF HeapInv
<1>3. \A f \in open : e[1] <= f[1]
  BY <1>1, <1>2 DEF Before
<1>4. \A c \in DOMAIN gScore : Queued(c)' = Queued(c) /\ Expanded(c)' = Expanded(c)
  BY <1>1 DEF Queued, Expanded
<1> QED
  BY <1>1, <1>2, <1>3, <1>4 DEF HeapInv

\* Every step keeps the invariant of the heap.
LEMMA NextHeap == IInv /\ HeapInv /\ [Next]_astarVars => HeapInv'
<1> SUFFICES ASSUME IInv, HeapInv, [Next]_astarVars PROVE HeapInv'
  OBVIOUS
<1>1. ASSUME NEW p \in Problem, Begin(p) PROVE HeapInv'
  BY <1>1, BeginHeap
<1>2. ASSUME NEW e \in open, Expand(e) PROVE HeapInv'
  BY <1>2, ExpandHeap
<1>3. ASSUME NEW e \in open, Reach(e) PROVE HeapInv'
  BY <1>3, ReachHeap
<1>4. CASE GiveUp
  <2>1. /\ search = "searching" /\ search' = "none" /\ open = {}
        /\ UNCHANGED <<problem, open, gScore, cameFrom>>
    BY <1>4 DEF GiveUp
  <2>2. \A c \in DOMAIN gScore : Queued(c)' = Queued(c) /\ Expanded(c)' = Expanded(c)
    BY <2>1 DEF Queued, Expanded
  <2> QED
    BY <2>1, <2>2 DEF HeapInv
<1>5. CASE UNCHANGED astarVars
  <2>1. UNCHANGED <<problem, open, gScore, cameFrom, search>>
    BY <1>5 DEF astarVars
  <2>2. \A c \in DOMAIN gScore : Queued(c)' = Queued(c) /\ Expanded(c)' = Expanded(c)
    BY <2>1 DEF Queued, Expanded
  <2> QED
    BY <2>1, <2>2 DEF HeapInv
<1>6. CASE Forget
  BY <1>6 DEF Forget, HeapInv
<1> QED
  BY <1>1, <1>2, <1>3, <1>4, <1>5, <1>6 DEF Next, Loop

\* Somewhere on every legal way the heap holds a cell that was reached at no
\* more than its cost on the way: if not before, then the goal.
LEMMA SomeCellWaits ==
    ASSUME IInv, HeapInv, search # "idle", InGrid(problem),
           NEW n \in Nat, NEW w, NEW d, IsWay(problem, w, d, n)
    PROVE  \E i \in 0 .. n :
               w[i] \in DOMAIN gScore /\ gScore[w[i]] <= d[i] /\ Queued(w[i])
<1>1. /\ w \in [0 .. n -> Int \X Int] /\ d \in [0 .. n -> Int]
      /\ w[0] = problem.start /\ w[n] = problem.goal /\ d[0] = 0
      /\ \A i \in 1 .. n : /\ LegalStep(problem, w[i - 1], w[i])
                           /\ d[i] = d[i - 1] + LegalCost(problem, w[i - 1], w[i])
  BY DEF IsWay
<1>2. /\ problem \in Problem /\ problem.kind \in {"hm3d", "grid"}
      /\ problem.start \in DOMAIN gScore /\ gScore[problem.start] = 0
      /\ \A c \in DOMAIN gScore : gScore[c] \in Nat
      /\ \A c \in DOMAIN gScore : Queued(c) \/ (c # problem.goal /\ Expanded(c))
  BY ProblemFacts DEF IInv, ScoresInv, HeapInv
<1> DEFINE Come(i) == w[i] \in DOMAIN gScore /\ gScore[w[i]] <= d[i]
           Missed == {i \in 0 .. n : ~Come(i)}
<1>3. CASE Missed = {}
  <2>1. n \in 0 .. n /\ n \notin Missed
    BY <1>3
  <2>2. w[n] \in DOMAIN gScore /\ gScore[w[n]] <= d[n]
    BY <2>1
  <2>3. Queued(w[n])
    BY <1>1, <1>2, <2>2
  <2> QED
    BY <2>1, <2>2, <2>3
<1>4. CASE Missed # {}
  <2>1. Missed \in SUBSET Nat
    OBVIOUS
  <2>2. PICK i \in Missed : \A j \in Missed : i <= j
    BY <1>4, <2>1, LeastElement
  <2>3. i \in 0 .. n /\ ~Come(i)
    BY <2>2
  <2>4. Come(0)
    BY <1>1, <1>2
  <2>5. i \in 1 .. n /\ i - 1 \in 0 .. n /\ i - 1 \notin Missed
    BY <2>2, <2>3, <2>4
  <2>6. Come(i - 1)
    BY <2>5
  <2>7. CASE Queued(w[i - 1])
    BY <2>5, <2>6, <2>7
  <2>8. CASE Expanded(w[i - 1])
    <3>1. LegalStep(problem, w[i - 1], w[i]) /\ d[i] = d[i - 1] + LegalCost(problem, w[i - 1], w[i])
      BY <1>1, <2>5
    <3>2. w[i - 1] \in Int \X Int /\ w[i] \in Int \X Int /\ d[i - 1] \in Int
      BY <1>1, <2>3, <2>5
    <3>3. PICK m \in Moves : /\ CanStep(problem, w[i - 1], m) /\ After(w[i - 1], m) = w[i]
                             /\ StepCost(problem, m) = LegalCost(problem, w[i - 1], w[i])
      BY <1>2, <3>1, <3>2, LegalStepsAreTaken
    <3>4. /\ w[i] \in DOMAIN gScore
          /\ gScore[w[i]] <= gScore[w[i - 1]] + StepCost(problem, m)
      BY <2>8, <3>3 DEF Expanded
    <3>5. /\ gScore[w[i]] \in Nat /\ gScore[w[i - 1]] \in Nat
          /\ LegalCost(problem, w[i - 1], w[i]) \in Nat
      BY <1>2, <2>6, <3>1, <3>2, <3>4, OctileFalls
    <3>6. gScore[w[i]] <= d[i]
      BY <2>6, <3>1, <3>2, <3>3, <3>4, <3>5
    <3> QED
      BY <2>3, <3>4, <3>6
  <2> QED
    BY <1>2, <2>6, <2>7, <2>8
<1> QED
  BY <1>3, <1>4

\* Between the heap, the scores and the grid, in every state.
THEOREM HeapInvariant == Spec => []HeapInv
<1>1. Init => HeapInv
  BY DEF Init, HeapInv
<1> QED
  BY <1>1, InitIInv, NextIInv, NextHeap, PTL DEF Spec

\* docs/embodied_intelligence_navigation.md:100 promises that A* is complete:
\* when it gives up, on whatever grid, there is no legal way to the goal.
NoWayIsMissed ==
    search = "none" /\ InGrid(problem) =>
        \A n \in Nat : \A w, d : ~IsWay(problem, w, d, n)

\* The heap of _astar_2d and _astar_path runs empty only when no way is left: of
\* any way some cell would still wait in it.
THEOREM SearchIsComplete == Spec => []NoWayIsMissed
<1>1. ASSUME IInv, HeapInv PROVE NoWayIsMissed
  <2> SUFFICES ASSUME search = "none", InGrid(problem), NEW n \in Nat, NEW w, NEW d,
                      IsWay(problem, w, d, n)
               PROVE  FALSE
    BY DEF NoWayIsMissed
  <2>1. open = {}
    BY <1>1 DEF HeapInv
  <2>2. PICK i \in 0 .. n : Queued(w[i])
    BY <1>1, SomeCellWaits
  <2> QED
    BY <2>1, <2>2 DEF Queued
<1> QED
  BY <1>1, InductiveInvariant, HeapInvariant, PTL

\* came_from, read from a cell back to the start and reversed.
Chain(s, c) ==
    /\ s \in Seq(Int \X Int) /\ Len(s) >= 1
    /\ s[1] = problem.start /\ s[Len(s)] = c
    /\ \A i \in 2 .. Len(s) : s[i] \in DOMAIN cameFrom /\ s[i - 1] = cameFrom[s[i]]

\* Among cells that were reached and have a property there is one with the least
\* score.
LEMMA LeastScore ==
    ASSUME NEW T, T \subseteq DOMAIN gScore, T # {}, \A c \in T : gScore[c] \in Nat
    PROVE  \E c \in T : \A b \in T : gScore[c] <= gScore[b]
<1> DEFINE scores == {gScore[c] : c \in T}
<1>1. scores \in SUBSET Nat /\ scores # {}
  OBVIOUS
<1>2. PICK k \in scores : \A l \in scores : k <= l
  BY <1>1, LeastElement
<1>3. PICK c \in T : k = gScore[c]
  BY <1>2
<1> QED
  BY <1>2, <1>3

\* What a cell hangs on has a lower score.
LEMMA Hangs ==
    ASSUME IInv, HeapInv, search # "idle", InGrid(problem), NEW c \in DOMAIN gScore
    PROVE  /\ c \in Int \X Int /\ gScore[c] \in Nat
           /\ problem.start \notin DOMAIN cameFrom
           /\ c = problem.start \/ c \in DOMAIN cameFrom
           /\ c \in DOMAIN cameFrom =>
                /\ cameFrom[c] \in DOMAIN gScore /\ gScore[cameFrom[c]] < gScore[c]
                /\ LegalStep(problem, cameFrom[c], c)
                /\ gScore[cameFrom[c]] + LegalCost(problem, cameFrom[c], c) <= gScore[c]
<1>1. /\ c \in Int \X Int /\ gScore[c] \in Nat
      /\ problem.start \notin DOMAIN cameFrom
      /\ c = problem.start \/ c \in DOMAIN cameFrom
  BY DEF IInv, ScoresInv, TreeIsSound, HeapInv
<1>2. ASSUME c \in DOMAIN cameFrom
      PROVE  /\ cameFrom[c] \in DOMAIN gScore /\ gScore[cameFrom[c]] < gScore[c]
             /\ LegalStep(problem, cameFrom[c], c)
             /\ gScore[cameFrom[c]] + LegalCost(problem, cameFrom[c], c) <= gScore[c]
  <2>1. /\ cameFrom[c] \in DOMAIN gScore /\ LegalStep(problem, cameFrom[c], c)
        /\ gScore[cameFrom[c]] + LegalCost(problem, cameFrom[c], c) <= gScore[c]
    BY <1>2 DEF IInv, TreeIsSound
  <2>2. gScore[cameFrom[c]] \in Nat
    BY <2>1 DEF IInv, ScoresInv
  <2>3. LegalCost(problem, cameFrom[c], c) \in Nat \ {0}
    BY DEF LegalCost, StepCost
  <2> QED
    BY <1>1, <2>1, <2>2, <2>3
<1> QED
  BY <1>1, <1>2

\* A chain of the cell a cell hangs on goes on to it.
LEMMA ChainGoesOn ==
    ASSUME NEW c \in DOMAIN cameFrom, c \in Int \X Int, NEW s, Chain(s, cameFrom[c])
    PROVE  Chain(Append(s, c), c)
<1> DEFINE t == Append(s, c)
<1>1. /\ s \in Seq(Int \X Int) /\ Len(s) >= 1
      /\ s[1] = problem.start /\ s[Len(s)] = cameFrom[c]
      /\ \A i \in 2 .. Len(s) : s[i] \in DOMAIN cameFrom /\ s[i - 1] = cameFrom[s[i]]
  BY DEF Chain
<1>2. /\ t \in Seq(Int \X Int) /\ Len(t) = Len(s) + 1 /\ Len(s) \in Nat /\ t[Len(s) + 1] = c
      /\ \A i \in 1 .. Len(s) : t[i] = s[i]
  BY <1>1
<1> HIDE DEF t
<1>3. ASSUME NEW i \in 2 .. Len(t)
      PROVE  t[i] \in DOMAIN cameFrom /\ t[i - 1] = cameFrom[t[i]]
  <2>1. CASE i = Len(s) + 1
    <3>1. t[i] = c /\ i - 1 = Len(s) /\ Len(s) \in 1 .. Len(s)
      BY <1>1, <1>2, <2>1
    <3> QED
      BY <1>1, <1>2, <3>1
  <2>2. CASE i # Len(s) + 1
    <3>1. i \in 2 .. Len(s) /\ i \in 1 .. Len(s) /\ i - 1 \in 1 .. Len(s)
      BY <1>2, <2>2
    <3> QED
      BY <1>1, <1>2, <3>1
  <2> QED
    BY <2>1, <2>2
<1>4. t[1] = problem.start
  BY <1>1, <1>2
<1>5. t[Len(t)] = c /\ Len(t) >= 1
  BY <1>2
<1>6. Chain(t, c)
  BY <1>2, <1>3, <1>4, <1>5 DEF Chain
<1> QED
  BY <1>6 DEF t

\* A chain that ends at another cell than the start has come there from the cell
\* it hangs on.
LEMMA ChainComesFrom ==
    ASSUME NEW c, NEW s, Chain(s, c), problem.start \notin DOMAIN cameFrom
    PROVE  /\ c = problem.start => s = <<c>>
           /\ c # problem.start => \E t : s = Append(t, c) /\ Chain(t, cameFrom[c])
<1>0. /\ s \in Seq(Int \X Int) /\ Len(s) >= 1
      /\ s[1] = problem.start /\ s[Len(s)] = c
      /\ \A i \in 2 .. Len(s) : s[i] \in DOMAIN cameFrom /\ s[i - 1] = cameFrom[s[i]]
  BY DEF Chain
<1>1. /\ s \in Seq(Int \X Int) /\ Len(s) >= 1 /\ Len(s) \in Nat
      /\ s[1] = problem.start /\ s[Len(s)] = c
      /\ \A i \in 2 .. Len(s) : s[i] \in DOMAIN cameFrom /\ s[i - 1] = cameFrom[s[i]]
  BY <1>0, SequenceFacts
<1>2. ASSUME c = problem.start PROVE s = <<c>>
  <2>1. Len(s) = 1
    <3> SUFFICES ASSUME Len(s) # 1 PROVE FALSE
      OBVIOUS
    <3>1. PICK l \in Nat : l = Len(s)
      BY <1>1
    <3>2. l \in 2 .. l
      BY <1>1, <3>1
    <3>3. s[l] \in DOMAIN cameFrom
      BY <1>1, <3>1, <3>2
    <3> QED
      BY <1>1, <1>2, <3>1, <3>3
  <2> QED
    BY <1>1, <1>2, <2>1
<1>3. ASSUME c # problem.start PROVE \E t : s = Append(t, c) /\ Chain(t, cameFrom[c])
  <2> DEFINE n == Len(s) - 1
             t == SubSeq(s, 1, n)
  <2>1. n \in Nat /\ n >= 1 /\ Len(s) = n + 1 /\ n + 1 \in 2 .. Len(s)
    BY <1>1, <1>3
  <2>2. /\ t \in Seq(Int \X Int) /\ Len(t) = n
        /\ \A i \in 1 .. n : t[i] = s[i]
    BY <1>1, <2>1
  <2> HIDE DEF t, n
  <2>3. s = Append(t, c)
    <3>1. Append(t, c) \in Seq((Int \X Int) \union {c}) /\ s \in Seq((Int \X Int) \union {c})
      BY <1>1, <2>2
    <3>2. Len(Append(t, c)) = n + 1
      BY <2>1, <2>2, <3>1
    <3>3. ASSUME NEW i \in 1 .. n + 1 PROVE Append(t, c)[i] = s[i]
      BY <1>1, <2>1, <2>2
    <3> QED
      BY <2>1, <3>1, <3>2, <3>3
  <2>4. t[1] = problem.start /\ t[n] = cameFrom[c]
    <3>1. 1 \in 1 .. n /\ n \in 1 .. n /\ s[n + 1] = c
      BY <1>1, <2>1
    <3>2. s[(n + 1) - 1] = cameFrom[s[n + 1]] /\ (n + 1) - 1 = n
      BY <1>1, <2>1
    <3> QED
      BY <1>1, <2>2, <3>1, <3>2
  <2>5. ASSUME NEW i \in 2 .. n PROVE t[i] \in DOMAIN cameFrom /\ t[i - 1] = cameFrom[t[i]]
    <3>1. i \in 2 .. Len(s) /\ i \in 1 .. n /\ i - 1 \in 1 .. n
      BY <2>1
    <3> QED
      BY <1>1, <2>2, <3>1
  <2>6. Chain(t, cameFrom[c])
    BY <2>1, <2>2, <2>4, <2>5 DEF Chain
  <2> QED
    BY <2>3, <2>6
<1> QED
  BY <1>2, <1>3

\* Every cell reached has a chain, since scores cannot fall for ever,
LEMMA ChainExists ==
    ASSUME IInv, HeapInv, search # "idle", InGrid(problem)
    PROVE  \A c \in DOMAIN gScore : \E s \in Seq(Int \X Int) : Chain(s, c)
<1> DEFINE Without == {c \in DOMAIN gScore : ~\E s \in Seq(Int \X Int) : Chain(s, c)}
<1> SUFFICES ASSUME Without # {} PROVE FALSE
  OBVIOUS
<1>1. \A c \in Without : gScore[c] \in Nat
  BY Hangs
<1>2. PICK c \in Without : \A b \in Without : gScore[c] <= gScore[b]
  BY <1>1, LeastScore
<1>3. c \in DOMAIN gScore /\ ~\E s \in Seq(Int \X Int) : Chain(s, c)
  BY <1>2
<1> HIDE DEF Without
<1>4. c \in Int \X Int /\ (c = problem.start \/ c \in DOMAIN cameFrom)
  BY <1>3, Hangs
<1>5. CASE c = problem.start
  <2>1. <<c>> \in Seq(Int \X Int) /\ Len(<<c>>) = 1 /\ <<c>>[1] = c
    BY <1>4
  <2>2. Chain(<<c>>, c)
    BY <1>5, <2>1 DEF Chain
  <2> QED
    BY <1>3, <2>1, <2>2
<1>6. CASE c \in DOMAIN cameFrom
  <2>1. cameFrom[c] \in DOMAIN gScore /\ gScore[cameFrom[c]] < gScore[c]
    BY <1>3, <1>6, Hangs
  <2>2. gScore[cameFrom[c]] \in Nat /\ gScore[c] \in Nat
    BY <1>3, <2>1, Hangs
  <2>3. cameFrom[c] \notin Without
    BY <1>2, <2>1, <2>2
  <2>4. PICK s \in Seq(Int \X Int) : Chain(s, cameFrom[c])
    BY <2>1, <2>3 DEF Without
  <2>5. Chain(Append(s, c), c) /\ Append(s, c) \in Seq(Int \X Int)
    BY <1>4, <1>6, <2>4, ChainGoesOn
  <2> QED
    BY <1>3, <2>5
<1> QED
  BY <1>4, <1>5, <1>6

\* and only one.
LEMMA ChainIsUnique ==
    ASSUME IInv, HeapInv, search # "idle", InGrid(problem)
    PROVE  \A c \in DOMAIN gScore : \A s, t : Chain(s, c) /\ Chain(t, c) => s = t
<1> DEFINE Several == {c \in DOMAIN gScore : \E s, t : Chain(s, c) /\ Chain(t, c) /\ s # t}
<1> SUFFICES ASSUME Several # {} PROVE FALSE
  OBVIOUS
<1>1. \A c \in Several : gScore[c] \in Nat
  BY Hangs
<1>2. PICK c \in Several : \A b \in Several : gScore[c] <= gScore[b]
  BY <1>1, LeastScore
<1>3. c \in DOMAIN gScore
  BY <1>2
<1>4. PICK s, t : Chain(s, c) /\ Chain(t, c) /\ s # t
  BY <1>2
<1> HIDE DEF Several
<1>5. /\ c = problem.start \/ c \in DOMAIN cameFrom
      /\ problem.start \notin DOMAIN cameFrom
  BY <1>3, Hangs
<1>6. c # problem.start
  BY <1>4, <1>5, ChainComesFrom
<1>7. PICK s1 : s = Append(s1, c) /\ Chain(s1, cameFrom[c])
  BY <1>4, <1>5, <1>6, ChainComesFrom
<1>8. PICK t1 : t = Append(t1, c) /\ Chain(t1, cameFrom[c])
  BY <1>4, <1>5, <1>6, ChainComesFrom
<1>9. cameFrom[c] \in DOMAIN gScore /\ gScore[cameFrom[c]] < gScore[c]
  BY <1>3, <1>5, <1>6, Hangs
<1>10. gScore[cameFrom[c]] \in Nat /\ gScore[c] \in Nat
  BY <1>3, <1>9, Hangs
<1>11. cameFrom[c] \notin Several
  BY <1>2, <1>9, <1>10
<1>12. s1 = t1
  BY <1>7, <1>8, <1>9, <1>11 DEF Several
<1> QED
  BY <1>4, <1>7, <1>8, <1>12

\* The path that is read off came_from is the chain of its cell.
LEMMA PathIsChain ==
    ASSUME IInv, HeapInv, search # "idle", InGrid(problem), NEW goal \in DOMAIN gScore
    PROVE  Chain(PathTo(goal), goal)
<1> DEFINE S == Cells(problem) \union {problem.start}
           body(g) == [c \in S |-> IF c \in DOMAIN cameFrom THEN Append(g[cameFrom[c]], c) ELSE <<c>>]
           q == CHOOSE g : g = body(g)
           f == [c \in S |-> IF c \in DOMAIN gScore
                             THEN CHOOSE s \in Seq(Int \X Int) : Chain(s, c) ELSE <<c>>]
<1>1. PathTo(goal) = q[goal]
  BY DEF PathTo
<1> HIDE DEF S
<1>2. DOMAIN gScore \subseteq S /\ DOMAIN cameFrom \subseteq DOMAIN gScore
  BY DEF HeapInv, IInv, ScoresInv, S
<1>3. ASSUME NEW c \in DOMAIN gScore PROVE Chain(f[c], c)
  <2>1. \E s \in Seq(Int \X Int) : Chain(s, c)
    BY <1>3, ChainExists
  <2>2. f[c] = CHOOSE s \in Seq(Int \X Int) : Chain(s, c)
    BY <1>2, <1>3
  <2> HIDE DEF f
  <2> QED
    BY <2>1, <2>2
<1>4. \A c \in S : c \notin DOMAIN gScore => f[c] = <<c>>
  OBVIOUS
<1>5. f = body(f)
  <2>1. f = [c \in S |-> f[c]]
    OBVIOUS
  <2> HIDE DEF f
  <2>2. ASSUME NEW c \in S
        PROVE  f[c] = IF c \in DOMAIN cameFrom THEN Append(f[cameFrom[c]], c) ELSE <<c>>
    <3>1. CASE c \in DOMAIN cameFrom
      <4>1. c \in DOMAIN gScore /\ c \in Int \X Int /\ cameFrom[c] \in DOMAIN gScore
        BY <1>2, <3>1, Hangs
      <4>2. Chain(f[c], c) /\ Chain(f[cameFrom[c]], cameFrom[c])
        BY <1>3, <4>1
      <4>3. Chain(Append(f[cameFrom[c]], c), c)
        BY <3>1, <4>1, <4>2, ChainGoesOn
      <4> QED
        BY <3>1, <4>1, <4>2, <4>3, ChainIsUnique
    <3>2. CASE c \notin DOMAIN cameFrom /\ c \in DOMAIN gScore
      <4>1. c = problem.start /\ problem.start \notin DOMAIN cameFrom
        BY <3>2, Hangs
      <4>2. Chain(f[c], c)
        BY <1>3, <3>2
      <4> QED
        BY <3>2, <4>1, <4>2, ChainComesFrom
    <3>3. CASE c \notin DOMAIN gScore
      BY <1>2, <1>4, <3>3
    <3> QED
      BY <3>1, <3>2, <3>3
  <2> QED
    BY <2>1, <2>2
<1>6. q = body(q)
  BY <1>5
<1>7. \A c \in S : q[c] = IF c \in DOMAIN cameFrom THEN Append(q[cameFrom[c]], c) ELSE <<c>>
  <2> HIDE DEF q
  <2>1. \A c \in S : q[c] = body(q)[c]
    BY <1>6
  <2> QED
    BY <2>1
<1> HIDE DEF q, f
<1> DEFINE Wrong == {c \in DOMAIN gScore : ~Chain(q[c], c)}
<1>8. Wrong = {}
  <2> SUFFICES ASSUME Wrong # {} PROVE FALSE
    OBVIOUS
  <2>1. \A c \in Wrong : gScore[c] \in Nat
    BY Hangs
  <2>2. PICK c \in Wrong : \A b \in Wrong : gScore[c] <= gScore[b]
    BY <2>1, LeastScore
  <2>3. c \in DOMAIN gScore /\ ~Chain(q[c], c) /\ c \in S
    BY <1>2, <2>2
  <2> HIDE DEF Wrong
  <2>4. /\ c \in Int \X Int /\ problem.start \notin DOMAIN cameFrom
        /\ (c = problem.start \/ c \in DOMAIN cameFrom)
    BY <2>3, Hangs
  <2>5. CASE c = problem.start
    <3>1. q[c] = <<c>>
      BY <1>7, <2>3, <2>4, <2>5
    <3>2. <<c>> \in Seq(Int \X Int) /\ Len(<<c>>) = 1 /\ <<c>>[1] = c
      BY <2>4
    <3>3. Chain(<<c>>, c)
      BY <2>5, <3>2 DEF Chain
    <3> QED
      BY <2>3, <3>1, <3>3
  <2>6. CASE c \in DOMAIN cameFrom
    <3>1. cameFrom[c] \in DOMAIN gScore /\ gScore[cameFrom[c]] < gScore[c]
      BY <2>3, <2>6, Hangs
    <3>2. gScore[cameFrom[c]] \in Nat /\ gScore[c] \in Nat
      BY <2>3, <3>1, Hangs
    <3>3. cameFrom[c] \notin Wrong
      BY <2>2, <3>1, <3>2
    <3>4. Chain(q[cameFrom[c]], cameFrom[c])
      BY <3>1, <3>3 DEF Wrong
    <3>5. Chain(Append(q[cameFrom[c]], c), c)
      BY <2>4, <2>6, <3>4, ChainGoesOn
    <3>6. q[c] = Append(q[cameFrom[c]], c)
      BY <1>7, <2>3, <2>6
    <3> QED
      BY <2>3, <3>5, <3>6
  <2> QED
    BY <2>4, <2>5, <2>6
<1> QED
  BY <1>1, <1>8

\* A chain is a way of legal steps, at the cost of the score of its cell or less.
LEMMA ChainIsAWay ==
    ASSUME IInv, HeapInv, search # "idle", InGrid(problem), problem.goal \in DOMAIN gScore,
           NEW s, Chain(s, problem.goal), NEW m \in Nat, m = Len(s) - 1
    PROVE  \E d : IsWay(problem, [i \in 0 .. m |-> s[i + 1]], d, m) /\ d[m] <= gScore[problem.goal]
<1> DEFINE w == [i \in 0 .. m |-> s[i + 1]]
           plus == [x \in (1 .. m) \X Int |-> x[2] + LegalCost(problem, w[x[1] - 1], w[x[1]])]
<1>1. /\ s \in Seq(Int \X Int) /\ Len(s) = m + 1
      /\ s[1] = problem.start /\ s[Len(s)] = problem.goal
      /\ \A i \in 2 .. Len(s) : s[i] \in DOMAIN cameFrom /\ s[i - 1] = cameFrom[s[i]]
  BY DEF Chain
<1>2. /\ w \in [0 .. m -> Int \X Int]
      /\ w[0] = problem.start /\ w[m] = problem.goal
  <2>1. \A i \in 0 .. m : i + 1 \in 1 .. Len(s)
    BY <1>1
  <2> QED
    BY <1>1, <2>1
<1>3. ASSUME NEW i \in 1 .. m PROVE w[i] \in DOMAIN cameFrom /\ w[i - 1] = cameFrom[w[i]]
  <2>1. i + 1 \in 2 .. Len(s) /\ i - 1 \in 0 .. m /\ i \in 0 .. m /\ (i - 1) + 1 = (i + 1) - 1
    BY <1>1
  <2> QED
    BY <1>1, <2>1
<1> HIDE DEF w
<1>4. \A a, b : LegalCost(problem, a, b) \in Nat
  BY DEF LegalCost, StepCost
<1>5. plus \in [(1 .. m) \X Int -> Int]
  BY <1>4
<1>6. \A i \in 1 .. m, k \in Int : plus[<<i, k>>] = k + LegalCost(problem, w[i - 1], w[i])
  OBVIOUS
<1> HIDE DEF plus
<1>7. PICK d \in [0 .. m -> Int] : Follows(d, m, 0, plus)
  <2>1. 0 \in Int
    OBVIOUS
  <2> QED
    BY <1>5, <2>1, RecursionHasValue
<1>8. /\ d[0] = 0
      /\ \A i \in 1 .. m : d[i] = d[i - 1] + LegalCost(problem, w[i - 1], w[i])
  <2>1. \A i \in 1 .. m : i - 1 \in 0 .. m
    OBVIOUS
  <2> QED
    BY <1>6, <1>7, <2>1 DEF Follows
<1>9. \A i \in 0 .. m : w[i] \in DOMAIN gScore
  <2> SUFFICES ASSUME NEW i \in 0 .. m PROVE w[i] \in DOMAIN gScore
    OBVIOUS
  <2>1. CASE i = 0
    BY <1>2, <2>1 DEF IInv, ScoresInv
  <2>2. CASE i # 0
    <3>1. i \in 1 .. m
      BY <2>2
    <3> QED
      BY <1>3, <3>1 DEF IInv, ScoresInv
  <2> QED
    BY <2>1, <2>2
<1>10. \A i \in 1 .. m : /\ LegalStep(problem, w[i - 1], w[i])
                         /\ gScore[w[i - 1]] + LegalCost(problem, w[i - 1], w[i]) <= gScore[w[i]]
  BY <1>3 DEF IInv, TreeIsSound
<1>11. \A i \in 0 .. m : gScore[w[i]] \in Nat
  BY <1>9 DEF IInv, ScoresInv
<1> DEFINE P == {i \in 0 .. m : d[i] <= gScore[w[i]]}
<1>12. 0 \in P
  BY <1>2, <1>8, <1>11
<1>13. ASSUME NEW i \in 1 .. m, i - 1 \in P PROVE i \in P
  <2>1. i - 1 \in 0 .. m /\ i \in 0 .. m /\ d[i - 1] <= gScore[w[i - 1]]
    BY <1>13
  <2>2. d[i] = d[i - 1] + LegalCost(problem, w[i - 1], w[i])
    BY <1>8
  <2>3. gScore[w[i - 1]] + LegalCost(problem, w[i - 1], w[i]) <= gScore[w[i]]
    BY <1>10
  <2>4. /\ d[i - 1] \in Int /\ d[i] \in Int /\ gScore[w[i - 1]] \in Nat /\ gScore[w[i]] \in Nat
        /\ LegalCost(problem, w[i - 1], w[i]) \in Nat
    BY <1>4, <1>7, <1>11, <2>1
  <2>5. d[i] <= gScore[w[i]]
    BY <2>1, <2>2, <2>3, <2>4
  <2> QED
    BY <2>1, <2>5
<1>14. m \in P
  <2> HIDE DEF P
  <2>1. \A i \in 0 .. m : i \in P
    BY <1>12, <1>13, StepByStep
  <2> QED
    BY <2>1
<1>15. d[m] <= gScore[problem.goal]
  BY <1>2, <1>14
<1>16. IsWay(problem, w, d, m)
  BY <1>2, <1>7, <1>8, <1>10 DEF IsWay
<1> QED
  BY <1>15, <1>16 DEF w

\* "Global shortest path" (hm3d_adapter.py:783): the path that is read off is a
\* legal way from the start to the goal, and no legal way costs less, in the grid
\* world; in the other adapter, whose estimate takes 0.70711 for what costs
\* 0.70710, none costs less by more than a millimetre for every row or column.
\* Re-opened cells and entries that were overtaken do no harm.
FoundIsShortest ==
    search = "found" =>
        \E m \in Nat : \E c : LET path == PathTo(problem.goal) IN
            /\ m = Len(path) - 1
            /\ IsWay(problem, [i \in 0 .. m |-> path[i + 1]], c, m)
            /\ \A n \in Nat : \A w, d : IsWay(problem, w, d, n) => c[m] <= d[n] + Excess(problem)

\* The goal comes off the heap of _astar_2d and _astar_path with a score that no legal way
\* undercuts: of any other way some cell waits, with an estimate that is no
\* higher than what is left of that way, but for the rounding.
THEOREM SearchIsShortest == Spec => []FoundIsShortest
<1>1. ASSUME IInv, HeapInv PROVE FoundIsShortest
  <2> DEFINE goal == problem.goal
             path == PathTo(goal)
  <2> SUFFICES ASSUME search = "found"
               PROVE  \E m \in Nat : \E c :
                        /\ m = Len(path) - 1
                        /\ IsWay(problem, [i \in 0 .. m |-> path[i + 1]], c, m)
                        /\ \A n \in Nat : \A w, d :
                              IsWay(problem, w, d, n) => c[m] <= d[n] + Excess(problem)
    BY DEF FoundIsShortest
  <2>1. /\ problem \in Problem /\ InGrid(problem)
        /\ \A e \in open : e[2] \in DOMAIN gScore /\ e[1] \in Nat /\ gScore[e[2]] <= e[1]
        /\ \A c \in DOMAIN gScore : gScore[c] \in Nat
    BY <1>1 DEF IInv, ScoresInv, HeapInv
  <2>2. PICK e \in open : e[2] = goal /\ \A f \in open : e[1] <= f[1]
    BY <1>1, <2>1 DEF HeapInv
  <2>3. goal \in DOMAIN gScore
    BY <2>1, <2>2
  <2>4. ASSUME NEW n \in Nat, NEW w, NEW d, IsWay(problem, w, d, n)
        PROVE  gScore[goal] <= d[n] + Excess(problem) /\ d[n] + Excess(problem) \in Int
    <3>1. PICK i \in 0 .. n : w[i] \in DOMAIN gScore /\ gScore[w[i]] <= d[i] /\ Queued(w[i])
      BY <1>1, <2>1, <2>4, SomeCellWaits
    <3>2. PICK f \in open : f[2] = w[i] /\ f[1] <= gScore[w[i]] + Estimate(problem, w[i])
      BY <3>1 DEF Queued
    <3>3. Reachable(problem, w[i]) /\ d[i] + Octile(problem, w[i]) <= d[n]
      BY <2>1, <2>4, RestIsNoLess
    <3>4. /\ Estimate(problem, w[i]) \in Nat /\ Octile(problem, w[i]) \in Nat
          /\ Excess(problem) \in Nat
          /\ Estimate(problem, w[i]) <= Octile(problem, w[i]) + Excess(problem)
      BY <2>1, <3>3, EstimateIsNear
    <3>5. gScore[goal] <= e[1] /\ e[1] <= f[1]
      BY <2>1, <2>2, <3>2
    <3>6. d[i] \in Int /\ d[n] \in Int
      BY <2>4 DEF IsWay
    <3>7. /\ gScore[goal] \in Nat /\ e[1] \in Nat /\ f[1] \in Nat
          /\ gScore[w[i]] \in Nat
      BY <2>1, <2>3, <3>1
    <3> QED
      BY <3>1, <3>2, <3>3, <3>4, <3>5, <3>6, <3>7
  <2>5. Chain(path, goal)
    BY <1>1, <2>1, <2>3, PathIsChain
  <2>6. PICK m \in Nat : m = Len(path) - 1
    <3>1. Len(path) \in Nat /\ Len(path) >= 1
      BY <2>5 DEF Chain
    <3> QED
      BY <3>1
  <2>7. PICK c : IsWay(problem, [i \in 0 .. m |-> path[i + 1]], c, m) /\ c[m] <= gScore[goal]
    BY <1>1, <2>1, <2>3, <2>5, <2>6, ChainIsAWay
  <2>8. c[m] \in Int /\ gScore[goal] \in Nat
    BY <2>1, <2>3, <2>7 DEF IsWay
  <2> HIDE DEF path
  <2>9. \A n \in Nat : \A w, d : IsWay(problem, w, d, n) => c[m] <= d[n] + Excess(problem)
    BY <2>4, <2>7, <2>8
  <2> QED
    BY <2>6, <2>7, <2>9
<1> QED
  BY <1>1, InductiveInvariant, HeapInvariant, PTL
-----------------------------------------------------------------------------
(***************************************************************************)
(* Where a search starts and ends: _find_nearest_free_cell.                *)
(***************************************************************************)
\* A state of _find_nearest_free_cell: its queue, and the cells it has seen.
SweepState(cells) == Seq(cells \X Nat) \X SUBSET (Int \X Int)

Free(cells, blocked, st) == Kept(Inside(cells, st), cells \ blocked)

\* What the loop comes to from the states it passes.
Sweeps(f, cells, blocked) ==
    \A st \in SweepState(cells) :
        f[st] = IF Exhausted(st) THEN NoCell
                ELSE IF Free(cells, blocked, st) # <<>> THEN Head(Free(cells, blocked, st))
                ELSE f[Later(cells, st)]

\* The order of looking around leaves no neighbour out.
LEMMA AroundIsAll ==
    /\ \A i \in 1 .. 8 : Around[i] \in Int \X Int /\ Around[i][1] \in -1 .. 1 /\ Around[i][2] \in -1 .. 1
    /\ \A x \in -1 .. 1, z \in -1 .. 1 : <<x, z>> # <<0, 0>> => \E i \in 1 .. 8 : Around[i] = <<x, z>>
<1>1. /\ Around[1] = <<1, 0>> /\ Around[2] = <<-1, 0>> /\ Around[3] = <<0, 1>> /\ Around[4] = <<0, -1>>
      /\ Around[5] = <<1, 1>> /\ Around[6] = <<-1, 1>> /\ Around[7] = <<1, -1>> /\ Around[8] = <<-1, -1>>
  BY DEF Around
<1>2. \A i \in 1 .. 8 : i = 1 \/ i = 2 \/ i = 3 \/ i = 4 \/ i = 5 \/ i = 6 \/ i = 7 \/ i = 8
  OBVIOUS
<1>3. \A i \in 1 .. 8 : Around[i] \in Int \X Int /\ Around[i][1] \in -1 .. 1 /\ Around[i][2] \in -1 .. 1
  BY <1>1, <1>2
<1>4. ASSUME NEW x \in -1 .. 1, NEW z \in -1 .. 1, <<x, z>> # <<0, 0>>
      PROVE  \E i \in 1 .. 8 : Around[i] = <<x, z>>
  <2>1. (x = -1 \/ x = 0 \/ x = 1) /\ (z = -1 \/ z = 0 \/ z = 1)
    OBVIOUS
  <2>2. CASE x = 1
    BY <1>1, <2>1, <2>2
  <2>3. CASE x = -1
    BY <1>1, <2>1, <2>3
  <2>4. CASE x = 0
    BY <1>1, <1>4, <2>1, <2>4
  <2> QED
    BY <2>1, <2>2, <2>3, <2>4
<1> QED
  BY <1>3, <1>4

\* The cells around a cell.
Beside(c) == {After(c, Around[i]) : i \in 1 .. 8}

\* What a turn sees: the neighbours that were not seen before, all of them, and
\* of those the ones on the grid.
LEMMA TurnSees ==
    ASSUME NEW cells, cells \subseteq Int \X Int, NEW st \in SweepState(cells), st[1] # <<>>
    PROVE  LET cell == Head(st[1])[1] IN
           /\ cell \in cells /\ Head(st[1])[2] \in Nat
           /\ Fresh(st) \in Seq(Int \X Int)
           /\ Members(Fresh(st)) = Beside(cell) \ st[2]
           /\ Inside(cells, st) \in Seq(cells)
           /\ Members(Inside(cells, st)) = (Beside(cell) \ st[2]) \intersect cells
<1> DEFINE cell == Head(st[1])[1]
           all == [i \in 1 .. 8 |-> After(cell, Around[i])]
           new == (Int \X Int) \ st[2]
           fresh == Kept(all, new)
           inside == Kept(fresh, cells)
<1>1. st[1] \in Seq(cells \X Nat) /\ st[2] \in SUBSET (Int \X Int)
  BY DEF SweepState
<1>2. Head(st[1]) \in cells \X Nat
  BY <1>1
<1>3. cell \in cells /\ cell \in Int \X Int /\ Head(st[1])[2] \in Nat
  BY <1>2
<1>4. Fresh(st) = fresh /\ Inside(cells, st) = inside
  BY DEF Fresh, Inside
<1> HIDE DEF cell
<1>5. \A i \in 1 .. 8 : After(cell, Around[i]) \in Int \X Int
  <2> SUFFICES ASSUME NEW i \in 1 .. 8 PROVE After(cell, Around[i]) \in Int \X Int
    OBVIOUS
  <2>1. Around[i][1] \in Int /\ Around[i][2] \in Int /\ cell[1] \in Int /\ cell[2] \in Int
    BY <1>3, AroundIsAll
  <2> QED
    BY <2>1 DEF After
<1>6. all \in Seq(Int \X Int) /\ Len(all) = 8
  BY <1>5
<1>7. Members(all) = Beside(cell)
  BY <1>6 DEF Members, Beside
<1>8. Beside(cell) \subseteq Int \X Int
  BY <1>5 DEF Beside
<1> HIDE DEF all
<1>9. fresh \in Seq(Int \X Int) /\ Members(fresh) = Members(all) \intersect new
  <2> HIDE DEF new
  <2> QED
    BY <1>6, KeptMembers
<1>10. Members(fresh) = Beside(cell) \ st[2]
  BY <1>7, <1>8, <1>9
<1> HIDE DEF fresh
<1>11. inside \in Seq(Int \X Int) /\ Members(inside) = Members(fresh) \intersect cells
  BY <1>9, KeptMembers
<1> HIDE DEF inside
<1>12. \A m \in 1 .. Len(inside) : inside[m] \in cells
  BY <1>11 DEF Members
<1>13. inside \in Seq(cells)
  BY <1>11, <1>12, SequenceOf
<1> QED
  BY <1>3, <1>4, <1>9, <1>10, <1>11, <1>13 DEF cell

\* The state after st: the queue has lost its head and got what is inside.
IsLater(cells, st, next) ==
    LET inside == Inside(cells, st)
        rest == Tail(st[1])
    IN  /\ next \in SweepState(cells)
        /\ next[2] = st[2] \union Members(Fresh(st))
        /\ Len(rest) \in Nat /\ Len(next[1]) = Len(rest) + Len(inside) /\ Len(rest) = Len(st[1]) - 1
        /\ \A i \in 1 .. Len(rest) : next[1][i] = st[1][i + 1]
        /\ \A i \in 1 .. Len(inside) : next[1][Len(rest) + i] = <<inside[i], Head(st[1])[2] + 1>>

\* It is what a turn that finds nothing leads to.
LEMMA LaterIsState ==
    ASSUME NEW cells, cells \subseteq Int \X Int, NEW st \in SweepState(cells), st[1] # <<>>
    PROVE  IsLater(cells, st, Later(cells, st))
<1> DEFINE inside == Inside(cells, st)
           depth == Head(st[1])[2] + 1
           more == [i \in 1 .. Len(inside) |-> <<inside[i], depth>>]
           rest == Tail(st[1])
           queue == rest \o more
           seen == st[2] \union Range(Fresh(st))
<1>1. /\ Head(st[1])[2] \in Nat /\ inside \in Seq(cells)
      /\ Fresh(st) \in Seq(Int \X Int)
  BY TurnSees
<1>2. st[1] \in Seq(cells \X Nat) /\ st[2] \in SUBSET (Int \X Int)
  BY DEF SweepState
<1>3. Later(cells, st) = <<queue, seen>>
  BY DEF Later
<1> HIDE DEF inside
<1>4. depth \in Nat
  BY <1>1
<1> HIDE DEF depth
<1>5. \A i \in 1 .. Len(inside) : inside[i] \in cells
  BY <1>1
<1>6. more \in Seq(cells \X Nat) /\ Len(more) = Len(inside) /\ \A i \in 1 .. Len(inside) : more[i] = <<inside[i], depth>>
  BY <1>1, <1>4, <1>5
<1>7. /\ rest \in Seq(cells \X Nat) /\ Len(rest) = Len(st[1]) - 1 /\ Len(rest) \in Nat
      /\ \A i \in 1 .. Len(rest) : rest[i] = st[1][i + 1]
  BY <1>2
<1> HIDE DEF more, rest
<1>8. /\ queue \in Seq(cells \X Nat) /\ Len(queue) = Len(rest) + Len(inside)
      /\ \A i \in 1 .. Len(rest) : queue[i] = st[1][i + 1]
      /\ \A i \in 1 .. Len(inside) : queue[Len(rest) + i] = <<inside[i], depth>>
  <2>1. /\ queue \in Seq(cells \X Nat) /\ Len(queue) = Len(rest) + Len(more)
        /\ \A i \in 1 .. Len(rest) + Len(more) :
              queue[i] = IF i <= Len(rest) THEN rest[i] ELSE more[i - Len(rest)]
    <3> DEFINE S == cells \X Nat
    <3>1. rest \in Seq(S) /\ more \in Seq(S)
      BY <1>6, <1>7
    <3> HIDE DEF S
    <3>2. /\ queue \in Seq(S) /\ Len(queue) = Len(rest) + Len(more)
          /\ \A i \in 1 .. Len(rest) + Len(more) :
                queue[i] = IF i <= Len(rest) THEN rest[i] ELSE more[i - Len(rest)]
      BY <3>1, ConcatProperties
    <3> QED
      BY <3>2 DEF S
  <2>2. Len(more) \in Nat /\ Len(rest) \in Nat
    BY <1>6, <1>7
  <2>3. \A i \in 1 .. Len(rest) : i \in 1 .. Len(rest) + Len(more) /\ i <= Len(rest)
    BY <2>2
  <2>4. \A i \in 1 .. Len(more) : /\ Len(rest) + i \in 1 .. Len(rest) + Len(more)
                                   /\ ~(Len(rest) + i <= Len(rest)) /\ (Len(rest) + i) - Len(rest) = i
    BY <2>2
  <2> HIDE DEF queue
  <2> QED
    BY <1>6, <1>7, <2>1, <2>3, <2>4
<1>9. Range(Fresh(st)) = Members(Fresh(st)) /\ Range(Fresh(st)) \subseteq Int \X Int
  <2>1. PICK f : f = Fresh(st)
    OBVIOUS
  <2>2. f \in Seq(Int \X Int)
    BY <1>1, <2>1
  <2>3. DOMAIN f = 1 .. Len(f) /\ \A i \in 1 .. Len(f) : f[i] \in Int \X Int
    BY <2>2, SequenceFacts
  <2>4. Range(f) = Members(f) /\ Range(f) \subseteq Int \X Int
    BY <2>3 DEF Range, Members
  <2> QED
    BY <2>1, <2>4
<1> HIDE DEF queue
<1>10. <<queue, seen>> \in SweepState(cells)
  BY <1>2, <1>8, <1>9 DEF SweepState
<1>11. Later(cells, st)[1] = queue /\ Later(cells, st)[2] = seen
  BY <1>3
<1> HIDE DEF seen
<1>12. seen = st[2] \union Members(Fresh(st)) /\ Later(cells, st) \in SweepState(cells)
  BY <1>3, <1>9, <1>10 DEF seen
<1> QED
  BY <1>7, <1>8, <1>11, <1>12 DEF inside, rest, depth, IsLater

\* _find_nearest_free_cell is such a loop.
LEMMA FirstFreeSweeps ==
    ASSUME NEW cells, cells \subseteq Int \X Int, NEW blocked, NEW start \in cells
    PROVE  \E f : /\ Sweeps(f, cells, blocked)
                  /\ FirstFree(cells, blocked, start) = f[<< << <<start, 0>> >>, {start}>>]
<1> DEFINE D == SweepState(cells)
           body(g) == [st \in D |->
                IF Exhausted(st) THEN NoCell
                ELSE IF Free(cells, blocked, st) # <<>> THEN Head(Free(cells, blocked, st))
                ELSE g[Later(cells, st)]]
           q == CHOOSE g : g = body(g)
<1>1. FirstFree(cells, blocked, start) = q[<< << <<start, 0>> >>, {start}>>]
  BY DEF FirstFree, SweepState, Free
<1> DEFINE Over == {st \in D : Exhausted(st) \/ Free(cells, blocked, st) # <<>>}
           result == [st \in D |-> IF Exhausted(st) THEN NoCell ELSE Head(Free(cells, blocked, st))]
           next == [st \in D |-> Later(cells, st)]
<1>2. \A st \in D \ Over : next[st] \in D
  BY LaterIsState DEF Exhausted, IsLater
<1>3. \E f : IsLoop(f, D, Over, result, next)
  <2>1. Over \in SUBSET D
    OBVIOUS
  <2> HIDE DEF D, Over, result, next
  <2> QED
    BY <1>2, <2>1, LoopHasValue
<1>4. PICK f : IsLoop(f, D, Over, result, next)
  BY <1>3
<1>5. f = body(f)
  <2>1. \A st \in D : (IF st \in Over THEN result[st] ELSE f[next[st]]) = body(f)[st]
    OBVIOUS
  <2> HIDE DEF Over, result, next
  <2> QED
    BY <1>4, <2>1 DEF IsLoop
<1>6. q = body(q)
  <2> HIDE DEF body
  <2> QED
    BY <1>5
<1>7. Sweeps(q, cells, blocked)
  <2> HIDE DEF q
  <2>1. \A st \in D : q[st] = body(q)[st]
    BY <1>6
  <2> QED
    BY <2>1 DEF Sweeps
<1> QED
  BY <1>1, <1>7

\* How many steps, straight or diagonal, two cells are apart.
Far(a, b) ==
    IF Dist(a[1], b[1]) < Dist(a[2], b[2]) THEN Dist(a[2], b[2]) ELSE Dist(a[1], b[1])

\* It is what EndsAreNearest measures, and tells cells apart.
LEMMA FarFacts ==
    ASSUME NEW a \in Int \X Int, NEW b \in Int \X Int
    PROVE  /\ Far(a, b) \in Nat /\ Chebyshev(a, b) = Far(a, b)
           /\ Far(a, b) = 0 => a = b
           /\ Far(a, a) = 0
<1>1. a[1] \in Int /\ a[2] \in Int /\ b[1] \in Int /\ b[2] \in Int /\ a = <<a[1], a[2]>> /\ b = <<b[1], b[2]>>
  OBVIOUS
<1>2. Dist(a[1], b[1]) \in Nat /\ Dist(a[2], b[2]) \in Nat
  BY <1>1 DEF Dist
<1>3. Far(a, b) \in Nat
  BY <1>2 DEF Far
<1>4. ASSUME NEW x \in Nat, NEW z \in Nat PROVE Max({x, z}) = IF x < z THEN z ELSE x
  BY DEF Max
<1>5. Chebyshev(a, b) = Far(a, b)
  BY <1>2, <1>4 DEF Chebyshev, Far
<1>6. Far(a, b) = 0 => a = b
  BY <1>1 DEF Far, Dist
<1>7. Far(a, a) = 0
  BY <1>1 DEF Far, Dist
<1> QED
  BY <1>3, <1>5, <1>6, <1>7

\* The cells around a cell are one step from it, and all that are.
LEMMA BesideIsNear ==
    ASSUME NEW c \in Int \X Int, NEW n \in Int \X Int
    PROVE  n \in Beside(c) <=> Far(n, c) = 1
<1>1. c[1] \in Int /\ c[2] \in Int /\ n[1] \in Int /\ n[2] \in Int /\ c = <<c[1], c[2]>> /\ n = <<n[1], n[2]>>
  OBVIOUS
<1>2. \A i \in 1 .. 8 : Around[i] # <<0, 0>> /\ Around[i] = <<Around[i][1], Around[i][2]>>
  <2>1. \A i \in 1 .. 8 : i = 1 \/ i = 2 \/ i = 3 \/ i = 4 \/ i = 5 \/ i = 6 \/ i = 7 \/ i = 8
    OBVIOUS
  <2> QED
    BY <2>1 DEF Around
<1>3. ASSUME n \in Beside(c) PROVE Far(n, c) = 1
  <2>1. PICK i \in 1 .. 8 : n = After(c, Around[i])
    BY <1>3 DEF Beside
  <2> DEFINE x == Around[i][1]
             z == Around[i][2]
  <2>2. x \in -1 .. 1 /\ z \in -1 .. 1 /\ (x # 0 \/ z # 0)
    BY <1>2, AroundIsAll
  <2>3. n[1] = c[1] + x /\ n[2] = c[2] + z
    BY <2>1 DEF After
  <2> HIDE DEF x, z
  <2> QED
    BY <1>1, <2>2, <2>3 DEF Far, Dist
<1>4. ASSUME Far(n, c) = 1 PROVE n \in Beside(c)
  <2> DEFINE x == n[1] - c[1]
             z == n[2] - c[2]
  <2>1. x \in -1 .. 1 /\ z \in -1 .. 1 /\ (x # 0 \/ z # 0)
    BY <1>1, <1>4 DEF Far, Dist
  <2>2. n = <<c[1] + x, c[2] + z>>
    BY <1>1
  <2> HIDE DEF x, z
  <2>3. PICK i \in 1 .. 8 : Around[i] = <<x, z>>
    BY <2>1, AroundIsAll
  <2>4. n = After(c, Around[i])
    BY <2>2, <2>3 DEF After
  <2> QED
    BY <2>4 DEF Beside
<1> QED
  BY <1>3, <1>4

\* The cells around a cell are at most one step farther.
LEMMA OneFarther ==
    ASSUME NEW c \in Int \X Int, NEW n \in Int \X Int, NEW start \in Int \X Int, Far(n, c) = 1
    PROVE  Far(n, start) <= Far(c, start) + 1
<1>1. /\ c[1] \in Int /\ c[2] \in Int /\ n[1] \in Int /\ n[2] \in Int
      /\ start[1] \in Int /\ start[2] \in Int
  OBVIOUS
<1> QED
  BY <1>1 DEF Far, Dist

Board(a, b) == (0 .. a) \X (0 .. b)

\* One step from u towards v.
Toward(u, v) == IF u < v THEN u + 1 ELSE IF v < u THEN u - 1 ELSE u

\* What w is if it is that.
IsNearer(u, v, w) ==
    /\ w \in Int
    /\ u <= v => u <= w /\ w <= v
    /\ v <= u => v <= w /\ w <= u
    /\ Dist(u, v) \in Nat /\ (u = v <=> Dist(u, v) = 0)
    /\ Dist(w, v) = (IF u = v THEN 0 ELSE Dist(u, v) - 1)
    /\ Dist(u, w) = (IF u = v THEN 0 ELSE 1)

\* A step towards a number shortens the way to it by one.
LEMMA TowardIsNearer ==
    ASSUME NEW u \in Int, NEW v \in Int
    PROVE  IsNearer(u, v, Toward(u, v))
  BY DEF Dist, Toward, IsNearer

\* On a board there is, next to every other cell, one nearer to the start.
LEMMA OneNearer ==
    ASSUME NEW a \in Nat, NEW b \in Nat, NEW c \in Board(a, b), NEW start \in Board(a, b),
           Far(c, start) # 0
    PROVE  \E y \in Board(a, b) : Far(y, start) = Far(c, start) - 1 /\ c \in Beside(y)
<1> DEFINE x == Toward(c[1], start[1])
           z == Toward(c[2], start[2])
           y == <<x, z>>
<1>1. /\ c \in Int \X Int /\ start \in Int \X Int
      /\ c[1] \in 0 .. a /\ c[2] \in 0 .. b /\ start[1] \in 0 .. a /\ start[2] \in 0 .. b
  BY DEF Board
<1>2. IsNearer(c[1], start[1], x) /\ IsNearer(c[2], start[2], z)
  <2>1. c[1] \in Int /\ start[1] \in Int /\ c[2] \in Int /\ start[2] \in Int
    BY <1>1
  <2> QED
    BY <2>1, TowardIsNearer
<1> HIDE DEF x, z
<1>4. y \in Board(a, b) /\ y \in Int \X Int /\ y[1] = x /\ y[2] = z
  <2>1. x \in 0 .. a /\ z \in 0 .. b
    BY <1>1, <1>2 DEF IsNearer
  <2> QED
    BY <2>1 DEF Board
<1> HIDE DEF y
<1>5. Far(y, start) = Far(c, start) - 1 /\ Far(c, y) = 1
  BY <1>2, <1>4 DEF Far, IsNearer
<1>6. c \in Beside(y)
  BY <1>1, <1>4, <1>5, BesideIsNear
<1> QED
  BY <1>4, <1>5, <1>6

\* What holds before every turn: what has been seen is blocked; the queue holds
\* its cells with their distances, in that order; and what is no longer queued
\* has been looked around.
Swept(cells, blocked, start, st) ==
    /\ st \in SweepState(cells)
    /\ start \in st[2]
    /\ st[2] \intersect cells \subseteq blocked
    /\ \A i \in 1 .. Len(st[1]) : st[1][i][1] \in st[2] /\ st[1][i][2] = Far(st[1][i][1], start)
    /\ \A i, j \in 1 .. Len(st[1]) : i <= j =>
          st[1][i][2] <= st[1][j][2] /\ st[1][j][2] <= st[1][i][2] + 1
    /\ \A c \in st[2] \intersect cells :
          \/ \E i \in 1 .. Len(st[1]) : st[1][i][1] = c
          \/ Beside(c) \intersect cells \subseteq st[2]

\* So everything has been seen that is no farther than the head of the queue.
LEMMA AllSeen ==
    ASSUME NEW a \in Nat, NEW b \in Nat, NEW blocked, NEW start \in Board(a, b), NEW st,
           Swept(Board(a, b), blocked, start, st),
           NEW d \in Nat, \A i \in 1 .. Len(st[1]) : d <= st[1][i][2]
    PROVE  \A c \in Board(a, b) : Far(c, start) <= d => c \in st[2]
<1> DEFINE cells == Board(a, b)
           P == {k \in 0 .. d : \A c \in cells : Far(c, start) = k => c \in st[2]}
<1>1. cells \subseteq Int \X Int
  BY DEF Board
<1>2. 0 \in P
  BY <1>1, FarFacts DEF Swept
<1>3. ASSUME NEW k \in 1 .. d, k - 1 \in P PROVE k \in P
  <2> SUFFICES ASSUME NEW c \in cells, Far(c, start) = k PROVE c \in st[2]
    OBVIOUS
  <2>1. PICK y \in cells : Far(y, start) = k - 1 /\ c \in Beside(y)
    BY OneNearer
  <2>2. y \in st[2]
    BY <1>3, <2>1
  <2>3. ASSUME NEW i \in 1 .. Len(st[1]) PROVE st[1][i][1] # y
    <3>1. d <= st[1][i][2] /\ st[1][i][2] = Far(st[1][i][1], start)
      BY DEF Swept
    <3> QED
      BY <2>1, <3>1
  <2> QED
    BY <2>1, <2>2, <2>3 DEF Swept
<1>4. \A k \in 0 .. d : k \in P
  <2> HIDE DEF P
  <2> QED
    BY <1>2, <1>3, StepByStep
<1> SUFFICES ASSUME NEW c \in cells, Far(c, start) <= d PROVE c \in st[2]
  OBVIOUS
<1>5. Far(c, start) \in 0 .. d
  BY <1>1, FarFacts
<1> QED
  BY <1>4, <1>5

\* A turn that finds nothing keeps it so.
LEMMA SweptGoesOn ==
    ASSUME NEW a \in Nat, NEW b \in Nat, NEW blocked, NEW start \in Board(a, b), NEW st,
           Swept(Board(a, b), blocked, start, st), st[1] # <<>>,
           Members(Inside(Board(a, b), st)) \subseteq blocked
    PROVE  Swept(Board(a, b), blocked, start, Later(Board(a, b), st))
<1> DEFINE cells == Board(a, b)
           cell == Head(st[1])[1]
           depth == Head(st[1])[2]
           inside == Inside(cells, st)
           rest == Tail(st[1])
           next == Later(cells, st)
           len == Len(rest)
<1>1. cells \subseteq Int \X Int
  BY DEF Board
<1>2. st \in SweepState(cells)
  BY DEF Swept
<1>3. /\ cell \in cells /\ depth \in Nat
      /\ Members(Fresh(st)) = Beside(cell) \ st[2]
      /\ inside \in Seq(cells)
      /\ Members(inside) = (Beside(cell) \ st[2]) \intersect cells
  BY <1>1, <1>2, TurnSees
<1>4. /\ next \in SweepState(cells) /\ next[2] = st[2] \union Members(Fresh(st))
      /\ len \in Nat /\ Len(next[1]) = len + Len(inside) /\ len = Len(st[1]) - 1
      /\ \A i \in 1 .. len : next[1][i] = st[1][i + 1]
      /\ \A i \in 1 .. Len(inside) : next[1][len + i] = <<inside[i], depth + 1>>
  <2>1. IsLater(cells, st, next)
    BY <1>1, <1>2, LaterIsState
  <2> QED
    BY <2>1 DEF IsLater
<1>5. 1 \in 1 .. Len(st[1]) /\ st[1][1] = Head(st[1]) /\ Len(inside) \in Nat
  BY <1>2, <1>3, <1>4 DEF SweepState
<1> DEFINE total == Len(next[1])
<1>6. /\ depth = Far(cell, start) /\ cell \in st[2]
      /\ \A i \in 1 .. Len(st[1]) : depth <= st[1][i][2] /\ st[1][i][2] <= depth + 1
  <2>1. \A i \in 1 .. Len(st[1]) : 1 <= i
    OBVIOUS
  <2> QED
    BY <1>5, <2>1 DEF Swept
<1> HIDE DEF depth, cell, rest, len, inside, next, total
<1>0. /\ len \in Nat /\ Len(inside) \in Nat /\ total = len + Len(inside) /\ Len(st[1]) = len + 1
      /\ next[2] = st[2] \union (Beside(cell) \ st[2])
  BY <1>2, <1>3, <1>4, <1>5 DEF total, SweepState
<1>7. \A c \in cells : Far(c, start) <= depth => c \in st[2]
  <2>1. \A i \in 1 .. Len(st[1]) : depth <= st[1][i][2]
    BY <1>6
  <2> QED
    BY <1>3, <2>1, AllSeen
<1>8. ASSUME NEW i \in 1 .. Len(inside)
      PROVE  inside[i] \in Beside(cell) \ st[2] /\ Far(inside[i], start) = depth + 1
  <2>1. inside[i] \in Beside(cell) /\ inside[i] \notin st[2] /\ inside[i] \in cells
    BY <1>3 DEF Members
  <2>2. inside[i] \in Int \X Int /\ cell \in Int \X Int /\ start \in Int \X Int
    BY <1>1, <1>3, <2>1
  <2> DEFINE n == inside[i]
  <2> HIDE DEF n
  <2>3. Far(n, cell) = 1
    BY <2>1, <2>2, BesideIsNear DEF n
  <2>4. Far(n, start) <= depth + 1 /\ Far(n, start) \in Nat
    BY <1>6, <2>2, <2>3, OneFarther, FarFacts DEF n
  <2>5. ~(Far(n, start) <= depth)
    BY <1>7, <2>1 DEF n
  <2>6. Far(n, start) = depth + 1
    BY <1>3, <2>4, <2>5
  <2> QED
    BY <2>1, <2>6 DEF n
<1>9. ASSUME NEW i \in 1 .. total
      PROVE  \/ i \in 1 .. len /\ i + 1 \in 1 .. Len(st[1]) /\ next[1][i] = st[1][i + 1]
             \/ i - len \in 1 .. Len(inside) /\ next[1][i] = <<inside[i - len], depth + 1>>
  <2>1. CASE i <= len
    <3>1. i \in 1 .. len /\ i + 1 \in 1 .. Len(st[1])
      BY <1>0, <2>1
    <3> QED
      BY <1>4, <3>1
  <2>2. CASE ~(i <= len)
    <3>1. i - len \in 1 .. Len(inside) /\ len + (i - len) = i
      BY <1>0, <2>2
    <3> QED
      BY <1>4, <3>1
  <2> QED
    BY <2>1, <2>2
<1>10. start \in next[2] /\ next[2] \intersect cells \subseteq blocked
  BY <1>0, <1>3 DEF Swept, inside
<1>11. ASSUME NEW i \in 1 .. total
       PROVE  /\ next[1][i][1] \in next[2] /\ next[1][i][2] = Far(next[1][i][1], start)
              /\ next[1][i][2] \in Nat /\ depth <= next[1][i][2] /\ next[1][i][2] <= depth + 1
  <2>1. CASE i \in 1 .. len /\ i + 1 \in 1 .. Len(st[1]) /\ next[1][i] = st[1][i + 1]
    <3>1. st[1][i + 1] \in cells \X Nat
      BY <1>2, <2>1 DEF SweepState
    <3> QED
      BY <1>0, <1>6, <2>1, <3>1 DEF Swept
  <2>2. CASE i - len \in 1 .. Len(inside) /\ next[1][i] = <<inside[i - len], depth + 1>>
    <3> DEFINE n == inside[i - len]
    <3>1. n \in Beside(cell) /\ Far(n, start) = depth + 1 /\ next[1][i] = <<n, depth + 1>>
      BY <1>8, <2>2
    <3>2. n \in next[2]
      BY <1>0, <3>1
    <3>3. depth + 1 \in Nat /\ depth <= depth + 1
      BY <1>3
    <3> QED
      BY <3>1, <3>2, <3>3
  <2> QED
    BY <1>9, <2>1, <2>2
<1>12. ASSUME NEW i \in 1 .. total, NEW j \in 1 .. total, i <= j
       PROVE  next[1][i][2] <= next[1][j][2] /\ next[1][j][2] <= next[1][i][2] + 1
  <2>1. next[1][j][2] <= next[1][i][2] + 1
    BY <1>3, <1>11
  <2>2. CASE j \in 1 .. len
    <3>1. i \in 1 .. len /\ i + 1 \in 1 .. Len(st[1]) /\ j + 1 \in 1 .. Len(st[1]) /\ i + 1 <= j + 1
      BY <1>0, <1>12, <2>2
    <3>2. next[1][i] = st[1][i + 1] /\ next[1][j] = st[1][j + 1]
      BY <1>4, <2>2, <3>1
    <3>3. st[1][i + 1][2] <= st[1][j + 1][2]
      BY <3>1 DEF Swept
    <3> QED
      BY <2>1, <3>2, <3>3
  <2>3. CASE j \notin 1 .. len
    <3>1. next[1][j][2] = depth + 1
      BY <1>9, <2>3
    <3> QED
      BY <1>11, <2>1, <3>1
  <2> QED
    BY <2>2, <2>3
<1>13. ASSUME NEW c \in next[2] \intersect cells
       PROVE  \/ \E i \in 1 .. total : next[1][i][1] = c
              \/ Beside(c) \intersect cells \subseteq next[2]
  <2>1. CASE c \notin st[2]
    <3>1. c \in Members(inside)
      BY <1>0, <1>3, <2>1
    <3>2. PICK i \in 1 .. Len(inside) : c = inside[i]
      BY <3>1 DEF Members
    <3>3. len + i \in 1 .. total /\ next[1][len + i] = <<c, depth + 1>>
      BY <1>0, <1>4, <3>2
    <3> QED
      BY <3>3
  <2>2. CASE c = cell
    BY <1>0, <2>2
  <2>3. CASE c \in st[2] /\ c # cell
    <3>1. CASE Beside(c) \intersect cells \subseteq st[2]
      BY <1>0, <3>1
    <3>2. CASE ~(Beside(c) \intersect cells \subseteq st[2])
      <4>1. PICK i \in 1 .. Len(st[1]) : st[1][i][1] = c
        BY <2>3, <3>2 DEF Swept
      <4>2. i # 1
        BY <1>5, <2>3, <4>1 DEF cell
      <4>3. i - 1 \in 1 .. len /\ (i - 1) + 1 = i /\ i - 1 \in 1 .. total
        BY <1>0, <4>2
      <4>4. next[1][i - 1] = st[1][i]
        BY <1>4, <4>3
      <4> QED
        BY <4>1, <4>3, <4>4
    <3> QED
      BY <3>1, <3>2
  <2> QED
    BY <2>1, <2>2, <2>3
<1> QED
  BY <1>4, <1>10, <1>11, <1>12, <1>13 DEF Swept, next, total

\* r is a free cell, and there is none nearer to the start.
IsNearestFree(r, cells, blocked, start) ==
    r = NoCell \/ /\ r \in cells \ blocked
                  /\ \A c \in cells \ blocked : Far(r, start) <= Far(c, start)

\* A turn that finds something finds the nearest.
LEMMA FindsTheNearest ==
    ASSUME NEW a \in Nat, NEW b \in Nat, NEW blocked, NEW start \in Board(a, b), NEW st,
           Swept(Board(a, b), blocked, start, st), st[1] # <<>>,
           Free(Board(a, b), blocked, st) # <<>>
    PROVE  IsNearestFree(Head(Free(Board(a, b), blocked, st)), Board(a, b), blocked, start)
<1> DEFINE cells == Board(a, b)
           cell == Head(st[1])[1]
           depth == Head(st[1])[2]
           free == Free(cells, blocked, st)
           r == Head(free)
<1>1. cells \subseteq Int \X Int /\ start \in Int \X Int
  BY DEF Board
<1>2. st \in SweepState(cells) /\ 1 \in 1 .. Len(st[1]) /\ st[1][1] = Head(st[1])
  BY DEF Swept, SweepState
<1>3. /\ cell \in cells /\ depth \in Nat
      /\ Inside(cells, st) \in Seq(cells)
      /\ Members(Inside(cells, st)) = (Beside(cell) \ st[2]) \intersect cells
  BY <1>1, <1>2, TurnSees
<1>4. free \in Seq(cells) /\ Members(free) = Members(Inside(cells, st)) \intersect (cells \ blocked)
  <2> DEFINE T == cells \ blocked
             s == Inside(cells, st)
  <2>1. s \in Seq(cells)
    BY <1>3
  <2> HIDE DEF T, s
  <2>2. Kept(s, T) \in Seq(cells) /\ Members(Kept(s, T)) = Members(s) \intersect T
    BY <2>1, KeptMembers
  <2> QED
    BY <2>2 DEF Free, s, T
<1>5. depth = Far(cell, start) /\ \A i \in 1 .. Len(st[1]) : depth <= st[1][i][2]
  <2>1. \A i \in 1 .. Len(st[1]) : 1 <= i
    OBVIOUS
  <2> QED
    BY <1>2, <2>1 DEF Swept
<1> HIDE DEF free
<1>6. r \in Members(free)
  <2>1. 1 \in 1 .. Len(free) /\ r = free[1]
    BY <1>4 DEF free
  <2> QED
    BY <2>1 DEF Members
<1> HIDE DEF r
<1>7. r \in Beside(cell) /\ r \in cells \ blocked
  BY <1>3, <1>4, <1>6
<1> HIDE DEF cell, depth
<1>8. Far(r, start) <= depth + 1 /\ Far(r, start) \in Nat
  <2>1. r \in Int \X Int /\ cell \in Int \X Int
    BY <1>1, <1>3, <1>7
  <2>2. Far(r, cell) = 1
    BY <1>7, <2>1, BesideIsNear
  <2> QED
    BY <1>1, <1>5, <2>1, <2>2, OneFarther, FarFacts
<1>9. ASSUME NEW c \in cells \ blocked PROVE Far(r, start) <= Far(c, start)
  <2>1. ~(Far(c, start) <= depth)
    <3>1. \A n \in cells : Far(n, start) <= depth => n \in st[2]
      BY <1>3, <1>5, AllSeen
    <3> QED
      BY <3>1 DEF Swept
  <2>2. Far(c, start) \in Nat
    BY <1>1, FarFacts
  <2> QED
    BY <1>3, <1>8, <2>1, <2>2
<1> QED
  BY <1>7, <1>9 DEF IsNearestFree, r, free

\* A turn that finds nothing has seen a cell that it had not, or shortened the
\* queue.
LEMMA GoesOnWithLess ==
    ASSUME NEW a \in Nat, NEW b \in Nat, NEW st \in SweepState(Board(a, b)), st[1] # <<>>
    PROVE  LET next == Later(Board(a, b), st)
               unseen(s) == Board(a, b) \ s[2]
           IN  /\ next \in SweepState(Board(a, b))
               /\ \/ Cardinality(unseen(next)) < Cardinality(unseen(st))
                  \/ /\ Cardinality(unseen(next)) = Cardinality(unseen(st))
                     /\ Len(next[1]) < Len(st[1])
<1> DEFINE cells == Board(a, b)
           inside == Inside(cells, st)
           next == Later(cells, st)
           rest == Tail(st[1])
           now == cells \ st[2]
           left == cells \ next[2]
<1>1. cells \subseteq Int \X Int /\ IsFiniteSet(cells)
  <2>1. cells \subseteq Int \X Int
    BY DEF Board
  <2>2. IsFiniteSet(0 .. a) /\ IsFiniteSet(0 .. b)
    BY FS_Interval
  <2>3. IsFiniteSet(cells)
    BY <2>2, FS_Product DEF Board
  <2> QED
    BY <2>1, <2>3
<1>2. /\ inside \in Seq(cells)
      /\ Members(inside) = Members(Fresh(st)) \intersect cells
      /\ Members(Fresh(st)) \intersect st[2] = {}
  BY <1>1, TurnSees
<1>3. IsLater(cells, st, next)
  BY <1>1, LaterIsState
<1>4. /\ next \in SweepState(cells) /\ next[2] = st[2] \union Members(Fresh(st))
      /\ Len(rest) \in Nat /\ Len(next[1]) = Len(rest) + Len(inside) /\ Len(rest) = Len(st[1]) - 1
  BY <1>3 DEF IsLater
<1>5. IsFiniteSet(now) /\ left = now \ Members(inside) /\ Members(inside) \subseteq now
  BY <1>1, <1>2, <1>4, FS_Difference
<1>6. CASE inside = <<>>
  <2>1. Members(inside) = {} /\ Len(inside) = 0
    BY <1>6 DEF Members
  <2>2. left = now /\ Len(next[1]) < Len(st[1])
    BY <1>4, <1>5, <2>1
  <2> QED
    BY <1>4, <2>2
<1>7. CASE inside # <<>>
  <2> HIDE DEF inside
  <2>1. 1 \in 1 .. Len(inside)
    BY <1>2, <1>7
  <2>2. inside[1] \in Members(inside)
    BY <2>1 DEF Members
  <2>3. left \in SUBSET now /\ left # now /\ IsFiniteSet(now)
    BY <1>5, <2>2
  <2>4. Cardinality(left) < Cardinality(now)
    <3> HIDE DEF left, now
    <3>1. Cardinality(left) <= Cardinality(now) /\ Cardinality(left) # Cardinality(now)
      BY <2>3, FS_Subset
    <3>2. Cardinality(left) \in Nat /\ Cardinality(now) \in Nat
      BY <2>3, FS_Subset, FS_CardinalityType
    <3> QED
      BY <3>1, <3>2
  <2> QED
    BY <1>4, <2>4
<1> QED
  BY <1>6, <1>7

\* _find_nearest_free_cell returns a free cell of the board, and none is nearer
\* to the start, which is on the board and blocked; or it returns none.
LEMMA FirstFreeIsNearest ==
    ASSUME NEW a \in Nat, NEW b \in Nat, NEW blocked, NEW start \in Board(a, b) \intersect blocked
    PROVE  IsNearestFree(FirstFree(Board(a, b), blocked, start), Board(a, b), blocked, start)
<1> DEFINE cells == Board(a, b)
           first == << << <<start, 0>> >>, {start}>>
<1>1. cells \subseteq Int \X Int /\ start \in cells
  BY DEF Board
<1>2. PICK f : /\ Sweeps(f, cells, blocked)
               /\ FirstFree(cells, blocked, start) = f[first]
  <2> HIDE DEF cells
  <2> QED
    BY <1>1, FirstFreeSweeps
<1>3. Swept(cells, blocked, start, first)
  <2>1. first[1] = << <<start, 0>> >> /\ first[2] = {start}
    OBVIOUS
  <2>2. Len(first[1]) = 1 /\ first[1][1] = <<start, 0>> /\ first[1] \in Seq(cells \X Nat)
    BY <1>1, <2>1
  <2>3. Far(start, start) = 0
    BY <1>1, FarFacts
  <2>4. first \in SweepState(cells)
    BY <1>1, <2>1, <2>2 DEF SweepState
  <2>5. \A i \in 1 .. Len(first[1]) : i = 1
    BY <2>2
  <2> HIDE DEF first, cells
  <2>6. first[1][1][1] = start /\ first[1][1][2] = 0
    BY <2>2
  <2>7. 1 \in 1 .. Len(first[1])
    BY <2>2
  <2> QED
    BY <2>1, <2>3, <2>4, <2>5, <2>6, <2>7 DEF Swept
<1> DEFINE Good(st) == IsNearestFree(f[st], cells, blocked, start)
           Bad == {st \in SweepState(cells) : Swept(cells, blocked, start, st) /\ ~Good(st)}
           unseen(st) == Cardinality(cells \ st[2])
<1>4. ASSUME NEW st \in Bad
      PROVE  /\ Later(cells, st) \in Bad
             /\ \/ unseen(Later(cells, st)) < unseen(st)
                \/ /\ unseen(Later(cells, st)) = unseen(st)
                   /\ Len(Later(cells, st)[1]) < Len(st[1])
  <2>1. st \in SweepState(cells) /\ Swept(cells, blocked, start, st) /\ ~Good(st)
    OBVIOUS
  <2> HIDE DEF Bad
  <2>2. f[st] = IF Exhausted(st) THEN NoCell
                ELSE IF Free(cells, blocked, st) # <<>> THEN Head(Free(cells, blocked, st))
                ELSE f[Later(cells, st)]
    BY <1>2, <2>1 DEF Sweeps
  <2>3. ~Exhausted(st) /\ st[1] # <<>>
    BY <2>1, <2>2 DEF IsNearestFree, Exhausted
  <2>4. Free(cells, blocked, st) = <<>>
    BY <2>1, <2>2, <2>3, FindsTheNearest
  <2>5. f[st] = f[Later(cells, st)]
    BY <2>2, <2>3, <2>4
  <2>6. Members(Inside(cells, st)) \subseteq blocked
    <3> DEFINE T == cells \ blocked
               s == Inside(cells, st)
    <3>1. s \in Seq(cells)
      BY <1>1, <2>1, <2>3, TurnSees
    <3>2. Members(s) \subseteq cells
      BY <3>1 DEF Members
    <3> HIDE DEF T, s
    <3>3. Members(Kept(s, T)) = Members(s) \intersect T
      BY <3>1, KeptMembers
    <3>4. Members(Kept(s, T)) = {}
      BY <2>4 DEF Free, s, T, Members
    <3> QED
      BY <3>2, <3>3, <3>4 DEF s, T
  <2>7. Swept(cells, blocked, start, Later(cells, st))
    BY <1>1, <2>1, <2>3, <2>6, SweptGoesOn
  <2>8. Later(cells, st) \in Bad
    BY <2>1, <2>5, <2>7 DEF Bad, Swept
  <2> QED
    BY <2>1, <2>3, <2>8, GoesOnWithLess
<1>5. ASSUME NEW st \in Bad PROVE unseen(st) \in Nat /\ Len(st[1]) \in Nat
  <2>1. IsFiniteSet(cells)
    <3>1. IsFiniteSet(0 .. a) /\ IsFiniteSet(0 .. b)
      BY FS_Interval
    <3> QED
      BY <3>1, FS_Product DEF Board
  <2>2. IsFiniteSet(cells \ st[2])
    BY <2>1, FS_Difference
  <2>3. st[1] \in Seq(cells \X Nat)
    BY DEF SweepState
  <2> QED
    BY <2>2, <2>3, FS_CardinalityType
<1> HIDE DEF Bad, unseen
<1>6. Bad = {}
  <2> SUFFICES ASSUME Bad # {} PROVE FALSE
    OBVIOUS
  <2> DEFINE counts == {unseen(st) : st \in Bad}
  <2>1. counts \in SUBSET Nat /\ counts # {}
    BY <1>5
  <2>2. PICK n \in counts : \A k \in counts : n <= k
    <3> HIDE DEF counts
    <3> QED
      BY <2>1, LeastElement
  <2> DEFINE least == {st \in Bad : unseen(st) = n}
             lens == {Len(st[1]) : st \in least}
  <2>3. lens \in SUBSET Nat /\ lens # {}
    BY <1>5
  <2>4. PICK l \in lens : \A k \in lens : l <= k
    <3> HIDE DEF lens
    <3> QED
      BY <2>3, LeastElement
  <2>5. PICK st \in Bad : unseen(st) = n /\ Len(st[1]) = l
    OBVIOUS
  <2> DEFINE next == Later(cells, st)
  <2>6. next \in Bad /\ unseen(next) \in Nat /\ Len(next[1]) \in Nat
    BY <1>4, <1>5
  <2>7. n <= unseen(next)
    BY <2>2, <2>6
  <2>8. unseen(next) = n /\ Len(next[1]) < l
    BY <1>4, <1>5, <2>5, <2>6, <2>7
  <2>9. l <= Len(next[1])
    BY <2>4, <2>6, <2>8
  <2> QED
    BY <1>5, <2>5, <2>6, <2>8, <2>9
<1>7. first \in SweepState(cells)
  BY <1>3 DEF Swept
<1> QED
  BY <1>2, <1>3, <1>6, <1>7 DEF Bad

\* Only the vector without extent has no length.
LEMMA LengthFacts ==
    ASSUME NEW v \in Int \X Int, v # <<0, 0>>
    PROVE  Length(v) \in Nat \ {0}
<1> DEFINE x == Dist(v[1], 0)
           z == Dist(v[2], 0)
           far == IF x < z THEN z ELSE x
           square == x * x + z * z
           high == x + z
           IsRoot(r) == r * r <= square /\ square < (r + 1) * (r + 1)
<1>1. x \in Nat /\ z \in Nat /\ (x # 0 \/ z # 0)
  BY DEF Dist
<1>2. Length(v) = CHOOSE r \in far .. high : IsRoot(r)
  BY DEF Length
<1> HIDE DEF x, z
<1>3. far \in Nat \ {0} /\ high \in Nat
  BY <1>1
<1>4. x * x \in Nat /\ z * z \in Nat /\ x * z \in Nat
  BY <1>1
<1>5. far * far <= square /\ square \in Nat
  BY <1>1, <1>4
<1>6. square < (high + 1) * (high + 1)
  <2>1. (high + 1) * (high + 1) = x * x + z * z + 2 * (x * z) + 2 * high + 1
    BY <1>1
  <2> QED
    BY <1>1, <1>3, <1>4, <2>1
<1> HIDE DEF far, high, square
<1>7. \E r \in far .. high : IsRoot(r)
  BY <1>3, <1>5, <1>6, RootExists
<1> HIDE DEF IsRoot
<1>8. Length(v) \in far .. high
  BY <1>2, <1>7
<1> QED
  BY <1>3, <1>8

\* What scenes are made of.
LEMMA SceneFacts ==
    ASSUME NEW s \in Scenes
    PROVE  /\ s.kind \in {"hm3d", "grid"}
           /\ s.kind = "hm3d" =>
                /\ s.lo[1] \in Int /\ s.lo[2] \in Int /\ s.lo[3] \in Int
                /\ s.hi[1] \in Int /\ s.hi[2] \in Int /\ s.hi[3] \in Int
                /\ s.lo[1] <= s.hi[1] /\ s.lo[2] <= s.hi[2]
                /\ CellsAlong(s, 1) \in Nat \ {0} /\ CellsAlong(s, 2) \in Nat \ {0}
                /\ CellsAlong(s, 1) <= MaxSpan /\ CellsAlong(s, 2) <= MaxSpan
                /\ GridCells(s) = Board(CellsAlong(s, 1) - 1, CellsAlong(s, 2) - 1)
           /\ s.kind = "grid" =>
                /\ s.nx \in Nat \ {0} /\ s.nz \in Nat \ {0}
                /\ s.records \subseteq Int \X Int /\ s.home \in Int \X Int \X Int
<1>1. ASSUME s.kind = "hm3d"
      PROVE  /\ s.lo[1] \in Int /\ s.lo[2] \in Int /\ s.lo[3] \in Int
             /\ s.hi[1] \in Int /\ s.hi[2] \in Int /\ s.hi[3] \in Int
             /\ s.lo[1] <= s.hi[1] /\ s.lo[2] <= s.hi[2]
             /\ CellsAlong(s, 1) \in Nat \ {0} /\ CellsAlong(s, 2) \in Nat \ {0}
             /\ CellsAlong(s, 1) <= MaxSpan /\ CellsAlong(s, 2) <= MaxSpan
  <2>1. /\ s.lo \in Int \X Int \X Int /\ s.hi \in Int \X Int \X Int
        /\ \A i \in 1 .. 3 : s.lo[i] <= s.hi[i]
        /\ CellsAlong(s, 1) <= MaxSpan /\ CellsAlong(s, 2) <= MaxSpan
    BY <1>1, SceneAssumption
  <2>2. /\ s.lo[1] \in Int /\ s.lo[2] \in Int /\ s.lo[3] \in Int
        /\ s.hi[1] \in Int /\ s.hi[2] \in Int /\ s.hi[3] \in Int
        /\ s.lo[1] <= s.hi[1] /\ s.lo[2] <= s.hi[2]
    BY <2>1
  <2>3. CellsAlong(s, 1) \in Nat \ {0} /\ CellsAlong(s, 2) \in Nat \ {0}
    BY <2>2 DEF CellsAlong, AGENT_RADIUS, RESOLUTION
  <2> QED
    BY <2>1, <2>2, <2>3
<1>2. s.kind = "hm3d" => GridCells(s) = Board(CellsAlong(s, 1) - 1, CellsAlong(s, 2) - 1)
  BY <1>1 DEF GridCells, Board
<1>3. /\ s.kind \in {"hm3d", "grid"}
      /\ s.kind = "grid" =>
            /\ s.nx \in Nat \ {0} /\ s.nz \in Nat \ {0}
            /\ s.records \subseteq Int \X Int /\ s.home \in Int \X Int \X Int
  BY SceneAssumption
<1> QED
  BY <1>1, <1>2, <1>3

\* Positions are rounded to integers.
LEMMA RoundTypes ==
    ASSUME NEW a \in Int
    PROVE  Round(a, 500) \in Int /\ Round(a, 1000) \in Int
  BY DEF Round

\* A clamped coordinate is one of the grid.
LEMMA ClampFacts ==
    \A hi \in Nat : \A v \in Int : Clamp(0, hi, v) \in 0 .. hi
  BY DEF Clamp

\* The cell of the grid next to a position.
Edge(s, v) ==
    <<Clamp(0, CellsAlong(s, 1) - 1, CellAt(s, v)[1]), Clamp(0, CellsAlong(s, 2) - 1, CellAt(s, v)[2])>>

\* _find_nearest_free_cell, asked for a position: a free cell of the grid, and
\* none is nearer to the cell next to the position.
LEMMA NearestFacts ==
    ASSUME NEW s \in Scenes, s.kind = "hm3d", NEW blocked, NEW v \in Int \X Int \X Int
    PROVE  /\ Edge(s, v) \in GridCells(s) /\ GridCells(s) \subseteq Int \X Int
           /\ IsNearestFree(Nearest(s, blocked, v), GridCells(s), blocked, Edge(s, v))
<1> DEFINE c == Edge(s, v)
           a == CellsAlong(s, 1) - 1
           b == CellsAlong(s, 2) - 1
<1>1. a \in Nat /\ b \in Nat /\ GridCells(s) = Board(a, b) /\ s.lo[1] \in Int /\ s.lo[2] \in Int
  BY SceneFacts
<1>2. CellAt(s, v)[1] \in Int /\ CellAt(s, v)[2] \in Int
  BY <1>1, RoundTypes DEF CellAt, Origin, AGENT_RADIUS, RESOLUTION
<1>3. c = <<Clamp(0, a, CellAt(s, v)[1]), Clamp(0, b, CellAt(s, v)[2])>>
  BY DEF Edge
<1>4. c \in Board(a, b) /\ GridCells(s) \subseteq Int \X Int
  <2> HIDE DEF a, b, c
  <2>2. Clamp(0, a, CellAt(s, v)[1]) \in 0 .. a /\ Clamp(0, b, CellAt(s, v)[2]) \in 0 .. b
    BY <1>1, <1>2, ClampFacts
  <2> QED
    BY <1>1, <1>3, <2>2 DEF Board
<1>5. Nearest(s, blocked, v) = IF c \notin blocked THEN c ELSE FirstFree(GridCells(s), blocked, c)
  BY DEF Nearest, Edge
<1> HIDE DEF a, b, c
<1>6. CASE c \notin blocked
  <2>1. c \in Int \X Int /\ Board(a, b) \subseteq Int \X Int
    BY <1>1, <1>4
  <2>2. Far(c, c) = 0 /\ \A n \in Board(a, b) : Far(n, c) \in Nat
    BY <2>1, FarFacts
  <2>3. \A n \in Board(a, b) : Far(c, c) <= Far(n, c)
    BY <2>2
  <2> QED
    BY <1>1, <1>4, <1>5, <1>6, <2>3 DEF IsNearestFree, c
<1>7. CASE c \in blocked
  <2>1. IsNearestFree(FirstFree(Board(a, b), blocked, c), Board(a, b), blocked, c)
    BY <1>1, <1>4, <1>7, FirstFreeIsNearest
  <2> QED
    BY <1>1, <1>4, <1>5, <1>7, <2>1 DEF c
<1> QED
  BY <1>6, <1>7

\* Scenes and positions make problems.
LEMMA ProblemForFacts ==
    ASSUME NEW s \in Scenes, NEW v \in Int \X Int \X Int, NEW w \in Int \X Int \X Int,
           NoCell \notin {ProblemFor(s, v, w).start, ProblemFor(s, v, w).goal}
    PROVE  ProblemFor(s, v, w) \in Problem
<1> DEFINE p == ProblemFor(s, v, w)
<1>1. CASE s.kind = "hm3d"
  <2> DEFINE blocked == Occupied(s)
  <2>1. p = [kind |-> "hm3d", nx |-> CellsAlong(s, 1), nz |-> CellsAlong(s, 2), blocked |-> blocked,
             start |-> Nearest(s, blocked, v), goal |-> Nearest(s, blocked, w)]
    BY <1>1 DEF ProblemFor
  <2>2. GridCells(s) \subseteq Int \X Int
    BY <1>1, NearestFacts
  <2>3. blocked \subseteq Int \X Int
    BY <2>2 DEF Occupied
  <2> HIDE DEF blocked
  <2>4. /\ IsNearestFree(Nearest(s, blocked, v), GridCells(s), blocked, Edge(s, v))
        /\ IsNearestFree(Nearest(s, blocked, w), GridCells(s), blocked, Edge(s, w))
    BY <1>1, NearestFacts
  <2>5. Nearest(s, blocked, v) \in Int \X Int /\ Nearest(s, blocked, w) \in Int \X Int
    BY <2>1, <2>2, <2>4 DEF IsNearestFree
  <2>6. /\ CellsAlong(s, 1) \in Nat /\ CellsAlong(s, 2) \in Nat
        /\ CellsAlong(s, 1) <= MaxSpan /\ CellsAlong(s, 2) <= MaxSpan
    BY <1>1, SceneFacts
  <2> HIDE DEF p
  <2> QED
    BY <2>1, <2>3, <2>5, <2>6 DEF Problem, p
<1>2. CASE s.kind = "grid"
  <2> DEFINE blocked == {Cell(r) : r \in s.records} \ {Cell(w)}
  <2>1. p = [kind |-> "grid", nx |-> s.nx, nz |-> s.nz, blocked |-> blocked,
             start |-> Cell(v), goal |-> Cell(w)]
    BY <1>2 DEF ProblemFor
  <2>2. s.nx \in Nat /\ s.nz \in Nat /\ s.records \subseteq Int \X Int
    BY <1>2, SceneFacts
  <2>3. \A x \in Int, z \in Int : <<Round(x, 1000), Round(z, 1000)>> \in Int \X Int
    BY RoundTypes
  <2>4. Cell(v) \in Int \X Int /\ Cell(w) \in Int \X Int
    BY <2>3 DEF Cell
  <2>5. blocked \subseteq Int \X Int
    BY <2>2, <2>3 DEF Cell
  <2> HIDE DEF p, blocked
  <2> QED
    BY <2>1, <2>2, <2>4, <2>5 DEF Problem, p
<1> QED
  BY <1>1, <1>2, SceneFacts
-----------------------------------------------------------------------------
(***************************************************************************)
(* The calls of the planner.                                               *)
(***************************************************************************)
\* The robot is somewhere and looks somewhere; and while a search is on, it is
\* the one for the scene, where the robot stands and what it was sent to.
NavInv ==
    /\ scene \in Scenes \union {NoScene}
    /\ pose \in Int \X Int \X Int
    /\ heading \in Int \X Int /\ heading # <<0, 0>>
    /\ search # "idle" =>
        /\ scene \in Scenes
        /\ target \in Int \X Int \X Int
        /\ problem = ProblemFor(scene, pose, target)
        /\ NoCell \notin {problem.start, problem.goal}

\* What the search does is what AStar does to a problem of its own.
LEMMA NavSteps == NavInv /\ [NavNext]_vars => [Next]_astarVars
<1> SUFFICES ASSUME NavInv, [NavNext]_vars PROVE [Next]_astarVars
  OBVIOUS
<1>1. ASSUME NEW object \in DOMAIN scene.objects, scene # NoScene, Navigate(object)
      PROVE  [Next]_astarVars
  <2> DEFINE v == scene.objects[object]
             p == ProblemFor(scene, pose, v)
  <2>1. scene \in Scenes /\ v \in Int \X Int \X Int /\ pose \in Int \X Int \X Int
    BY <1>1, SceneAssumption DEF NavInv
  <2>2. CASE UNCHANGED astarVars
    BY <2>2
  <2>3. CASE NoCell \notin {p.start, p.goal} /\ Begin(p)
    <3>1. p \in Problem
      BY <2>1, <2>3, ProblemForFacts
    <3>2. search = "idle"
      BY <1>1 DEF Navigate
    <3> QED
      BY <2>3, <3>1, <3>2 DEF Next
  <2>4. UNCHANGED astarVars \/ (NoCell \notin {p.start, p.goal} /\ Begin(p))
    <3> HIDE DEF v
    <3> USE DEF v
    <3> QED
      BY <1>1, Zenon DEF Navigate
  <2> QED
    BY <2>2, <2>3, <2>4
<1>2. CASE \E s \in Scenes : Enter(s)
  BY <1>2 DEF Enter
<1>3. CASE NavigateNowhere
  BY <1>3 DEF NavigateNowhere
<1>4. CASE Searches
  BY <1>4 DEF Searches, Next
<1>5. CASE NoWay
  BY <1>5 DEF NoWay, Return, Next
<1>6. CASE Walk
  BY <1>6 DEF Walk, Return, Next
<1>7. CASE StartSmoothing
  BY <1>7 DEF StartSmoothing
<1>8. CASE \E j \in 1 .. Len(way) : Shortcut(j)
  BY <1>8 DEF Shortcut
<1>9. CASE NextPass
  BY <1>9 DEF NextPass
<1>10. CASE Arrive
  BY <1>10 DEF Arrive, Return, Next
<1>11. CASE \E token \in Token, stride \in Strides : Move(token, stride)
  BY <1>11 DEF Move
<1>12. CASE Replay
  BY <1>12 DEF Replay
<1>13. CASE UNCHANGED vars
  BY <1>13 DEF vars
<1> QED
  BY <1>1, <1>2, <1>3, <1>4, <1>5, <1>6, <1>7, <1>8, <1>9, <1>10, <1>11, <1>12, <1>13 DEF NavNext

\* Where the robot may be when it is created.
LEMMA HomeTypes ==
    ASSUME NEW s \in Scenes
    PROVE  Home(s) \in Int \X Int \X Int
<1>1. CASE s.kind = "grid"
  BY <1>1, SceneFacts DEF Home
<1>2. CASE s.kind = "hm3d"
  <2>1. /\ s.lo[1] \in Int /\ s.lo[2] \in Int /\ s.lo[3] \in Int
        /\ s.hi[1] \in Int /\ s.hi[2] \in Int /\ s.hi[3] \in Int
    BY <1>2, SceneFacts
  <2>2. /\ (s.lo[1] + s.hi[1]) \div 2 \in Int /\ (s.lo[2] + s.hi[2]) \div 2 \in Int
        /\ (IF s.bounded THEN (s.lo[3] + s.hi[3]) \div 2 ELSE 0) \in Int
    BY <2>1
  <2> QED
    BY <1>2, <2>2 DEF Home
<1> QED
  BY <1>1, <1>2, SceneFacts

\* No displacement leads out of the space.
LEMMA ShiftedTypes ==
    ASSUME NavInv, scene \in Scenes, NEW token, NEW stride \in Nat
    PROVE  Shifted(pose, Displacement(token, stride)) \in Int \X Int \X Int
<1> DEFINE d == Displacement(token, stride)
<1>1. /\ pose[1] \in Int /\ pose[2] \in Int /\ pose[3] \in Int
      /\ heading[1] \in Int /\ heading[2] \in Int /\ Length(heading) \in Nat \ {0}
  BY LengthFacts DEF NavInv
<1>2. \A length \in Int : Ahead(length) \in Int \X Int
  <2> SUFFICES ASSUME NEW length \in Int PROVE Ahead(length) \in Int \X Int
    OBVIOUS
  <2> DEFINE norm == Length(heading)
             x == length * heading[1]
             z == length * heading[2]
  <2>1. x \in Int /\ z \in Int /\ norm \in Nat \ {0}
    BY <1>1
  <2>2. Ahead(length) = <<x \div norm, z \div norm>>
    BY DEF Ahead
  <2> HIDE DEF x, z, norm
  <2>3. x \div norm \in Int /\ z \div norm \in Int
    BY <2>1
  <2> QED
    BY <2>2, <2>3
<1>3. d \in Int \X Int
  <2>1. stride \in Int /\ -stride \in Int /\ <<0, 0>> \in Int \X Int
    OBVIOUS
  <2>2. Ahead(stride) \in Int \X Int /\ Ahead(-stride) \in Int \X Int
    BY <1>2, <2>1
  <2> QED
    BY <2>1, <2>2, Zenon DEF Displacement
<1> HIDE DEF d
<1>4. d[1] \in Int /\ d[2] \in Int
  BY <1>3
<1>5. \A lo, hi, v \in Int : Clamp(lo, hi, v) \in Int
  BY DEF Clamp
<1>6. CASE scene.kind = "grid"
  <2> DEFINE nx == 1000 * (scene.nx - 1)
             nz == 1000 * (scene.nz - 1)
             x == pose[1] + d[1]
             z == pose[2] + d[2]
  <2>1. nx \in Int /\ nz \in Int
    BY <1>6, SceneFacts
  <2>2. x \in Int /\ z \in Int /\ 0 \in Int
    BY <1>1, <1>4
  <2>3. Shifted(pose, d) = <<Clamp(0, nx, x), Clamp(0, nz, z), 0>>
    BY <1>6 DEF Shifted
  <2> HIDE DEF nx, nz, x, z
  <2>4. Clamp(0, nx, x) \in Int /\ Clamp(0, nz, z) \in Int
    BY <1>5, <2>1, <2>2
  <2> QED
    BY <2>2, <2>3, <2>4 DEF d
<1>7. CASE scene.kind = "hm3d"
  <2>1. /\ scene.lo[1] \in Int /\ scene.lo[2] \in Int /\ scene.lo[3] \in Int
        /\ scene.hi[1] \in Int /\ scene.hi[2] \in Int /\ scene.hi[3] \in Int
    BY <1>7, SceneFacts
  <2>2. pose[1] + d[1] \in Int /\ pose[3] + d[2] \in Int
    BY <1>1, <1>4
  <2>3. /\ Clamp(scene.lo[1], scene.hi[1], pose[1] + d[1]) \in Int
        /\ Clamp(scene.lo[2], scene.hi[2], pose[2]) \in Int
        /\ Clamp(scene.lo[3], scene.hi[3], pose[3] + d[2]) \in Int
    BY <1>1, <1>5, <2>1, <2>2
  <2> QED
    BY <1>1, <1>7, <2>2, <2>3 DEF Shifted, d
<1> QED
  BY <1>6, <1>7, SceneFacts

\* A robot never looks nowhere.
LEMMA TowardsTypes ==
    ASSUME NavInv, NEW v \in Int \X Int \X Int, NEW w \in Int \X Int, w # <<0, 0>>
    PROVE  Towards(v, w) \in Int \X Int /\ Towards(v, w) # <<0, 0>>
<1>1. pose[1] \in Int /\ pose[2] \in Int /\ v[1] \in Int /\ v[2] \in Int
  BY DEF NavInv
<1>2. CASE pose[1] = v[1] /\ pose[2] = v[2]
  BY <1>2 DEF Towards
<1>3. CASE ~(pose[1] = v[1] /\ pose[2] = v[2])
  <2> DEFINE x == v[1] - pose[1]
             z == v[2] - pose[2]
  <2>1. x \in Int /\ z \in Int /\ (x # 0 \/ z # 0)
    BY <1>1, <1>3
  <2>2. Towards(v, w) = <<x, z>>
    BY <1>3 DEF Towards
  <2> HIDE DEF x, z
  <2> QED
    BY <2>1, <2>2
<1> QED
  BY <1>2, <1>3

\* A path that was found leads from one cell to another, to the goal.
LEMMA FoundPath ==
    ASSUME IInv, HeapInv, search = "found"
    PROVE  LET path == PathTo(problem.goal) IN
           /\ path \in Seq(Int \X Int) /\ Len(path) \in Nat /\ Len(path) >= 1
           /\ path[1] = problem.start /\ path[Len(path)] = problem.goal
           /\ \A i \in 2 .. Len(path) : LegalStep(problem, path[i - 1], path[i])
<1> DEFINE path == PathTo(problem.goal)
<1>1. problem \in Problem /\ InGrid(problem)
  BY DEF IInv, ScoresInv, HeapInv
<1>2. problem.goal \in DOMAIN gScore
  <2>1. PICK e \in open : e[2] = problem.goal
    BY <1>1 DEF HeapInv
  <2> QED
    BY <2>1 DEF IInv, ScoresInv
<1>3. Chain(path, problem.goal)
  BY <1>1, <1>2, PathIsChain
<1> HIDE DEF path
<1>a. /\ path \in Seq(Int \X Int) /\ Len(path) >= 1
      /\ path[1] = problem.start /\ path[Len(path)] = problem.goal
      /\ \A i \in 2 .. Len(path) : path[i] \in DOMAIN cameFrom /\ path[i - 1] = cameFrom[path[i]]
  BY <1>3 DEF Chain
<1>4. /\ path \in Seq(Int \X Int) /\ Len(path) \in Nat /\ Len(path) >= 1
      /\ path[1] = problem.start /\ path[Len(path)] = problem.goal
      /\ \A i \in 2 .. Len(path) : path[i] \in DOMAIN cameFrom /\ path[i - 1] = cameFrom[path[i]]
  BY <1>a, SequenceFacts
<1>5. \A i \in 2 .. Len(path) : LegalStep(problem, path[i - 1], path[i])
  BY <1>4 DEF IInv, TreeIsSound
<1> QED
  BY <1>4, <1>5 DEF path

\* Every call keeps it.
LEMMA NavKept == NavInv /\ IInv /\ HeapInv /\ [NavNext]_vars => NavInv'
<1> SUFFICES ASSUME NavInv, IInv, HeapInv, [NavNext]_vars PROVE NavInv'
  OBVIOUS
<1> DEFINE Looking(look) == look \in Int \X Int /\ look # <<0, 0>>
<1>0. /\ scene \in Scenes \union {NoScene} /\ pose \in Int \X Int \X Int /\ Looking(heading)
      /\ NoScene \notin Scenes
      /\ search # "idle" =>
            /\ scene \in Scenes /\ target \in Int \X Int \X Int
            /\ problem = ProblemFor(scene, pose, target)
            /\ NoCell \notin {problem.start, problem.goal}
  BY SceneAssumption DEF NavInv
<1>a. ASSUME scene' \in Scenes \union {NoScene}, pose' \in Int \X Int \X Int, Looking(heading'),
             search' = "idle"
      PROVE  NavInv'
  BY <1>a DEF NavInv
<1>b. ASSUME UNCHANGED <<scene, pose, heading, target, problem, search>>
      PROVE  NavInv'
  <2> HIDE DEF Looking
  <2> QED
    BY <1>b DEF NavInv
<1>1. ASSUME NEW object \in DOMAIN scene.objects, scene # NoScene, Navigate(object)
      PROVE  NavInv'
  <2> DEFINE v == scene.objects[object]
             p == ProblemFor(scene, pose, v)
  <2>1. scene \in Scenes /\ v \in Int \X Int \X Int /\ scene' = scene /\ search = "idle"
    BY <1>0, <1>1, SceneAssumption DEF Navigate
  <2>2. CASE Straight(v) /\ UNCHANGED astarVars
    <3>1. pose' = v /\ heading' = Towards(v, <<1, 0>>) /\ search' = "idle"
      BY <2>1, <2>2 DEF Straight, astarVars
    <3>2. <<1, 0>> \in Int \X Int /\ <<1, 0>> # <<0, 0>>
      OBVIOUS
    <3>3. Looking(Towards(v, <<1, 0>>))
      BY <2>1, <3>2, TowardsTypes
    <3> HIDE DEF v
    <3> QED
      BY <1>0, <1>a, <2>1, <3>1, <3>3
  <2>3. CASE /\ NoCell \notin {p.start, p.goal} /\ Begin(p) /\ target' = v
             /\ UNCHANGED <<pose, heading>>
    <3>1. problem' = p
      BY <2>3 DEF Begin
    <3> HIDE DEF p, v
    <3>2. p = ProblemFor(scene', pose', target')
      BY <2>1, <2>3 DEF p
    <3> QED
      BY <1>0, <2>1, <2>3, <3>1, <3>2 DEF NavInv
  <2>4. \/ Straight(v) /\ UNCHANGED astarVars
        \/ /\ NoCell \notin {p.start, p.goal} /\ Begin(p) /\ target' = v
           /\ UNCHANGED <<pose, heading>>
    BY <1>1, Zenon DEF Navigate
  <2> QED
    BY <2>2, <2>3, <2>4
<1>2. ASSUME NEW s \in Scenes, Enter(s) PROVE NavInv'
  <2>1. scene' = s /\ pose' = Home(s) /\ heading' = heading /\ search' = search /\ search = "idle"
    BY <1>0, <1>2 DEF Enter, astarVars
  <2> QED
    BY <1>0, <1>a, <2>1, HomeTypes
<1>3. CASE NavigateNowhere
  BY <1>b, <1>3 DEF NavigateNowhere, astarVars
<1>4. CASE Searches
  <2>1. UNCHANGED <<scene, pose, heading, target>>
    BY <1>4 DEF Searches, navVars
  <2>2. search = "searching" /\ problem' = problem
    BY <1>4 DEF Searches, Loop, GiveUp, Expand, Reach
  <2> QED
    BY <1>0, <2>1, <2>2 DEF NavInv
<1>5. CASE NoWay
  <2>1. search' = "idle" /\ search = "none" /\ scene' = scene
    BY <1>5 DEF NoWay, Return, Forget
  <2>2. target \in Int \X Int \X Int
    BY <1>0, <2>1
  <2>3. CASE scene.kind = "hm3d"
    <3>1. pose' = target /\ heading' = Towards(target, <<1, 0>>)
      BY <1>5, <2>3 DEF NoWay, Straight
    <3>2. <<1, 0>> \in Int \X Int /\ <<1, 0>> # <<0, 0>>
      OBVIOUS
    <3>3. Looking(heading')
      BY <2>2, <3>1, <3>2, TowardsTypes
    <3> QED
      BY <1>0, <1>a, <2>1, <2>2, <3>1, <3>3
  <2>4. CASE scene.kind # "hm3d"
    <3>1. pose' = pose /\ heading' = heading
      BY <1>5, <2>4 DEF NoWay
    <3> QED
      BY <1>0, <1>a, <2>1, <3>1
  <2> QED
    BY <2>3, <2>4
<1>6. CASE Walk
  <2> DEFINE path == PathTo(problem.goal)
  <2>1. /\ search = "found" /\ search' = "idle" /\ scene' = scene
        /\ pose' = IF Len(path) > 1
                   THEN <<1000 * problem.goal[1], 1000 * problem.goal[2], 0>> ELSE pose
        /\ heading' = IF Len(path) > 1
                      THEN <<problem.goal[1] - path[Len(path) - 1][1],
                             problem.goal[2] - path[Len(path) - 1][2]>> ELSE heading
    BY <1>6 DEF Walk, Return, Forget
  <2>2. /\ path \in Seq(Int \X Int) /\ Len(path) \in Nat
        /\ path[Len(path)] = problem.goal
        /\ \A i \in 2 .. Len(path) : LegalStep(problem, path[i - 1], path[i])
    BY <2>1, FoundPath
  <2>3. CASE Len(path) > 1
    <3> HIDE DEF path
    <3> DEFINE a == path[Len(path) - 1]
               b == problem.goal
    <3>1. Len(path) \in 2 .. Len(path) /\ Len(path) - 1 \in 1 .. Len(path) /\ Len(path) \in 1 .. Len(path)
      BY <2>2, <2>3
    <3>2. path[Len(path)] \in Int \X Int /\ path[Len(path) - 1] \in Int \X Int
      BY <2>2, <3>1
    <3>3. b # a
      BY <2>2, <3>1 DEF LegalStep
    <3>4. a \in Int \X Int /\ b \in Int \X Int
      BY <2>2, <3>2
    <3>5. heading' = <<b[1] - a[1], b[2] - a[2]>> /\ pose' = <<1000 * b[1], 1000 * b[2], 0>>
      BY <2>1, <2>3
    <3> HIDE DEF a, b
    <3>11. /\ a[1] \in Int /\ a[2] \in Int /\ b[1] \in Int /\ b[2] \in Int
           /\ a = <<a[1], a[2]>> /\ b = <<b[1], b[2]>>
      BY <3>4
    <3> DEFINE x == b[1] - a[1]
               z == b[2] - a[2]
    <3>6. x \in Int /\ z \in Int /\ (x # 0 \/ z # 0)
      BY <3>3, <3>11
    <3>7. 1000 * b[1] \in Int /\ 1000 * b[2] \in Int
      BY <3>11
    <3>8. pose' \in Int \X Int \X Int
      BY <3>5, <3>7
    <3>9. heading' = <<x, z>>
      BY <3>5
    <3> HIDE DEF x, z
    <3>10. Looking(heading')
      BY <3>6, <3>9
    <3> QED
      BY <1>0, <1>a, <2>1, <3>8, <3>10
  <2>4. CASE ~(Len(path) > 1)
    <3>1. pose' = pose /\ heading' = heading
      BY <2>1, <2>4
    <3> QED
      BY <1>0, <1>a, <2>1, <3>1
  <2> QED
    BY <2>3, <2>4
<1>7. CASE StartSmoothing
  BY <1>b, <1>7 DEF StartSmoothing, astarVars
<1>8. CASE \E j \in 1 .. Len(way) : Shortcut(j)
  BY <1>b, <1>8 DEF Shortcut, astarVars
<1>9. CASE NextPass
  BY <1>b, <1>9 DEF NextPass, astarVars
<1>10. CASE Arrive
  <2>1. /\ search' = "idle" /\ search # "idle" /\ scene' = scene
        /\ pose' = target /\ heading' = Towards(target, heading)
    BY <1>10 DEF Arrive, Return, Forget
  <2>2. target \in Int \X Int \X Int
    BY <1>0, <2>1
  <2>3. Looking(heading')
    BY <1>0, <2>1, <2>2, TowardsTypes
  <2> QED
    BY <1>0, <1>a, <2>1, <2>2, <2>3
<1>11. ASSUME NEW token \in Token, NEW stride \in Strides, Move(token, stride) PROVE NavInv'
  <2>1. /\ search' = "idle" /\ scene' = scene /\ scene # NoScene
        /\ pose' = Shifted(pose, Displacement(token, stride))
        /\ \/ heading' = <<-heading[2], heading[1]>>
           \/ heading' = heading
    BY <1>11 DEF Move, astarVars
  <2>2. stride \in Nat /\ scene \in Scenes
    BY <1>0, <2>1, SceneAssumption
  <2>3. pose' \in Int \X Int \X Int
    BY <2>1, <2>2, ShiftedTypes
  <2>4. Looking(heading')
    BY <1>0, <2>1
  <2> QED
    BY <1>0, <1>a, <2>1, <2>3, <2>4
<1>12. CASE Replay
  BY <1>b, <1>12 DEF Replay, astarVars
<1>13. CASE UNCHANGED vars
  BY <1>b, <1>13 DEF vars, navVars, astarVars
<1> QED
  BY <1>1, <1>2, <1>3, <1>4, <1>5, <1>6, <1>7, <1>8, <1>9, <1>10, <1>11, <1>12, <1>13 DEF NavNext

\* The planner is a client of the search.
LEMMA NavInitInv == NavInit => NavInv /\ Init
  BY DEF NavInit, NavInv, Init

\* navigate_to_object, execute_action and what they call keep the invariant of the
\* planner, and their searches those of the search: a search is always the one for
\* the scene, the robot and the object at hand.
THEOREM NavInvariant == NavSpec => [](NavInv /\ IInv /\ HeapInv)
<1>1. Init => IInv /\ HeapInv
  BY DEF Init, IInv, ScoresInv, TreeIsSound, HeapInv
<1>2. NavInv /\ IInv /\ HeapInv /\ [NavNext]_vars => NavInv' /\ IInv' /\ HeapInv'
  BY NavSteps, NavKept, NextIInv, NextHeap
<1> QED
  BY <1>1, <1>2, NavInitInv, PTL DEF NavSpec

\* Navigation implements AStar: between two searches navigate_to_object leaves no
\* trace in the state of the search, and while one is on only the search's own
\* loop changes it.  So what is proved of every search holds of the robot's.
THEOREM NavigationSearches == NavSpec => Spec
  BY NavInitInv, NavSteps, NavInvariant, PTL DEF NavSpec, Spec

\* The server, whichever adapter it chooses, drives HM3DAdapter and
\* GridWorldAdapter as Navigation describes: its other steps leave them alone.
THEOREM ServerNavigates == EmbodiedSpec => NavSpec
<1>1. EmbodiedInit => NavInit
  BY DEF EmbodiedInit
<1>2. [EmbodiedNext]_allVars => [NavNext]_vars
  <2>1. CASE Starts
    BY <2>1 DEF Starts
  <2>2. CASE Serve
    BY <2>2 DEF Serve, vars
  <2>3. CASE Works
    BY <2>3 DEF Works
  <2>4. CASE UNCHANGED allVars
    BY <2>4 DEF allVars
  <2> QED
    BY <2>1, <2>2, <2>3, <2>4 DEF EmbodiedNext
<1> QED
  BY <1>1, <1>2, PTL DEF EmbodiedSpec, NavSpec

\* What EndsAreNearest asks of a state, it has from the invariant.
LEMMA EndsHold == NavInv => EndsAreNearest
<1> SUFFICES ASSUME NavInv, search = "searching", scene.kind = "hm3d"
             PROVE  LET edge(v) == <<Clamp(0, problem.nx - 1, CellAt(scene, v)[1]),
                                     Clamp(0, problem.nz - 1, CellAt(scene, v)[2])>>
                        free == Cells(problem) \ problem.blocked
                    IN  \A e \in {<<problem.start, edge(pose)>>, <<problem.goal, edge(target)>>} :
                          e[1] \in free /\ \A c \in free : Chebyshev(e[1], e[2]) <= Chebyshev(c, e[2])
  BY DEF EndsAreNearest
<1> DEFINE blocked == Occupied(scene)
           edge(v) == <<Clamp(0, problem.nx - 1, CellAt(scene, v)[1]),
                        Clamp(0, problem.nz - 1, CellAt(scene, v)[2])>>
<1>1. /\ scene \in Scenes /\ target \in Int \X Int \X Int /\ pose \in Int \X Int \X Int
      /\ problem = ProblemFor(scene, pose, target)
      /\ NoCell \notin {problem.start, problem.goal}
  BY DEF NavInv
<1>2. /\ problem.nx = CellsAlong(scene, 1) /\ problem.nz = CellsAlong(scene, 2)
      /\ problem.blocked = blocked
      /\ problem.start = Nearest(scene, blocked, pose) /\ problem.goal = Nearest(scene, blocked, target)
  BY <1>1 DEF ProblemFor
<1>3. Cells(problem) = GridCells(scene)
  BY <1>2 DEF Cells, GridCells
<1>4. ASSUME NEW v \in Int \X Int \X Int, NEW r, r = Nearest(scene, blocked, v), r # NoCell
      PROVE  /\ r \in Cells(problem) \ blocked
             /\ \A c \in Cells(problem) \ blocked : Chebyshev(r, edge(v)) <= Chebyshev(c, edge(v))
  <2>1. /\ Edge(scene, v) \in GridCells(scene) /\ GridCells(scene) \subseteq Int \X Int
        /\ IsNearestFree(r, GridCells(scene), blocked, Edge(scene, v))
    BY <1>1, <1>4, NearestFacts
  <2>2. edge(v) = Edge(scene, v)
    BY <1>2 DEF Edge
  <2> HIDE DEF edge, blocked
  <2>3. /\ r \in GridCells(scene) \ blocked
        /\ \A c \in GridCells(scene) \ blocked : Far(r, edge(v)) <= Far(c, edge(v))
    BY <1>4, <2>1, <2>2 DEF IsNearestFree
  <2>4. \A c \in GridCells(scene) : Chebyshev(c, edge(v)) = Far(c, edge(v))
    BY <2>1, <2>2, FarFacts
  <2> QED
    BY <1>3, <2>3, <2>4
<1> HIDE DEF edge, blocked
<1>5. \A e \in {<<problem.start, edge(pose)>>, <<problem.goal, edge(target)>>} :
         /\ e[1] \in Cells(problem) \ problem.blocked
         /\ \A c \in Cells(problem) \ problem.blocked : Chebyshev(e[1], e[2]) <= Chebyshev(c, e[2])
  <2>1. /\ problem.start \in Cells(problem) \ blocked
        /\ \A c \in Cells(problem) \ blocked : Chebyshev(problem.start, edge(pose)) <= Chebyshev(c, edge(pose))
    BY <1>1, <1>2, <1>4
  <2>2. /\ problem.goal \in Cells(problem) \ blocked
        /\ \A c \in Cells(problem) \ blocked : Chebyshev(problem.goal, edge(target)) <= Chebyshev(c, edge(target))
    BY <1>1, <1>2, <1>4
  <2> QED
    BY <1>2, <2>1, <2>2
<1> QED
  BY <1>5 DEF edge

\* _find_nearest_free_cell: in any room, however the objects are placed and
\* wherever the robot has come to, no free cell is nearer to either of them than
\* the cell that is searched from, or to.
THEOREM EndsAreTheNearest == EmbodiedSpec => []EndsAreNearest
  BY ServerNavigates, NavInvariant, EndsHold, PTL

\* In the running server: the predecessors that navigate_to_object walks back
\* along are legal steps between free cells.
THEOREM RobotPathsAreLegal == EmbodiedSpec => []TreeIsSound
  BY ServerNavigates, NavigationSearches, PathsAreLegal, PTL

\* In the running server: when navigate_to_object finds no path there is no legal
\* way for the robot, and a path it finds is, but for the rounding, the shortest.
THEOREM RobotSearches == EmbodiedSpec => [](NoWayIsMissed /\ FoundIsShortest)
  BY ServerNavigates, NavigationSearches, SearchIsComplete, SearchIsShortest, PTL

-----------------------------------------------------------------------------
(***************************************************************************)
(* The frames of an animation.                                             *)
(***************************************************************************)
\* Sequences one after the other have the elements they had.
LEMMA FlattenTypes ==
    ASSUME NEW S, NEW seqs \in Seq(Seq(S))
    PROVE  FlattenSeq(seqs) \in Seq(S)
<1> DEFINE n == Len(seqs)
           D == Seq(S)
           body(g) == [i \in 1 .. n |-> IF i = 1 THEN seqs[i] ELSE g[i - 1] \o seqs[i]]
           q == CHOOSE g : g = body(g)
           go == [x \in (1 .. n) \X D |-> IF x[1] = 1 THEN seqs[x[1]] ELSE x[2] \o seqs[x[1]]]
<1>1. n \in Nat /\ \A i \in 1 .. n : seqs[i] \in D
  OBVIOUS
<1>2. CASE n = 0
  <2>1. FlattenSeq(seqs) = seqs
    BY <1>2 DEF FlattenSeq
  <2>2. seqs = <<>>
    BY <1>2
  <2> QED
    BY <2>1, <2>2
<1>3. CASE n # 0
  <2>1. FlattenSeq(seqs) = q[n]
    BY <1>3 DEF FlattenSeq
  <2>2. \A x \in D, y \in D : x \o y \in D
    OBVIOUS
  <2>3. <<>> \in D
    OBVIOUS
  <2> HIDE DEF n, D
  <2>4. go \in [(1 .. n) \X D -> D]
    BY <1>1, <2>2
  <2>5. PICK f \in [0 .. n -> D] : Follows(f, n, <<>>, go)
    <3> HIDE DEF go
    <3> QED
      BY <1>1, <2>3, <2>4, RecursionHasValue
  <2> DEFINE h == [i \in 1 .. n |-> f[i]]
  <2>6. h = body(h)
    <3>1. ASSUME NEW i \in 1 .. n
          PROVE  h[i] = IF i = 1 THEN seqs[i] ELSE h[i - 1] \o seqs[i]
      <4>1. f[i] = go[<<i, f[i - 1]>>] /\ f[i - 1] \in D
        <5>1. i - 1 \in 0 .. n
          BY <1>1
        <5> QED
          BY <2>5, <5>1 DEF Follows
      <4>2. f[i] = IF i = 1 THEN seqs[i] ELSE f[i - 1] \o seqs[i]
        BY <4>1
      <4>3. i # 1 => i - 1 \in 1 .. n
        BY <1>1
      <4> QED
        BY <4>2, <4>3
    <3>2. h = [i \in 1 .. n |-> h[i]]
      OBVIOUS
    <3> HIDE DEF h
    <3> QED
      BY <3>1, <3>2
  <2>7. q = body(q)
    <3> HIDE DEF body, h
    <3> QED
      BY <2>6
  <2>8. \A i \in 1 .. n : q[i] = IF i = 1 THEN seqs[i] ELSE q[i - 1] \o seqs[i]
    <3> HIDE DEF q
    <3>1. \A i \in 1 .. n : q[i] = body(q)[i]
      BY <2>7
    <3> QED
      BY <3>1
  <2> HIDE DEF q
  <2> DEFINE P == {i \in 0 .. n : i = 0 \/ q[i] \in D}
  <2>9. ASSUME NEW i \in 1 .. n, i - 1 \in P PROVE i \in P
    <3>1. CASE i = 1
      BY <1>1, <2>8, <3>1
    <3>2. CASE i # 1
      <4>1. q[i - 1] \in D
        BY <2>9, <3>2
      <4>2. q[i] = q[i - 1] \o seqs[i]
        BY <2>8, <3>2
      <4>3. seqs[i] \in D
        BY <1>1
      <4>4. q[i - 1] \o seqs[i] \in D
        BY <2>2, <4>1, <4>3
      <4>5. i \in 0 .. n
        BY <1>1
      <4> QED
        BY <4>2, <4>4, <4>5
    <3> QED
      BY <3>1, <3>2
  <2>10. 0 \in P /\ n \in 0 .. n
    BY <1>1
  <2> HIDE DEF P
  <2>11. n \in P
    BY <1>1, <2>9, <2>10, StepByStep
  <2> QED
    BY <1>3, <2>1, <2>11 DEF P, D
<1> QED
  BY <1>2, <1>3

\* The number of samples or frames on a line: none only if it has no length.
LEMMA StepsFacts ==
    ASSUME NEW a \in Int \X Int, NEW b \in Int \X Int, NEW k \in Nat \ {0}
    PROVE  /\ StepsFor(a, b, k) \in Nat
           /\ k * Dist(a[1], b[1]) <= StepsFor(a, b, k)
           /\ k * Dist(a[2], b[2]) <= StepsFor(a, b, k)
<1> DEFINE x == Dist(a[1], b[1])
           z == Dist(a[2], b[2])
           square == k * k * Square(a, b)
           high == k * (x + z)
           IsCeil(n) == n * n >= square /\ (n > 0 => (n - 1) * (n - 1) < square)
           Above == {n \in Nat : n * n >= square}
<1>1. x \in Nat /\ z \in Nat /\ Square(a, b) = x * x + z * z
  BY DEF Dist, Square
<1>2. StepsFor(a, b, k) = CHOOSE n \in 0 .. high : IsCeil(n)
  BY DEF StepsFor
<1> HIDE DEF x, z
<1>3. x * x \in Nat /\ z * z \in Nat /\ x * z \in Nat /\ Square(a, b) \in Nat
  BY <1>1
<1>4. high \in Nat /\ square \in Nat
  BY <1>1, <1>3
<1>5. high * high >= square
  <2>1. high * high = k * k * ((x + z) * (x + z))
    BY <1>1
  <2>2. (x + z) * (x + z) = x * x + z * z + 2 * (x * z)
    BY <1>1
  <2>3. (x + z) * (x + z) >= Square(a, b) /\ (x + z) * (x + z) \in Nat
    BY <1>1, <1>3, <2>2
  <2>4. k * k \in Nat
    OBVIOUS
  <2>5. \A u, v, w \in Nat : v >= w => u * v >= u * w
    OBVIOUS
  <2> QED
    BY <1>3, <2>1, <2>3, <2>4, <2>5
<1>6. square = (k * x) * (k * x) + (k * z) * (k * z)
  BY <1>1
<1>7. k * x \in Nat /\ k * z \in Nat
  BY <1>1
<1> HIDE DEF high, square
<1>8. high \in Above /\ Above \in SUBSET Nat
  BY <1>4, <1>5
<1>9. PICK n \in Above : \A y \in Above : n <= y
  BY <1>8, LeastElement
<1>10. n \in 0 .. high /\ n * n >= square
  BY <1>4, <1>8, <1>9
<1>11. ASSUME n > 0 PROVE (n - 1) * (n - 1) < square
  <2>1. n - 1 \in Nat /\ n - 1 \notin Above
    BY <1>9, <1>11
  <2>2. (n - 1) * (n - 1) \in Nat
    BY <2>1
  <2> QED
    BY <1>4, <2>1, <2>2
<1>12. IsCeil(n)
  BY <1>10, <1>11
<1> DEFINE steps == StepsFor(a, b, k)
<1>13. steps \in 0 .. high /\ IsCeil(steps)
  <2> HIDE DEF IsCeil
  <2> QED
    BY <1>2, <1>10, <1>12
<1> HIDE DEF steps
<1>14. steps \in Nat /\ steps * steps >= square
  BY <1>4, <1>13
<1>15. \A u, v, w \in Nat : u * u >= v * v + w * w => v <= u
  <2> SUFFICES ASSUME NEW u \in Nat, NEW v \in Nat, NEW w \in Nat, u * u >= v * v + w * w, u + 1 <= v
               PROVE  FALSE
    OBVIOUS
  <2>1. (u + 1) * (u + 1) <= v * v /\ w * w >= 0
    OBVIOUS
  <2>2. (u + 1) * (u + 1) = u * u + 2 * u + 1 /\ u * u \in Nat /\ v * v \in Nat
    OBVIOUS
  <2> QED
    BY <2>1, <2>2
<1>16. k * x <= steps /\ k * z <= steps
  <2> DEFINE u == k * x
             v == k * z
  <2>1. u \in Nat /\ v \in Nat /\ steps * steps >= u * u + v * v /\ steps * steps >= v * v + u * u
    BY <1>6, <1>7, <1>14
  <2> HIDE DEF u, v
  <2>2. u <= steps /\ v <= steps
    BY <1>14, <1>15, <2>1
  <2> QED
    BY <2>2 DEF u, v
<1> QED
  BY <1>14, <1>16 DEF steps, x, z

\* The coordinate, in n-ths of a cell, i n-ths of the way from u to v; what may
\* be rounded to c; a sample s of m next to the place i of n; and what is no
\* farther from c than three quarters of a cell.
OnLine(u, v, i, n) == u * n + (v - u) * i
RoundsTo(x, c, m) == 2 * Dist(x, c * m) <= m
IsNextTo(s, m, i, n) == 2 * Dist(s * n, i * m) <= n
IsNear(x, c, n) == 4 * Dist(x, n * c) <= 3 * n

\* A place on a line is near a cell that a sample next to it may be rounded to:
\* half a cell from the sample to the cell, and a quarter from the place to the
\* sample, for samples lie at most half a cell apart.
LEMMA NearSample ==
    ASSUME NEW a \in Int, NEW b \in Int, NEW c \in Int, NEW n \in Nat \ {0}, NEW m \in Nat \ {0},
           NEW i \in Int, NEW s \in Int,
           RoundsTo(OnLine(a, b, s, m), c, m), IsNextTo(s, m, i, n), 2 * Dist(a, b) <= m
    PROVE  IsNear(OnLine(a, b, i, n), c, n)
<1> DEFINE e == b - a
           u == a * m + e * s - c * m
           w == i * m - s * n
           y == a * n + e * i - n * c
<1>1. /\ a * m \in Int /\ e * s \in Int /\ c * m \in Int /\ s * n \in Int /\ i * m \in Int
      /\ a * n \in Int /\ e * i \in Int /\ n * c \in Int /\ e \in Int
  OBVIOUS
<1>2. 2 * u <= m /\ -m <= 2 * u /\ u \in Int
  BY <1>1 DEF Dist, RoundsTo, OnLine
<1>3. 2 * w <= n /\ -n <= 2 * w /\ w \in Int
  BY <1>1 DEF Dist, IsNextTo
<1>4. 2 * e <= m /\ -m <= 2 * e
  BY DEF Dist
<1>5. m * y = n * u + e * w /\ y \in Int
  OBVIOUS
<1> SUFFICES 4 * y <= 3 * n /\ -(3 * n) <= 4 * y
  BY <1>1 DEF Dist, IsNear, OnLine
<1> HIDE DEF e, u, w, y
<1>6. 2 * (n * u) <= n * m /\ -(n * m) <= 2 * (n * u)
  <2>1. n * (2 * u) <= n * m /\ n * (-m) <= n * (2 * u)
    BY <1>2
  <2>2. n * (2 * u) = 2 * (n * u) /\ n * (-m) = -(n * m)
    BY <1>2
  <2> QED
    BY <2>1, <2>2
<1>7. 4 * (e * w) <= n * m /\ -(n * m) <= 4 * (e * w)
  <2>1. \A p, q \in Nat, v, t \in Int :
           -p <= v /\ v <= p /\ -q <= t /\ t <= q => v * t <= p * q /\ -(p * q) <= v * t
    OBVIOUS
  <2> DEFINE v == 2 * e
             t == 2 * w
  <2>2. v \in Int /\ t \in Int /\ -m <= v /\ v <= m /\ -n <= t /\ t <= n
    BY <1>1, <1>3, <1>4
  <2>3. v * t = 4 * (e * w)
    BY <1>1, <1>3
  <2> HIDE DEF v, t
  <2>4. v * t <= m * n /\ -(m * n) <= v * t
    BY <2>1, <2>2
  <2> QED
    BY <2>3, <2>4
<1>8. 4 * (m * y) <= 3 * (n * m) /\ -(3 * (n * m)) <= 4 * (m * y)
  <2>1. n * u \in Int /\ e * w \in Int /\ n * m \in Int
    BY <1>1, <1>2, <1>3
  <2> QED
    BY <1>5, <1>6, <1>7, <2>1
<1>9. m * (4 * y) <= m * (3 * n) /\ m * (-(3 * n)) <= m * (4 * y)
  BY <1>5, <1>8
<1>10. \A p, q \in Int : m * p <= m * q => p <= q
  OBVIOUS
<1> QED
  BY <1>5, <1>9, <1>10

\* There is a sample next to every frame.
LEMMA SampleNextTo ==
    ASSUME NEW n \in Nat \ {0}, NEW m \in Nat \ {0}, NEW i \in 0 .. n
    PROVE  \E s \in 0 .. m : IsNextTo(s, m, i, n)
<1> DEFINE x == i * m
           s == (2 * x + n) \div (2 * n)
<1>1. x \in Nat /\ x <= n * m
  OBVIOUS
<1> HIDE DEF x
<1>2. s \in Int /\ s * (2 * n) <= 2 * x + n /\ 2 * x + n < (s + 1) * (2 * n)
  <2> DEFINE p == 2 * x + n
             q == 2 * n
  <2>1. p \in Nat /\ q \in Nat \ {0}
    BY <1>1
  <2> HIDE DEF p, q
  <2>2. p \div q \in Int /\ (p \div q) * q <= p /\ p < (p \div q + 1) * q
    BY <2>1
  <2> QED
    BY <2>2 DEF p, q
<1> HIDE DEF s
<1>3. s * n \in Int /\ s * (2 * n) = 2 * (s * n) /\ (s + 1) * (2 * n) = 2 * (s * n) + 2 * n
  BY <1>2
<1>4. 2 * (s * n) <= 2 * x + n /\ 2 * x < 2 * (s * n) + n
  BY <1>1, <1>2, <1>3
<1>5. 2 * Dist(s * n, x) <= n
  BY <1>1, <1>3, <1>4 DEF Dist
<1>6. 0 <= s
  <2> SUFFICES ASSUME s <= -1 PROVE FALSE
    BY <1>2
  <2>1. s * n <= -n
    BY <1>2
  <2> QED
    BY <1>1, <1>3, <1>4, <2>1
<1>7. s <= m
  <2> SUFFICES ASSUME m + 1 <= s PROVE FALSE
    BY <1>2
  <2>1. n * m + n <= s * n /\ n * m \in Nat
    BY <1>2
  <2> QED
    BY <1>1, <1>3, <1>4, <2>1
<1> QED
  BY <1>2, <1>5, <1>6, <1>7 DEF x, IsNextTo

FreeCells(p) == Cells(p) \ p.blocked

\* Two free cells a leg of an animation may connect.
Connected(p, a, b) ==
    \/ Dist(a[1], b[1]) <= 1 /\ Dist(a[2], b[2]) <= 1
    \/ MayBeFree(p, a, b)

\* The place i n-ths of the way from a to b is near a free cell.
PlaceIsNear(p, a, b, i, n) ==
    \E c \in FreeCells(p) : /\ IsNear(OnLine(a[1], b[1], i, n), c[1], n)
                            /\ IsNear(OnLine(a[2], b[2], i, n), c[2], n)

\* Half of a single step away from either end.
LEMMA NearAnEnd ==
    ASSUME NEW a \in Int, NEW b \in Int, Dist(a, b) <= 1, NEW n \in Nat, NEW i \in 0 .. n
    PROVE  /\ 2 * i <= n => IsNear(OnLine(a, b, i, n), a, n)
           /\ n <= 2 * i => IsNear(OnLine(a, b, i, n), b, n)
<1>1. b = a \/ b = a + 1 \/ b = a - 1
  BY DEF Dist
<1>2. /\ a * n = n * a /\ a * n \in Int /\ n * (a + 1) = a * n + n /\ n * (a - 1) = a * n - n
      /\ (a + 1) - a = 1 /\ (a - 1) - a = -1 /\ a - a = 0
  OBVIOUS
<1>3. CASE b = a
  <2>1. OnLine(a, b, i, n) = a * n /\ n * b = a * n
    BY <1>2, <1>3 DEF OnLine
  <2> QED
    BY <1>2, <2>1 DEF Dist, IsNear
<1>4. CASE b = a + 1
  <2>1. OnLine(a, b, i, n) = a * n + i /\ n * b = a * n + n
    BY <1>2, <1>4 DEF OnLine
  <2> QED
    BY <1>2, <2>1 DEF Dist, IsNear
<1>5. CASE b = a - 1
  <2>1. OnLine(a, b, i, n) = a * n - i /\ n * b = a * n - n
    BY <1>2, <1>5 DEF OnLine
  <2> QED
    BY <1>2, <2>1 DEF Dist, IsNear
<1> QED
  BY <1>1, <1>3, <1>4, <1>5

\* Between cells that a free line, or a legal step, connects, every place is near a
\* free cell.
LEMMA ConnectedIsNear ==
    ASSUME NEW p, FreeCells(p) \subseteq Int \X Int, NEW a \in FreeCells(p), NEW b \in FreeCells(p),
           Connected(p, a, b), NEW n \in Nat \ {0}, NEW i \in 0 .. n
    PROVE  PlaceIsNear(p, a, b, i, n)
<1>1. /\ a \in Int \X Int /\ b \in Int \X Int
      /\ a[1] \in Int /\ a[2] \in Int /\ b[1] \in Int /\ b[2] \in Int
      /\ n \in Nat /\ i \in Int
  OBVIOUS
<1>2. ASSUME Dist(a[1], b[1]) <= 1, Dist(a[2], b[2]) <= 1
      PROVE  PlaceIsNear(p, a, b, i, n)
  <2>1. 2 * i <= n =>
          IsNear(OnLine(a[1], b[1], i, n), a[1], n) /\ IsNear(OnLine(a[2], b[2], i, n), a[2], n)
    BY <1>1, <1>2, NearAnEnd
  <2>2. n <= 2 * i =>
          IsNear(OnLine(a[1], b[1], i, n), b[1], n) /\ IsNear(OnLine(a[2], b[2], i, n), b[2], n)
    BY <1>1, <1>2, NearAnEnd
  <2>3. 2 * i <= n \/ n <= 2 * i
    BY <1>1
  <2> QED
    BY <2>1, <2>2, <2>3 DEF PlaceIsNear
<1>3. ASSUME MayBeFree(p, a, b), ~(Dist(a[1], b[1]) <= 1 /\ Dist(a[2], b[2]) <= 1)
      PROVE  PlaceIsNear(p, a, b, i, n)
  <2> DEFINE m == StepsFor(a, b, 2)
  <2>1. m \in Nat /\ 2 * Dist(a[1], b[1]) <= m /\ 2 * Dist(a[2], b[2]) <= m
    BY <1>1, StepsFacts
  <2>2. \A s \in 0 .. m : \E c \in SampledCells(a, b, s, m) : c \in FreeCells(p)
    BY <1>3 DEF MayBeFree, FreeCells
  <2> HIDE DEF m
  <2>3. m # 0
    <3>1. Dist(a[1], b[1]) \in Nat /\ Dist(a[2], b[2]) \in Nat
      BY <1>1 DEF Dist
    <3> QED
      BY <1>3, <2>1, <3>1
  <2>4. PICK s \in 0 .. m : IsNextTo(s, m, i, n)
    BY <2>1, <2>3, SampleNextTo
  <2>5. PICK c \in SampledCells(a, b, s, m) : c \in FreeCells(p)
    BY <2>2
  <2> DEFINE x == OnLine(a[1], b[1], s, m)
             z == OnLine(a[2], b[2], s, m)
  <2>6. SampledCells(a, b, s, m) = Roundings(x, m) \X Roundings(z, m)
    BY DEF SampledCells, Sample, OnLine
  <2> HIDE DEF x, z
  <2>7. c[1] \in Roundings(x, m) /\ c[2] \in Roundings(z, m) /\ c[1] \in Int /\ c[2] \in Int
    BY <2>5, <2>6
  <2>8. RoundsTo(x, c[1], m) /\ RoundsTo(z, c[2], m)
    BY <2>7 DEF Roundings, RoundsTo
  <2>9. m \in Nat \ {0} /\ s \in Int
    BY <2>1, <2>3
  <2>10. IsNear(OnLine(a[1], b[1], i, n), c[1], n)
    BY <1>1, <2>1, <2>4, <2>7, <2>8, <2>9, NearSample DEF x
  <2>11. IsNear(OnLine(a[2], b[2], i, n), c[2], n)
    BY <1>1, <2>1, <2>4, <2>7, <2>8, <2>9, NearSample DEF z
  <2> QED
    BY <2>5, <2>10, <2>11 DEF PlaceIsNear
<1> QED
  BY <1>2, <1>3 DEF Connected

\* The frames FramesStayNear asks for.
NearFrames(s, p) ==
    {f \in Int \X Int \X Int :
        \E c \in FreeCells(p) : \A axis \in {1, 2} :
            4 * Dist(f[axis], f[3] * Place(s, c)[axis]) <= 3 * RESOLUTION * f[3]}

\* The same in millimetres, o being the origin of the grid.
IsNearIn(o, x, c, n) == 4 * Dist(o * n + 500 * x, n * (o + c * 500)) <= 3 * 500 * n

\* A cell is half a metre, and the grid starts anywhere.
LEMMA ScaledDist ==
    ASSUME NEW o \in Int, NEW x \in Int, NEW c \in Int, NEW n \in Nat, IsNear(x, c, n)
    PROVE  IsNearIn(o, x, c, n)
<1> DEFINE u == o * n
           v == n * c
<1>1. u \in Int /\ v \in Int
  OBVIOUS
<1>2. n * (o + c * 500) = u + 500 * v
  OBVIOUS
<1> HIDE DEF u, v
<1>3. 4 * Dist(x, v) <= 3 * n
  BY DEF v, IsNear
<1>4. 4 * Dist(u + 500 * x, u + 500 * v) <= 1500 * n
  BY <1>1, <1>3 DEF Dist
<1> QED
  BY <1>2, <1>4 DEF u, IsNearIn

\* The frames of a leg.
LEMMA LegFrames ==
    ASSUME NEW s \in Scenes, s.kind = "hm3d", NEW p, FreeCells(p) \subseteq Int \X Int,
           NEW a \in FreeCells(p), NEW b \in FreeCells(p), Connected(p, a, b), NEW isLast
    PROVE  Leg(s, a, b, isLast) \in Seq(NearFrames(s, p))
<1> DEFINE n == Max({2, StepsFor(a, b, 1)})
           o == Origin(s)
           frame(i) == <<o[1] * n + RESOLUTION * Sample(a, b, i, n)[1],
                         o[2] * n + RESOLUTION * Sample(a, b, i, n)[2], n>>
           len == IF isLast THEN n + 1 ELSE n
<1>1. n \in Nat \ {0}
  <2> DEFINE m == StepsFor(a, b, 1)
  <2>1. m \in Nat
    BY StepsFacts
  <2> HIDE DEF m
  <2>2. Max({2, m}) = IF m < 2 THEN 2 ELSE m
    BY <2>1 DEF Max
  <2> QED
    BY <2>1, <2>2 DEF m
<1>2. Leg(s, a, b, isLast) = [i \in 1 .. len |-> frame(i - 1)]
  BY DEF Leg
<1>3. o[1] \in Int /\ o[2] \in Int
  BY SceneFacts DEF Origin, AGENT_RADIUS
<1> HIDE DEF n
<1>4. ASSUME NEW i \in 0 .. n PROVE frame(i) \in NearFrames(s, p)
  <2> DEFINE x == OnLine(a[1], b[1], i, n)
             z == OnLine(a[2], b[2], i, n)
             f == frame(i)
  <2>1. x \in Int /\ z \in Int
    <3>1. a[1] \in Int /\ a[2] \in Int /\ b[1] \in Int /\ b[2] \in Int
      OBVIOUS
    <3>2. a[1] * n + (b[1] - a[1]) * i \in Int /\ a[2] * n + (b[2] - a[2]) * i \in Int
      BY <1>1, <3>1
    <3> QED
      BY <3>2 DEF OnLine
  <2>2. PICK c \in FreeCells(p) : IsNear(x, c[1], n) /\ IsNear(z, c[2], n)
    BY <1>1, ConnectedIsNear DEF PlaceIsNear
  <2>3. f = <<o[1] * n + 500 * x, o[2] * n + 500 * z, n>>
    BY DEF RESOLUTION, Sample, OnLine
  <2>5. Place(s, c) = <<o[1] + c[1] * 500, o[2] + c[2] * 500>>
    BY DEF Place, RESOLUTION
  <2> HIDE DEF x, z, o, f
  <2>4. o[1] * n + 500 * x \in Int /\ o[2] * n + 500 * z \in Int /\ n \in Int
    BY <1>1, <1>3, <2>1
  <2>6. c[1] \in Int /\ c[2] \in Int /\ n \in Nat
    BY <1>1, <2>2
  <2>7. /\ f[1] = o[1] * n + 500 * x /\ f[2] = o[2] * n + 500 * z /\ f[3] = n
        /\ Place(s, c)[1] = o[1] + c[1] * 500 /\ Place(s, c)[2] = o[2] + c[2] * 500
    BY <2>3, <2>5
  <2>8. IsNearIn(o[1], x, c[1], n)
    BY <1>3, <2>1, <2>2, <2>6, ScaledDist
  <2>9. IsNearIn(o[2], z, c[2], n)
    BY <1>3, <2>1, <2>2, <2>6, ScaledDist
  <2>10. \A axis \in {1, 2} : 4 * Dist(f[axis], f[3] * Place(s, c)[axis]) <= 3 * RESOLUTION * f[3]
    BY <2>7, <2>8, <2>9 DEF RESOLUTION, IsNearIn
  <2>11. f \in Int \X Int \X Int
    BY <2>3, <2>4
  <2>12. f \in NearFrames(s, p)
    BY <2>10, <2>11 DEF NearFrames
  <2> QED
    BY <2>12 DEF f
<1> HIDE DEF frame
<1>5. len \in Nat /\ \A i \in 1 .. len : i - 1 \in 0 .. n
  BY <1>1
<1> HIDE DEF len
<1>6. \A i \in 1 .. len : frame(i - 1) \in NearFrames(s, p)
  BY <1>4, <1>5
<1> QED
  BY <1>2, <1>5, <1>6

\* A path the robot may be sent along.
IsPath(p, cells) ==
    /\ cells \in Seq(FreeCells(p)) /\ Len(cells) >= 1
    /\ \A i \in 2 .. Len(cells) : Connected(p, cells[i - 1], cells[i])

\* The frames of all legs.
LEMMA AnimationFrames ==
    ASSUME NEW s \in Scenes, s.kind = "hm3d", NEW p, FreeCells(p) \subseteq Int \X Int,
           NEW cells, IsPath(p, cells)
    PROVE  Animation(s, cells) \in Seq(NearFrames(s, p))
<1> DEFINE m == Len(cells) - 1
           legs == [i \in 1 .. m |-> Leg(s, cells[i], cells[i + 1], i = m)]
           S == NearFrames(s, p)
<1>1. m \in Nat /\ cells \in Seq(FreeCells(p))
  BY DEF IsPath
<1>2. ASSUME NEW i \in 1 .. m PROVE Leg(s, cells[i], cells[i + 1], i = m) \in Seq(S)
  <2>1. i \in 1 .. Len(cells) /\ i + 1 \in 2 .. Len(cells) /\ i + 1 \in 1 .. Len(cells) /\ (i + 1) - 1 = i
    BY <1>1
  <2>2. cells[i] \in FreeCells(p) /\ cells[i + 1] \in FreeCells(p)
    BY <1>1, <2>1
  <2>3. Connected(p, cells[i], cells[i + 1])
    BY <2>1 DEF IsPath
  <2> HIDE DEF m
  <2> QED
    BY <2>2, <2>3, LegFrames
<1>3. Animation(s, cells) = FlattenSeq(legs)
  BY DEF Animation
<1> HIDE DEF m, S
<1>4. legs \in Seq(Seq(S))
  BY <1>1, <1>2
<1> HIDE DEF legs
<1> QED
  BY <1>3, <1>4, FlattenTypes DEF S

\* What _smooth_path walks over and what it keeps are paths, and the latter ends
\* where it stands on the former; and the animation is as it should be.
WayInv ==
    /\ scene = NoScene => reply # "arrived"
    /\ round # 0 =>
        /\ search = "found" /\ scene.kind = "hm3d"
        /\ IsPath(problem, way) /\ at \in 1 .. Len(way)
        /\ IsPath(problem, kept) /\ kept[Len(kept)] = way[at]
    /\ FramesStayNear

\* Free cells are cells.
LEMMA FreeCellTypes == \A p \in Problem : FreeCells(p) \subseteq Int \X Int
<1> SUFFICES ASSUME NEW p \in Problem PROVE Cells(p) \subseteq Int \X Int
  BY DEF FreeCells
<1>1. p.nx \in Nat /\ p.nz \in Nat
  BY ProblemFacts
<1> QED
  BY <1>1 DEF Cells

\* A path that was found is one the robot may be sent along.
LEMMA FoundIsPath ==
    ASSUME NavInv, IInv, HeapInv, search = "found", scene.kind = "hm3d"
    PROVE  IsPath(problem, PathTo(problem.goal))
<1> DEFINE path == PathTo(problem.goal)
           blocked == Occupied(scene)
<1>1. /\ path \in Seq(Int \X Int) /\ Len(path) \in Nat /\ Len(path) >= 1
      /\ path[1] = problem.start
      /\ \A i \in 2 .. Len(path) : LegalStep(problem, path[i - 1], path[i])
  BY FoundPath
<1>2. problem.start \in FreeCells(problem)
  <2>1. /\ scene \in Scenes /\ pose \in Int \X Int \X Int
        /\ problem = ProblemFor(scene, pose, target) /\ problem.start # NoCell
    BY DEF NavInv
  <2>2. /\ problem.nx = CellsAlong(scene, 1) /\ problem.nz = CellsAlong(scene, 2)
        /\ problem.blocked = blocked /\ problem.start = Nearest(scene, blocked, pose)
    BY <2>1 DEF ProblemFor
  <2>3. Cells(problem) = GridCells(scene)
    BY <2>2 DEF Cells, GridCells
  <2> HIDE DEF blocked
  <2>4. IsNearestFree(problem.start, GridCells(scene), blocked, Edge(scene, pose))
    BY <2>1, <2>2, NearestFacts
  <2> QED
    BY <2>1, <2>2, <2>3, <2>4 DEF IsNearestFree, FreeCells
<1> HIDE DEF path
<1>3. ASSUME NEW i \in 2 .. Len(path)
      PROVE  path[i] \in FreeCells(problem) /\ Connected(problem, path[i - 1], path[i])
  <2> DEFINE a == path[i - 1]
             b == path[i]
  <2>1. i - 1 \in 1 .. Len(path) /\ i \in 1 .. Len(path)
    BY <1>1
  <2>0. a \in Int \X Int /\ b \in Int \X Int
    BY <1>1, <2>1, SequenceFacts
  <2>2. a \in Int \X Int /\ b \in Int \X Int /\ LegalStep(problem, a, b)
    BY <1>1, <2>0
  <2> HIDE DEF a, b
  <2>3. b \in Cells(problem) /\ b # a /\ Dist(a[1], b[1]) <= 1 /\ Dist(a[2], b[2]) <= 1
    BY <2>2 DEF LegalStep
  <2>4. b = <<b[1], b[2]>>
    BY <2>2
  <2>5. b \notin problem.blocked
    <3>1. <<b[1], b[2]>> # a => <<b[1], b[2]>> \notin problem.blocked
      BY <2>2 DEF LegalStep
    <3> QED
      BY <2>3, <2>4, <3>1
  <2> QED
    BY <2>3, <2>5 DEF FreeCells, Connected, a, b
<1>4. \A i \in 1 .. Len(path) : path[i] \in FreeCells(problem)
  <2>1. \A i \in 1 .. Len(path) : i = 1 \/ i \in 2 .. Len(path)
    BY <1>1
  <2> QED
    BY <1>1, <1>2, <1>3, <2>1
<1>5. path \in Seq(FreeCells(problem))
  <2> DEFINE S == FreeCells(problem)
             n == Len(path)
  <2>1. n \in Nat /\ path = [i \in 1 .. n |-> path[i]] /\ \A i \in 1 .. n : path[i] \in S
    BY <1>1, <1>4
  <2> HIDE DEF S, n
  <2>2. [i \in 1 .. n |-> path[i]] \in Seq(S)
    BY <2>1
  <2> QED
    BY <2>1, <2>2 DEF S
<1> QED
  BY <1>1, <1>3, <1>5 DEF IsPath, path

\* A path goes on to any cell connected to its last one.
LEMMA PathGoesOn ==
    ASSUME NEW p, NEW cells, IsPath(p, cells), NEW c \in FreeCells(p),
           Connected(p, cells[Len(cells)], c)
    PROVE  LET next == Append(cells, c) IN IsPath(p, next) /\ next[Len(next)] = c
<1> DEFINE S == FreeCells(p)
           next == Append(cells, c)
           n == Len(cells)
<1>1. cells \in Seq(S) /\ n \in Nat /\ n >= 1
  BY DEF IsPath
<1>2. /\ next \in Seq(S) /\ Len(next) = n + 1 /\ next[n + 1] = c
      /\ \A i \in 1 .. n : next[i] = cells[i]
  BY <1>1
<1> HIDE DEF next, n
<1>3. ASSUME NEW i \in 2 .. Len(next) PROVE Connected(p, next[i - 1], next[i])
  <2>1. CASE i = n + 1
    <3>1. i - 1 = n /\ n \in 1 .. n
      BY <1>1, <2>1
    <3>2. next[i - 1] = cells[n] /\ next[i] = c
      BY <1>2, <2>1, <3>1
    <3> QED
      BY <3>2 DEF n
  <2>2. CASE i # n + 1
    <3>1. i \in 2 .. n /\ i - 1 \in 1 .. n /\ i \in 1 .. n
      BY <1>1, <1>2, <2>2
    <3>2. next[i - 1] = cells[i - 1] /\ next[i] = cells[i]
      BY <1>2, <3>1
    <3>3. Connected(p, cells[i - 1], cells[i])
      BY <3>1 DEF IsPath, n
    <3> QED
      BY <3>2, <3>3
  <2> QED
    BY <2>1, <2>2
<1>4. Len(next) >= 1
  BY <1>1, <1>2
<1> QED
  BY <1>2, <1>3, <1>4 DEF IsPath, next

\* Before a pass over a path nothing but its first cell is kept.
LEMMA PassBegins ==
    ASSUME NEW cells, IsPath(problem, cells), NEW n, Pass(cells, n), problem' = problem,
           search' = "found", scene' = scene, scene.kind = "hm3d"
    PROVE  /\ search' = "found" /\ scene'.kind = "hm3d"
           /\ IsPath(problem', way') /\ at' \in 1 .. Len(way')
           /\ IsPath(problem', kept') /\ kept'[Len(kept')] = way'[at']
<1>1. way' = cells /\ kept' = <<cells[1]>> /\ at' = 1
  BY DEF Pass
<1>2. cells \in Seq(FreeCells(problem)) /\ Len(cells) \in Nat /\ Len(cells) >= 1
  BY DEF IsPath
<1>3. 1 \in 1 .. Len(cells) /\ cells[1] \in FreeCells(problem)
  BY <1>2
<1> DEFINE one == <<cells[1]>>
<1>4. one \in Seq(FreeCells(problem)) /\ Len(one) = 1 /\ one[1] = cells[1] /\ \A i \in 2 .. Len(one) : FALSE
  BY <1>3
<1> HIDE DEF one
<1>5. IsPath(problem, one) /\ one[Len(one)] = cells[1]
  BY <1>4 DEF IsPath
<1> QED
  BY <1>1, <1>3, <1>5 DEF one

\* Every call keeps it.
LEMMA WayKept == NavInv /\ IInv /\ HeapInv /\ WayInv /\ [NavNext]_vars => WayInv'
<1> SUFFICES ASSUME NavInv, IInv, HeapInv, WayInv, [NavNext]_vars PROVE WayInv'
  OBVIOUS
<1> DEFINE Walking ==
              /\ search = "found" /\ scene.kind = "hm3d"
              /\ IsPath(problem, way) /\ at \in 1 .. Len(way)
              /\ IsPath(problem, kept) /\ kept[Len(kept)] = way[at]
<1>0. /\ scene = NoScene => reply # "arrived"
      /\ round # 0 => Walking
      /\ FramesStayNear
      /\ NoScene \notin Scenes
      /\ search # "idle" => scene # NoScene
      /\ scene # NoScene => scene \in Scenes
  BY SceneAssumption DEF NavInv, WayInv
<1>a. ASSUME reply' # "arrived", round' = 0
      PROVE  WayInv'
  BY <1>a DEF WayInv, FramesStayNear
<1>b. ASSUME UNCHANGED <<scene, reply, problem, navPath>>
      PROVE  FramesStayNear' /\ (scene' = NoScene => reply' # "arrived")
  BY <1>0, <1>b DEF FramesStayNear
<1>c. ASSUME UNCHANGED <<scene, reply, problem, navPath>>, round' # 0 => Walking'
      PROVE  WayInv'
  BY <1>b, <1>c DEF WayInv
<1>1. ASSUME NEW object \in DOMAIN scene.objects, Navigate(object)
      PROVE  WayInv'
  <2>1. search = "idle" /\ round' = round
    BY <1>1 DEF Navigate
  <2>2. round = 0
    BY <1>0, <2>1
  <2>3. reply' \in {"straight", "none"}
    BY <1>1 DEF Navigate, Straight
  <2> QED
    BY <1>a, <2>1, <2>2, <2>3
<1>2. ASSUME NEW s \in Scenes, Enter(s) PROVE WayInv'
  <2>1. scene = NoScene /\ reply' = reply /\ round' = round /\ search = "idle"
    BY <1>0, <1>2 DEF Enter
  <2> QED
    BY <1>0, <1>a, <2>1
<1>3. CASE NavigateNowhere
  <2>1. reply' = "failed" /\ round' = round /\ search = "idle"
    BY <1>3 DEF NavigateNowhere
  <2> QED
    BY <1>0, <1>a, <2>1
<1>4. CASE Searches
  <2>1. UNCHANGED <<scene, reply, navPath, round>>
    BY <1>4 DEF Searches, navVars
  <2>2. search = "searching" /\ problem' = problem
    BY <1>4 DEF Searches, Loop, GiveUp, Expand, Reach
  <2> QED
    BY <1>0, <1>c, <2>1, <2>2
<1>5. CASE NoWay
  <2>1. round' = 0 /\ reply' \in {"straight", "failed"}
    BY <1>5 DEF NoWay, Return, Straight
  <2> QED
    BY <1>a, <2>1
<1>6. CASE Walk
  <2>1. round' = 0 /\ scene' = scene /\ scene.kind = "grid" /\ search = "found"
    BY <1>6 DEF Walk, Return
  <2> QED
    BY <1>0, <2>1 DEF WayInv, FramesStayNear
<1>7. CASE StartSmoothing
  <2>1. /\ search = "found" /\ scene.kind = "hm3d" /\ Pass(PathTo(problem.goal), 1)
        /\ UNCHANGED <<scene, reply, problem, navPath, search>>
    BY <1>7 DEF StartSmoothing, astarVars
  <2>2. IsPath(problem, PathTo(problem.goal))
    BY <2>1, FoundIsPath
  <2>3. Walking'
    BY <2>1, <2>2, PassBegins
  <2> QED
    BY <1>c, <2>1, <2>3
<1>8. ASSUME NEW j \in 1 .. Len(way), Shortcut(j) PROVE WayInv'
  <2>1. /\ round # 0 /\ j \in at + 1 .. Len(way)
        /\ (j = at + 1 \/ MayBeFree(problem, way[at], way[j]))
        /\ kept' = Append(kept, way[j]) /\ at' = j
        /\ UNCHANGED <<scene, reply, problem, navPath, search, way>>
    BY <1>8 DEF Shortcut, astarVars, ITERATIONS
  <2>2. Walking
    BY <1>0, <2>1
  <2>3. way[j] \in FreeCells(problem)
    BY <2>2 DEF IsPath
  <2>4. Connected(problem, way[at], way[j])
    <3>1. CASE j = at + 1
      <4>1. j \in 2 .. Len(way) /\ j - 1 = at
        BY <2>2, <3>1
      <4> QED
        BY <2>2, <4>1 DEF IsPath
    <3>2. CASE MayBeFree(problem, way[at], way[j])
      BY <3>2 DEF Connected
    <3> QED
      BY <2>1, <3>1, <3>2
  <2>5. IsPath(problem, kept') /\ kept'[Len(kept')] = way[j]
    <3> HIDE DEF Walking
    <3>1. IsPath(problem, kept) /\ kept[Len(kept)] = way[at]
      BY <2>2 DEF Walking
    <3>2. Connected(problem, kept[Len(kept)], way[j])
      BY <2>4, <3>1
    <3> QED
      BY <2>1, <2>3, <3>1, <3>2, PathGoesOn
  <2>6. Walking'
    BY <2>1, <2>2, <2>5
  <2> QED
    BY <1>c, <2>1, <2>6
<1>9. CASE NextPass
  <2>1. /\ round # 0 /\ Pass(kept, round + 1)
        /\ UNCHANGED <<scene, reply, problem, navPath, search>>
    BY <1>9 DEF NextPass, astarVars, ITERATIONS
  <2>2. Walking
    BY <1>0, <2>1
  <2>3. Walking'
    BY <2>1, <2>2, PassBegins
  <2> QED
    BY <1>c, <2>1, <2>3
<1>10. CASE Arrive
  <2>1. /\ round # 0 /\ round' = 0 /\ scene' = scene /\ problem' = problem
        /\ navPath' = Animation(scene, way)
    BY <1>10 DEF Arrive, Return, Forget, ITERATIONS
  <2>2. Walking /\ scene \in Scenes /\ scene # NoScene
    BY <1>0, <2>1
  <2>3. FreeCells(problem) \subseteq Int \X Int
    BY <2>2, FreeCellTypes DEF IInv, ScoresInv
  <2>4. navPath' \in Seq(NearFrames(scene, problem))
    BY <2>1, <2>2, <2>3, AnimationFrames
  <2>5. \A i \in DOMAIN navPath' : navPath'[i] \in NearFrames(scene, problem)
    <3> HIDE DEF Walking
    <3> QED
      BY <2>4
  <2>6. FramesStayNear'
    BY <2>1, <2>5 DEF FramesStayNear, NearFrames, FreeCells
  <2> QED
    BY <2>1, <2>2, <2>6 DEF WayInv
<1>11. ASSUME NEW token \in Token, NEW stride \in Strides, Move(token, stride) PROVE WayInv'
  <2>1. reply' = "moved" /\ round' = round /\ search = "idle"
    BY <1>11 DEF Move
  <2> QED
    BY <1>0, <1>a, <2>1
<1>12. CASE Replay
  <2>1. reply' = "none" /\ round' = round /\ search = "idle"
    BY <1>12 DEF Replay
  <2> QED
    BY <1>0, <1>a, <2>1
<1>13. CASE UNCHANGED vars
  <2>1. UNCHANGED <<scene, reply, problem, navPath, round, way, at, kept, search>>
    BY <1>13 DEF vars, navVars, astarVars
  <2> QED
    BY <1>0, <1>c, <2>1
<1> QED
  BY <1>1, <1>2, <1>3, <1>4, <1>5, <1>6, <1>7, <1>8, <1>9, <1>10, <1>11, <1>12, <1>13 DEF NavNext

\* _smooth_path and the animation of navigate_to_object, in any room and whatever
\* lines _line_collision_free takes for free where rounding leaves it open: no
\* frame is farther than three quarters of a cell, per axis, from a free cell.
THEOREM FramesStay == EmbodiedSpec => []FramesStayNear
<1>1. NavInit => WayInv
  BY DEF NavInit, WayInv, FramesStayNear
<1>2. WayInv => FramesStayNear
  BY DEF WayInv
<1>3. NavSpec => []WayInv
  BY <1>1, WayKept, NavInvariant, PTL DEF NavSpec
<1> QED
  BY <1>2, <1>3, ServerNavigates, PTL
-----------------------------------------------------------------------------
(***************************************************************************)
(* Walks of the simulator's robot.                                         *)
(***************************************************************************)
Spot == Int \X Int

\* A way of n single steps from a place, of which none but the last may be near
\* the goal.
Trail(whole, n, from, goal) ==
    /\ Len(whole) = n + 1 /\ whole[1] = from
    /\ \A i \in 1 .. n : SquareDistance(whole[i], whole[i + 1]) <= 1 /\ ~Near(whole[i], goal)

\* A walk in progress has left such a way, which ends where the robot stands.
WalkInv ==
    /\ place \in Spot /\ quarter \in 0 .. 3 /\ walked \in Seq(Spot)
    /\ walk # NoWalk =>
        /\ walk = [goal |-> walk.goal, steps |-> walk.steps, from |-> walk.from]
        /\ walk.steps = Len(walked)
        /\ Trail(Append(walked, place), walk.steps, walk.from, walk.goal)
        /\ answer.kind # "walked"
    /\ ReportIsTrue

\* A step forward leads to a place beside, or the robot stays.
LEMMA StepIsSingle ==
    ASSUME place \in Spot, quarter \in 0 .. 3, StepForward \/ TurnLeft(1) \/ TurnLeft(3)
    PROVE  place' \in Spot /\ quarter' \in 0 .. 3 /\ SquareDistance(place, place') <= 1
<1>1. CASE StepForward
  <2> DEFINE next == <<place[1] + Facing[1], place[2] + Facing[2]>>
  <2>1. Facing \in {<<0, -1>>, <<-1, 0>>, <<0, 1>>, <<1, 0>>}
    BY DEF Facing
  <2>2. place' \in {place, next} /\ quarter' = quarter
    BY <1>1 DEF StepForward
  <2>3. /\ next \in Spot /\ next = <<next[1], next[2]>>
        /\ \/ place[1] - next[1] = 0 /\ place[2] - next[2] \in {-1, 1}
           \/ place[1] - next[1] \in {-1, 1} /\ place[2] - next[2] = 0
    BY <2>1 DEF Spot
  <2>4. place[1] - place[1] = 0 /\ place[2] - place[2] = 0
    BY DEF Spot
  <2> HIDE DEF next
  <2>5. SquareDistance(place, next) <= 1 /\ SquareDistance(place, place) <= 1
    BY <2>3, <2>4 DEF SquareDistance
  <2> QED
    BY <2>2, <2>3, <2>5
<1>2. CASE TurnLeft(1) \/ TurnLeft(3)
  <2>1. place' = place
    BY <1>2 DEF TurnLeft
  <2>2. quarter' = (quarter + 1) % 4 \/ quarter' = (quarter + 3) % 4
    BY <1>2 DEF TurnLeft
  <2>3. quarter' \in 0 .. 3
    BY <2>2
  <2>4. place[1] - place[1] = 0 /\ place[2] - place[2] = 0
    BY DEF Spot
  <2> QED
    BY <2>1, <2>3, <2>4 DEF SquareDistance
<1> QED
  BY <1>1, <1>2

\* A way becomes longer by a step.
LEMMA TrailGoesOn ==
    ASSUME NEW w \in Seq(Spot), NEW a \in Spot, NEW b \in Spot, NEW from, NEW goal,
           Trail(Append(w, a), Len(w), from, goal), ~Near(a, goal), SquareDistance(a, b) <= 1
    PROVE  Trail(Append(Append(w, a), b), Len(w) + 1, from, goal)
<1> DEFINE n == Len(w)
           v == Append(w, a)
           x == Append(v, b)
<1>1. /\ v \in Seq(Spot) /\ Len(v) = n + 1 /\ n \in Nat /\ v[n + 1] = a
  OBVIOUS
<1> HIDE DEF v, n
<1>2. /\ Len(x) = n + 2 /\ \A i \in 1 .. n + 1 : x[i] = v[i]
      /\ x[n + 2] = b
  BY <1>1
<1> HIDE DEF x
<1>3. /\ v[1] = from
      /\ \A i \in 1 .. n : SquareDistance(v[i], v[i + 1]) <= 1 /\ ~Near(v[i], goal)
  BY DEF Trail, v, n
<1>4. x[1] = from
  BY <1>1, <1>2, <1>3
<1>5. ASSUME NEW i \in 1 .. n + 1
      PROVE  SquareDistance(x[i], x[i + 1]) <= 1 /\ ~Near(x[i], goal)
  <2>1. CASE i \in 1 .. n
    <3>1. x[i] = v[i] /\ x[i + 1] = v[i + 1]
      BY <1>1, <1>2, <2>1
    <3> QED
      BY <1>3, <2>1, <3>1
  <2>2. CASE i = n + 1
    <3>1. x[i] = a /\ x[i + 1] = b
      BY <1>1, <1>2, <2>2
    <3> QED
      BY <3>1
  <2> QED
    BY <1>1, <2>1, <2>2
<1> QED
  BY <1>1, <1>2, <1>4, <1>5 DEF Trail, v, x, n

\* The first place of a walk is where the robot stands.
LEMMA TrailStarts == \A a, goal : Trail(Append(<<>>, a), 0, a, goal)
BY DEF Trail

\* An iteration of the loop adds a step, or ends the walk near its goal.
LEMMA WalkOnKept ==
    ASSUME WalkInv, WalkOn
    PROVE  WalkInv'
<1> DEFINE n == walk.steps
           w == walked
<1>1. /\ place \in Spot /\ quarter \in 0 .. 3 /\ w \in Seq(Spot)
      /\ walk = [goal |-> walk.goal, steps |-> n, from |-> walk.from]
      /\ n = Len(w) /\ n \in Nat
      /\ Trail(Append(w, place), n, walk.from, walk.goal)
      /\ answer.kind # "walked" /\ walked' = Append(w, place)
  BY DEF WalkInv, WalkOn
<1>2. walked' \in Seq(Spot) /\ Len(walked') = n + 1 /\ walked'[n + 1] = place
  BY <1>1
<1>3. CASE Near(place, walk.goal)
  <2>1. /\ UNCHANGED <<place, quarter>> /\ walk' = NoWalk
        /\ answer' = [kind |-> "walked", success |-> TRUE, from |-> walk.from, goal |-> walk.goal,
                      final |-> place, steps |-> n, path |-> walked']
    BY <1>3 DEF WalkOn, Finish
  <2>2. Trail(walked', n, walk.from, walk.goal)
    BY <1>1
  <2>3. ReportIsTrue'
    <3> DEFINE a == answer'
    <3>1. /\ a.success = TRUE /\ a.path = walked' /\ a.steps = n /\ a.from = walk.from
          /\ a.goal = walk.goal
      BY <2>1
    <3> HIDE DEF a
    <3>2. /\ Len(a.path) = a.steps + 1 /\ a.path[1] = a.from /\ a.path[Len(a.path)] = place
          /\ \A i \in 1 .. a.steps : SquareDistance(a.path[i], a.path[i + 1]) <= 1
                                      /\ ~Near(a.path[i], a.goal)
          /\ Near(place, a.goal)
      BY <1>2, <1>3, <2>2, <3>1 DEF Trail
    <3>3. place' = place
      BY <2>1
    <3> QED
      BY <3>1, <3>2, <3>3 DEF ReportIsTrue, SquareDistance, Near, a
  <2> QED
    BY <1>1, <1>2, <2>1, <2>3 DEF WalkInv
<1>4. CASE ~Near(place, walk.goal)
  <2>1. /\ Steer(walk.goal) /\ walk' = [walk EXCEPT !.steps = n + 1] /\ answer' = answer
    BY <1>4 DEF WalkOn
  <2>2. StepForward \/ TurnLeft(1) \/ TurnLeft(3)
    BY <2>1 DEF Steer
  <2>3. place' \in Spot /\ quarter' \in 0 .. 3 /\ SquareDistance(place, place') <= 1
    BY <1>1, <2>2, StepIsSingle
  <2>4. Trail(Append(walked', place'), n + 1, walk.from, walk.goal)
    BY <1>1, <1>4, <2>3, TrailGoesOn
  <2>5. walk' = [goal |-> walk.goal, steps |-> n + 1, from |-> walk.from]
    BY <1>1, <2>1
  <2>6. walk'.goal = walk.goal /\ walk'.steps = n + 1 /\ walk'.from = walk.from
    BY <2>5
  <2>7. ReportIsTrue' /\ answer'.kind # "walked"
    BY <1>1, <2>1 DEF ReportIsTrue
  <2>8. Trail(Append(walked, place), walk.steps, walk.from, walk.goal)'
    BY <2>4, <2>6 DEF Trail, SquareDistance, Near
  <2>9. walk' = [goal |-> walk'.goal, steps |-> walk'.steps, from |-> walk'.from]
    BY <2>5, <2>6
  <2> QED
    BY <1>2, <2>3, <2>6, <2>7, <2>8, <2>9 DEF WalkInv
<1> QED
  BY <1>3, <1>4

\* The steps are used up: the last of them is not in the path yet.
LEMMA GiveUpKept ==
    ASSUME WalkInv, GiveUpWalk
    PROVE  WalkInv'
<1> DEFINE n == walk.steps
           whole == Append(walked, place)
<1>1. /\ place \in Spot /\ quarter \in 0 .. 3 /\ walked \in Seq(Spot)
      /\ n = Len(walked) /\ n \in Nat
      /\ Trail(whole, n, walk.from, walk.goal)
  BY DEF WalkInv, GiveUpWalk
<1>2. /\ UNCHANGED <<place, quarter, walked>> /\ walk' = NoWalk
      /\ answer' = [kind |-> "walked", success |-> FALSE, from |-> walk.from, goal |-> walk.goal,
                    final |-> place, steps |-> n, path |-> walked]
  BY DEF GiveUpWalk, Finish
<1>3. whole[n + 1] = place /\ Len(whole) = n + 1
  BY <1>1
<1>4. ReportIsTrue'
  <2> DEFINE a == answer'
  <2>1. /\ a.success = FALSE /\ Append(a.path, a.final) = whole /\ a.steps = n /\ a.from = walk.from
        /\ a.goal = walk.goal
    BY <1>2
  <2> HIDE DEF a, whole
  <2>2. /\ Len(whole) = a.steps + 1 /\ whole[1] = a.from /\ whole[Len(whole)] = place'
        /\ \A i \in 1 .. a.steps : SquareDistance(whole[i], whole[i + 1]) <= 1
                                    /\ ~Near(whole[i], a.goal)
    BY <1>1, <1>2, <1>3, <2>1 DEF Trail
  <2> QED
    BY <2>1, <2>2 DEF ReportIsTrue, SquareDistance, Near, a
<1> QED
  BY <1>1, <1>2, <1>4 DEF WalkInv

\* Every operation of the adapter keeps the invariant.
LEMMA HabitatKept ==
    ASSUME WalkInv, HabitatNext
    PROVE  WalkInv'
\* Nothing is walked, and nothing reported.
<1>1. ASSUME walk' = NoWalk, answer'.kind # "walked",
             place' \in Spot, quarter' \in 0 .. 3, walked' \in Seq(Spot)
      PROVE  WalkInv'
  BY <1>1 DEF WalkInv, ReportIsTrue
<1>2. /\ place \in Spot /\ quarter \in 0 .. 3 /\ walked \in Seq(Spot) /\ <<>> \in Seq(Spot)
  BY DEF WalkInv
<1>3. ASSUME NEW category \in DOMAIN ObjectIndex, WalkTo(category) PROVE WalkInv'
  <2>1. walk = NoWalk /\ UNCHANGED <<place, quarter>>
    BY <1>3 DEF WalkTo
  <2>2. CASE Refuse
    BY <1>1, <1>2, <2>1, <2>2 DEF Refuse
  <2>3. ASSUME NEW goal, walk' = [goal |-> goal, steps |-> 0, from |-> place], walked' = <<>>,
               answer' = [kind |-> "none"]
        PROVE  WalkInv'
    <3>1. walk'.goal = goal /\ walk'.steps = 0 /\ walk'.from = place
      BY <2>3
    <3>2. Trail(Append(walked, place), walk.steps, walk.from, walk.goal)'
      <4>1. Trail(Append(<<>>, place), 0, place, goal)
        BY TrailStarts
      <4> QED
        BY <2>1, <2>3, <3>1, <4>1 DEF Trail, SquareDistance, Near
    <3>3. ReportIsTrue' /\ answer'.kind # "walked"
      BY <2>3 DEF ReportIsTrue
    <3>4. walk' = [goal |-> walk'.goal, steps |-> walk'.steps, from |-> walk'.from]
      BY <2>3, <3>1
    <3>5. Len(walked') = 0
      BY <2>3
    <3> QED
      BY <1>2, <2>1, <2>3, <3>1, <3>2, <3>3, <3>4, <3>5 DEF WalkInv
  <2> QED
    BY <1>3, <2>2, <2>3 DEF WalkTo
<1>4. CASE WalkNowhere
  BY <1>1, <1>2, <1>4 DEF WalkNowhere, Refuse
<1>5. CASE NoSimulator
  <2>1. UNCHANGED <<place, quarter, walked, walk>> /\ answer'.kind = "raised"
    BY <1>5 DEF NoSimulator
  <2> QED
    BY <2>1 DEF WalkInv, ReportIsTrue, Trail, SquareDistance, Near
<1>6. CASE WalkOn
  BY <1>6, WalkOnKept
<1>7. CASE GiveUpWalk
  BY <1>7, GiveUpKept
<1>8. CASE WalkRaises
  <2>1. walked' \in Seq(Spot)
    BY <1>2, <1>8 DEF WalkRaises
  <2> QED
    BY <1>1, <1>2, <1>8, <2>1 DEF WalkRaises
<1>9. CASE StepAnyway
  <2>1. place' \in Spot /\ quarter' \in 0 .. 3
    BY <1>2, <1>9, StepIsSingle DEF StepAnyway
  <2> QED
    BY <1>1, <1>2, <1>9, <2>1 DEF StepAnyway
<1>10. CASE ReplayWalk
  BY <1>1, <1>2, <1>10 DEF ReplayWalk
<1> QED
  BY <1>3, <1>4, <1>5, <1>6, <1>7, <1>8, <1>9, <1>10 DEF HabitatNext
-----------------------------------------------------------------------------
\* Before the server serves, the adapter is at rest.
AtRest == step # "serving" => walk = NoWalk /\ answer.kind = "none"

\* Every step, also the start of the simulator, keeps the invariant.
LEMMA StepWalks == WalkInv /\ AtRest /\ [EmbodiedNext]_allVars => WalkInv' /\ AtRest'
<1> SUFFICES ASSUME WalkInv, AtRest, [EmbodiedNext]_allVars PROVE WalkInv' /\ AtRest'
  OBVIOUS
<1>1. ASSUME UNCHANGED habitatVars PROVE WalkInv' /\ (walk = NoWalk /\ answer.kind = "none" => AtRest')
  <2>1. UNCHANGED <<place, quarter, walked, walk, answer>>
    BY <1>1 DEF habitatVars
  <2>2. ReportIsTrue'
    BY <2>1 DEF WalkInv, ReportIsTrue
  <2>3. WalkInv'
    BY <2>1, <2>2 DEF WalkInv, Trail, SquareDistance, Near
  <2> QED
    BY <2>1, <2>3 DEF AtRest
<1>2. ASSUME EnsureSim, step # "serving" PROVE WalkInv' /\ AtRest'
  <2>1. place' \in UNION Islands /\ quarter' \in 0 .. 3 /\ UNCHANGED <<walked, walk, answer>>
    BY <1>2 DEF EnsureSim
  <2>2. place' \in Spot
    BY <2>1, HabitatAssumption DEF Spot
  <2>3. walk = NoWalk /\ answer.kind = "none"
    BY <1>2 DEF AtRest
  <2> QED
    BY <2>1, <2>2, <2>3 DEF WalkInv, ReportIsTrue, AtRest
<1>3. CASE Starts
  <2>1. step # "serving" /\ (UNCHANGED habitatVars \/ EnsureSim)
    BY <1>3 DEF Starts, Resolve, TryHabitat, TryHM3D, TryGrid
  <2>2. walk = NoWalk /\ answer.kind = "none"
    BY <2>1 DEF AtRest
  <2> QED
    BY <1>1, <1>2, <2>1, <2>2
<1>4. CASE Serve
  <2>1. UNCHANGED habitatVars /\ step' = "serving"
    BY <1>4 DEF Serve
  <2> QED
    BY <1>1, <2>1 DEF AtRest
<1>5. CASE Works
  <2>1. step' = "serving" /\ (HabitatNext \/ UNCHANGED habitatVars)
    BY <1>5 DEF Works, startVars
  <2> QED
    BY <1>1, <2>1, HabitatKept DEF AtRest
<1>6. CASE UNCHANGED allVars
  <2>1. UNCHANGED habitatVars /\ step' = step
    BY <1>6 DEF allVars, startVars
  <2>2. UNCHANGED <<walk, answer>>
    BY <2>1 DEF habitatVars
  <2> QED
    BY <1>1, <2>1, <2>2 DEF AtRest
<1> QED
  BY <1>3, <1>4, <1>5, <1>6 DEF EmbodiedNext

\* On any floor, with any annotations, any number of steps and whatever yaw is
\* read: the report of a walk is its way (navigate_to_object of HabitatAdapter).
THEOREM ReportsAreTrue == EmbodiedSpec => []ReportIsTrue
<1>1. EmbodiedInit => WalkInv /\ AtRest
  BY DEF EmbodiedInit, HabitatInit, WalkInv, ReportIsTrue, AtRest, Spot
<1>2. WalkInv => ReportIsTrue
  BY DEF WalkInv
<1> QED
  BY <1>1, <1>2, StepWalks, PTL DEF EmbodiedSpec
-----------------------------------------------------------------------------
(***************************************************************************)
(* Startup.                                                                *)
(***************************************************************************)
\* What main has settled before each of its modes is tried.
StartInv ==
    /\ step = "resolve" => backend_type = host.backend
    /\ step \in {"resolve", "habitat", "hm3d"} => adapter \in {"none", "habitat"}
    /\ step \in {"resolve", "habitat"} => adapter = "none"
    /\ step \in {"habitat", "hm3d", "2d"} => backend_type # "auto"
    /\ step \in {"hm3d", "2d"} /\ adapter # "none" => backend_type = adapter
    /\ step \in {"hm3d", "2d"} /\ adapter = "habitat" => sim = "ready" \/ "Habitat failed" \in announced
    /\ ServesWhatItSays

\* One step of main after the other keeps it.
LEMMA StepStarts == StartInv /\ [EmbodiedNext]_allVars => StartInv'
<1> SUFFICES ASSUME StartInv, [EmbodiedNext]_allVars PROVE StartInv'
  OBVIOUS
<1>1. CASE Resolve
  <2>1. adapter' = adapter /\ step = "resolve" /\ step' \in {"habitat", "crashed"}
    BY <1>1, Zenon DEF Resolve
  <2>2. DetectedBackend # "auto"
    BY DEF DetectedBackend
  <2>3. CASE host.backend = "auto"
    <3>1. step' = "habitat" => backend_type' = DetectedBackend
      BY <1>1, <2>3, Zenon DEF Resolve
    <3> QED
      BY <2>1, <2>2, <3>1 DEF StartInv, ServesWhatItSays
  <2>4. CASE host.backend # "auto"
    <3>1. backend_type' = backend_type
      BY <1>1, <2>4, Zenon DEF Resolve
    <3> QED
      BY <2>1, <2>4, <3>1 DEF StartInv, ServesWhatItSays
  <2> QED
    BY <2>3, <2>4
<1>2. CASE TryHabitat
  BY <1>2 DEF TryHabitat, EnsureSim, StartInv, ServesWhatItSays
<1>3. CASE TryHM3D
  <2>1. sim' = sim
    BY <1>3 DEF TryHM3D, habitatVars
  <2>2. announced \subseteq announced'
    BY <1>3 DEF TryHM3D
  <2> QED
    BY <1>3, <2>1, <2>2 DEF TryHM3D, StartInv, ServesWhatItSays
<1>4. CASE TryGrid
  <2>1. sim' = sim
    BY <1>4 DEF TryGrid, habitatVars
  <2> QED
    BY <1>4, <2>1 DEF TryGrid, StartInv, ServesWhatItSays
<1>5. CASE Serve
  BY <1>5 DEF Serve, StartInv, ServesWhatItSays
<1>6. CASE Works
  BY <1>6 DEF Works, startVars, StartInv, ServesWhatItSays
<1>7. CASE UNCHANGED allVars
  BY <1>7 DEF allVars, startVars, habitatVars, StartInv, ServesWhatItSays
<1> QED
  BY <1>1, <1>2, <1>3, <1>4, <1>5, <1>6, <1>7 DEF EmbodiedNext, Starts

\* On every machine and command line the server is up with the adapter it names,
\* and with a simulator that runs unless it has said otherwise (main).
THEOREM ServerSaysWhatItServes == EmbodiedSpec => []ServesWhatItSays
<1>1. EmbodiedInit => StartInv
  BY DEF EmbodiedInit, StartInv, ServesWhatItSays
<1>2. StartInv => ServesWhatItSays
  BY DEF StartInv
<1> QED
  BY <1>1, <1>2, StepStarts, PTL DEF EmbodiedSpec
=============================================================================
