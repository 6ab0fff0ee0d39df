---------------------------- MODULE ShortestPaths ----------------------------
(***************************************************************************)
(* What the planners of Navigation should find, defined without heap,      *)
(* estimate or order.  For model checking only.                            *)
(***************************************************************************)
EXTENDS Navigation

Neighbours(p, c) == {n \in ((c[1] - 1) .. (c[1] + 1)) \X ((c[2] - 1) .. (c[2] + 1)) : LegalStep(p, c, n)}

\* The distances of all cells from the start, by relaxing until nothing gets
\* shorter: a definition without heap, estimate or order.
RECURSIVE Relax(_, _, _)
Relax(p, d, frontier) ==
    LET via(n) == {c \in frontier : n \in Neighbours(p, c)}
        cost(n) == Min({d[c] + LegalCost(p, c, n) : c \in via(n)})
        closer == {n \in UNION {Neighbours(p, c) : c \in frontier} :
                     n \in DOMAIN d => cost(n) < d[n]}
    IN  IF closer = {} THEN d
        ELSE Relax(p, [n \in closer |-> cost(n)] @@ d, closer)
Distances(p) == Relax(p, [c \in {p.start} |-> 0], {p.start})

PathCost(p, path) ==
    FoldLeft(LAMBDA sum, i : sum + LegalCost(p, path[i], path[i + 1]), 0,
             [i \in 1 .. Len(path) - 1 |-> i])

\* A* finds a way exactly when there is one, and none is shorter, although its
\* estimate is not quite admissible and cells are expanded again and again.
PathIsShortest ==
    LET shortest == Distances(problem) IN
    /\ search = "none" => problem.goal \notin DOMAIN shortest
    /\ search = "found" /\ round = 0 =>
        /\ problem.goal \in DOMAIN shortest
        /\ PathCost(problem, PathTo(problem.goal)) = shortest[problem.goal]
=============================================================================
