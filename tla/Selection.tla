----------------------------- MODULE Selection -----------------------------
(***************************************************************************)
(* Python's [x for x in s if x in T].  It is SelectSeq with membership for *)
(* the test, written as a recursive function so that it can be unfolded in *)
(* proofs: tlapm knows no definition of SelectSeq.                         *)
(***************************************************************************)
EXTENDS Naturals, Sequences

Kept(s, T) ==
    LET kept[n \in 0 .. Len(s)] ==
            IF n = 0 THEN <<>>
            ELSE IF s[n] \in T THEN Append(kept[n - 1], s[n])
            ELSE kept[n - 1]
    IN  kept[Len(s)]
=============================================================================
