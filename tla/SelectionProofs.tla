-------------------------- MODULE SelectionProofs --------------------------
(***************************************************************************)
(* What Kept makes of a sequence: its elements in T, all of them and in    *)
(* their order.  The provers know no induction over data; where a function *)
(* is defined by recursion over 0 .. n, that the naturals are well founded *)
(* takes its place: a least number for which something fails.  A function  *)
(* that is defined by a loop has a value even where the loop does not end. *)
(***************************************************************************)
EXTENDS Selection, FiniteSets, SequenceTheorems, FiniteSetTheorems,
        WellFoundedInduction, TLAPS

\* A set of numbers that is not empty has a least one.
LEMMA LeastElement ==
    ASSUME NEW S \in SUBSET Nat, S # {}
    PROVE  \E x \in S : \A y \in S : x <= y
<1> DEFINE R == OpToRel(<, Nat)
<1>1. IsWellFoundedOn(R, Nat)
  BY NatLessThanWellFounded
<1>2. PICK x \in S : \A y \in S : <<y, x>> \notin R
  <2> HIDE DEF R
  <2> QED
    BY <1>1, WFMin
<1>3. ASSUME NEW y \in S, y < x PROVE FALSE
  <2>1. <<y, x>> \in Nat \X Nat /\ <<y, x>>[1] < <<y, x>>[2]
    BY <1>3
  <2>2. <<y, x>> \in R
    BY <2>1, Zenon DEF OpToRel
  <2> QED
    BY <1>2, <2>2
<1> QED
  BY <1>3

\* A function on 0 .. n that starts from base and goes on by step.
Follows(f, n, base, step) ==
    f[0] = base /\ \A i \in 1 .. n : f[i] = step[<<i, f[i - 1]>>]

\* There is one, for any first value and any step.
LEMMA RecursionHasValue ==
    ASSUME NEW n \in Nat, NEW D, NEW base \in D, NEW step \in [(1 .. n) \X D -> D]
    PROVE  \E f \in [0 .. n -> D] : Follows(f, n, base, step)
<1> DEFINE Reach(m) == \E f \in [0 .. m -> D] : Follows(f, m, base, step)
           missed == {m \in 0 .. n : ~Reach(m)}
<1>1. Reach(0)
  <2> WITNESS [i \in 0 .. 0 |-> base] \in [0 .. 0 -> D]
  <2> QED
    BY DEF Follows
<1>2. ASSUME NEW m \in 1 .. n, Reach(m - 1) PROVE Reach(m)
  <2>1. PICK f \in [0 .. (m - 1) -> D] : Follows(f, m - 1, base, step)
    BY <1>2
  <2>2. step[<<m, f[m - 1]>>] \in D
    BY <2>1
  <2> DEFINE g == [i \in 0 .. m |-> IF i = m THEN step[<<m, f[m - 1]>>] ELSE f[i]]
  <2>3. g \in [0 .. m -> D]
    BY <2>2
  <2>4. g[0] = base
    BY <2>1 DEF Follows
  <2>5. ASSUME NEW i \in 1 .. m PROVE g[i] = step[<<i, g[i - 1]>>]
    <3>1. g[i - 1] = f[i - 1] /\ i - 1 \in 0 .. (m - 1)
      OBVIOUS
    <3>2. CASE i = m
      <4>1. g[i] = step[<<m, f[m - 1]>>]
        BY <3>2
      <4> QED
        BY <3>1, <3>2, <4>1
    <3>3. CASE i # m
      <4>1. i \in 1 .. (m - 1) /\ g[i] = f[i]
        BY <3>3
      <4> QED
        BY <2>1, <3>1, <4>1 DEF Follows
    <3> QED
      BY <3>2, <3>3
  <2>6. Follows(g, m, base, step)
    BY <2>4, <2>5 DEF Follows
  <2> QED
    BY <2>3, <2>6
<1>3. missed = {}
  <2> SUFFICES ASSUME missed # {} PROVE FALSE
    OBVIOUS
  <2>1. missed \in SUBSET Nat /\ missed # {}
    OBVIOUS
  <2> HIDE DEF missed
  <2>2. PICK m \in missed : \A k \in missed : m <= k
    BY <2>1, LeastElement
  <2> USE DEF missed
  <2> HIDE DEF Reach
  <2>3. m \in 0 .. n /\ ~Reach(m) /\ m # 0
    BY <1>1
  <2>4. m - 1 \notin missed /\ m - 1 \in 0 .. n
    BY <2>2, <2>3
  <2> QED
    BY <1>2, <2>3, <2>4
<1> QED
  <2> HIDE DEF Reach
  <2>1. Reach(n)
    BY <1>3
  <2> QED
    BY <2>1 DEF Reach

\* What Kept has after each element.
KeptSoFar(f, s, T) ==
    /\ f[0] = <<>>
    /\ \A i \in 1 .. Len(s) :
          f[i] = IF s[i] \in T THEN Append(f[i - 1], s[i]) ELSE f[i - 1]
    /\ Kept(s, T) = f[Len(s)]

LEMMA KeptUnfolds ==
    ASSUME NEW S, NEW s \in Seq(S), NEW T
    PROVE  \E f \in [0 .. Len(s) -> Seq(S)] : KeptSoFar(f, s, T)
<1> DEFINE n == Len(s)
           D == Seq(S)
           step == [x \in (1 .. n) \X D |->
                       IF s[x[1]] \in T THEN Append(x[2], s[x[1]]) ELSE x[2]]
           body(f) == [i \in 0 .. n |-> IF i = 0 THEN <<>>
                                        ELSE IF s[i] \in T THEN Append(f[i - 1], s[i])
                                        ELSE f[i - 1]]
<1>1. n \in Nat /\ \A i \in 1 .. n : s[i] \in S
  OBVIOUS
<1>2. <<>> \in D /\ step \in [(1 .. n) \X D -> D]
  BY <1>1
<1>3. PICK f \in [0 .. n -> D] : Follows(f, n, <<>>, step)
  <2> HIDE DEF n, D, step
  <2> QED
    BY <1>1, <1>2, RecursionHasValue
<1>4. ASSUME NEW i \in 1 .. n
      PROVE  f[i] = IF s[i] \in T THEN Append(f[i - 1], s[i]) ELSE f[i - 1]
  <2> HIDE DEF n, D
  <2>1. f[i] = step[<<i, f[i - 1]>>]
    BY <1>3 DEF Follows
  <2>2. i - 1 \in 0 .. n
    BY <1>1
  <2>3. f[i - 1] \in D
    BY <1>3, <2>2
  <2> QED
    BY <2>1, <2>3
<1>5. f = body(f)
  <2>1. \A i \in 0 .. n : i # 0 => i \in 1 .. n
    BY <1>1
  <2>2. f[0] = <<>>
    BY <1>3 DEF Follows
  <2>3. f = [i \in 0 .. n |-> f[i]]
    BY <1>3
  <2>4. \A i \in 0 .. n : f[i] = body(f)[i]
    BY <1>4, <2>1, <2>2
  <2> HIDE DEF n, D
  <2> QED
    BY <2>3, <2>4
<1> DEFINE kept == CHOOSE g : g = body(g)
<1>6. kept = body(kept)
  BY <1>5
<1>7. Kept(s, T) = kept[n]
  BY DEF Kept
<1>8. ASSUME NEW i \in 0 .. n PROVE kept[i] = f[i]
  <2> DEFINE wrong == {j \in 0 .. n : kept[j] # f[j]}
  <2> SUFFICES ASSUME wrong # {} PROVE FALSE
    OBVIOUS
  <2>1. wrong \in SUBSET Nat
    OBVIOUS
  <2>2. PICK j \in wrong : \A k \in wrong : j <= k
    <3> HIDE DEF wrong
    <3> QED
      BY <2>1, LeastElement
  <2>3. j \in 0 .. n /\ kept[j] # f[j]
    OBVIOUS
  <2> HIDE DEF kept
  <2>4. j # 0
    BY <1>3, <1>6, <2>3 DEF Follows
  <2>5. j \in 1 .. n /\ j - 1 \in 0 .. n /\ kept[j - 1] = f[j - 1]
    BY <1>1, <2>2, <2>3, <2>4
  <2>6. kept[j] = IF s[j] \in T THEN Append(kept[j - 1], s[j]) ELSE kept[j - 1]
    <3>1. \A l \in 0 .. n : kept[l] = body(kept)[l]
      BY <1>6
    <3> HIDE DEF n
    <3>2. j \in 0 .. n /\ kept[j] = body(kept)[j]
      BY <2>3, <3>1
    <3> QED
      BY <2>4, <3>2
  <2> QED
    BY <1>4, <2>3, <2>5, <2>6
<1> HIDE DEF kept
<1> QED
  BY <1>1, <1>3, <1>4, <1>7, <1>8 DEF Follows, KeptSoFar

\* The elements of a sequence that are in T, in the order of the sequence: those
\* before one of them are before it still.
LEMMA KeptInOrder ==
    ASSUME NEW S, NEW s \in Seq(S), NEW T
    PROVE  LET r == Kept(s, T)
           IN  /\ r \in Seq(S)
               /\ \A m \in 1 .. Len(r) : r[m] \in T /\ \E i \in 1 .. Len(s) :
                    /\ s[i] = r[m]
                    /\ \A j \in 1 .. i - 1 :
                          s[j] \in T => \E l \in 1 .. m - 1 : r[l] = s[j]
<1> DEFINE n == Len(s)
<1>0. PICK f \in [0 .. n -> Seq(S)] : KeptSoFar(f, s, T)
  BY KeptUnfolds
<1>1. /\ f[0] = <<>>
      /\ \A i \in 1 .. n :
            f[i] = IF s[i] \in T THEN Append(f[i - 1], s[i]) ELSE f[i - 1]
      /\ Kept(s, T) = f[n]
  BY <1>0 DEF KeptSoFar
<1>2. n \in Nat /\ \A i \in 1 .. n : s[i] \in S
  OBVIOUS
<1> DEFINE Ordered(p) ==
              /\ \A m \in 1 .. Len(f[p]) : f[p][m] \in T /\ \E i \in 1 .. p :
                    /\ s[i] = f[p][m]
                    /\ \A j \in 1 .. i - 1 :
                          s[j] \in T => \E l \in 1 .. m - 1 : f[p][l] = s[j]
              /\ \A j \in 1 .. p : s[j] \in T => \E l \in 1 .. Len(f[p]) : f[p][l] = s[j]
           wrong == {p \in 0 .. n : ~Ordered(p)}
<1> HIDE DEF n
<1>3. Ordered(0)
  BY <1>1
<1>4. ASSUME NEW p \in 1 .. n, Ordered(p - 1) PROVE Ordered(p)
  <2>1. CASE s[p] \notin T
    <3>1. f[p] = f[p - 1]
      BY <1>1, <2>1
    <3>2. \A m \in 1 .. Len(f[p]) : f[p][m] \in T /\ \E i \in 1 .. p - 1 :
                /\ s[i] = f[p][m]
                /\ \A j \in 1 .. i - 1 : s[j] \in T => \E l \in 1 .. m - 1 : f[p][l] = s[j]
      BY <1>4, <3>1
    <3>3. \A j \in 1 .. p - 1 : s[j] \in T => \E l \in 1 .. Len(f[p]) : f[p][l] = s[j]
      BY <1>4, <3>1
    <3>4. \A i \in 1 .. p - 1 : i \in 1 .. p
      BY <1>2
    <3>5. \A j \in 1 .. p : s[j] \in T => j \in 1 .. p - 1
      BY <1>2, <2>1
    <3> QED
      BY <3>2, <3>3, <3>4, <3>5, Zenon
  <2>2. CASE s[p] \in T
    <3> DEFINE r == f[p - 1]
               q == f[p]
    <3>1. q = Append(r, s[p]) /\ r \in Seq(S) /\ s[p] \in S
      <4>1. p - 1 \in 0 .. n
        BY <1>2
      <4>2. f[p - 1] \in Seq(S)
        BY <4>1
      <4> QED
        BY <1>1, <1>2, <2>2, <4>2
    <3>2. /\ Len(r) \in Nat /\ Len(q) = Len(r) + 1 /\ q[Len(r) + 1] = s[p]
          /\ \A l \in 1 .. Len(r) : q[l] = r[l]
      BY <3>1
    <3>3. Ordered(p - 1)
      BY <1>4
    <3>a. /\ \A m \in 1 .. Len(r) : r[m] \in T /\ \E i \in 1 .. p - 1 :
                /\ s[i] = r[m]
                /\ \A j \in 1 .. i - 1 : s[j] \in T => \E l \in 1 .. m - 1 : r[l] = s[j]
          /\ \A j \in 1 .. p - 1 : s[j] \in T => \E l \in 1 .. Len(r) : r[l] = s[j]
      BY <3>3
    <3> HIDE DEF r, q, Ordered
    <3>4. ASSUME NEW j \in 1 .. p, s[j] \in T PROVE \E l \in 1 .. Len(q) : q[l] = s[j]
      <4>1. CASE j = p
        <5>1. Len(r) + 1 \in 1 .. Len(q)
          BY <3>2
        <5> QED
          BY <3>2, <4>1, <5>1
      <4>2. CASE j # p
        <5>1. PICK l \in 1 .. Len(r) : r[l] = s[j]
          BY <1>2, <3>a, <3>4, <4>2
        <5> QED
          BY <3>2, <5>1
      <4> QED
        BY <4>1, <4>2
    <3>5. ASSUME NEW m \in 1 .. Len(q)
          PROVE  q[m] \in T /\ \E i \in 1 .. p :
                    /\ s[i] = q[m]
                    /\ \A j \in 1 .. i - 1 : s[j] \in T => \E l \in 1 .. m - 1 : q[l] = s[j]
      <4>1. CASE m = Len(r) + 1
        <5>1. \A j \in 1 .. p - 1 : s[j] \in T => \E l \in 1 .. m - 1 : q[l] = s[j]
          <6> SUFFICES ASSUME NEW j \in 1 .. p - 1, s[j] \in T
                       PROVE  \E l \in 1 .. m - 1 : q[l] = s[j]
            OBVIOUS
          <6>1. PICK l \in 1 .. Len(r) : r[l] = s[j]
            BY <3>a
          <6> QED
            BY <3>2, <4>1, <6>1
        <5> QED
          BY <2>2, <3>2, <4>1, <5>1
      <4>2. CASE m # Len(r) + 1
        <5>1. m \in 1 .. Len(r) /\ q[m] = r[m]
          BY <3>2, <4>2
        <5>2. r[m] \in T
          BY <3>a, <5>1
        <5>3. PICK i \in 1 .. p - 1 :
                /\ s[i] = r[m]
                /\ \A j \in 1 .. i - 1 : s[j] \in T => \E l \in 1 .. m - 1 : r[l] = s[j]
          BY <3>a, <5>1
        <5>4. \A l \in 1 .. m - 1 : q[l] = r[l]
          BY <3>2, <5>1
        <5>5. i \in 1 .. p
          OBVIOUS
        <5>6. \A j \in 1 .. i - 1 : s[j] \in T => \E l \in 1 .. m - 1 : q[l] = s[j]
          BY <5>3, <5>4
        <5> QED
          BY <5>1, <5>2, <5>3, <5>5, <5>6
      <4> QED
        BY <4>1, <4>2
    <3> QED
      BY <3>4, <3>5 DEF q, Ordered
  <2> QED
    BY <2>1, <2>2
<1> HIDE DEF Ordered
<1>5. wrong = {}
  <2> SUFFICES ASSUME wrong # {} PROVE FALSE
    OBVIOUS
  <2>1. wrong \in SUBSET Nat
    OBVIOUS
  <2>2. PICK p \in wrong : \A k \in wrong : p <= k
    <3> HIDE DEF wrong
    <3> QED
      BY <2>1, LeastElement
  <2>3. p \in 1 .. n /\ ~Ordered(p)
    BY <1>2, <1>3
  <2>4. p - 1 \notin wrong /\ p - 1 \in 0 .. n
    BY <1>2, <2>2, <2>3
  <2> QED
    BY <1>4, <2>3, <2>4
<1>6. Ordered(n)
  <2>1. n \in 0 .. n
    BY <1>2
  <2> QED
    BY <1>5, <2>1
<1>7. Kept(s, T) \in Seq(S)
  BY <1>1, <1>2
<1> QED
  BY <1>1, <1>6, <1>7 DEF Ordered, n

\* What holds of 0, and of a number if of the one before it, holds up to n.
LEMMA StepByStep ==
    ASSUME NEW n \in Nat, NEW P, 0 \in P, \A i \in 1 .. n : i - 1 \in P => i \in P
    PROVE  \A i \in 0 .. n : i \in P
<1> DEFINE wrong == {i \in 0 .. n : i \notin P}
<1> SUFFICES ASSUME wrong # {} PROVE FALSE
  OBVIOUS
<1>1. wrong \in SUBSET Nat
  OBVIOUS
<1>2. PICK i \in wrong : \A k \in wrong : i <= k
  <2> HIDE DEF wrong
  <2> QED
    BY <1>1, LeastElement
<1>3. i \in 1 .. n /\ i \notin P
  OBVIOUS
<1>4. i - 1 \notin wrong /\ i - 1 \in 0 .. n
  BY <1>2, <1>3
<1> QED
  BY <1>3, <1>4

\* Where the elements in T are.
PlacesIn(s, T) == {i \in 1 .. Len(s) : s[i] \in T}

\* No element in T is left out, and each is kept as often as it occurs.
LEMMA KeptIsAll ==
    ASSUME NEW S, NEW s \in Seq(S), NEW T
    PROVE  LET r == Kept(s, T)
           IN  /\ r \in Seq(S)
               /\ Len(r) = Cardinality(PlacesIn(s, T))
               /\ \A i \in 1 .. Len(s) : s[i] \in T => \E m \in 1 .. Len(r) : r[m] = s[i]
<1> DEFINE n == Len(s)
           places(p) == {i \in 1 .. p : s[i] \in T}
<1>1. PICK f \in [0 .. n -> Seq(S)] : KeptSoFar(f, s, T)
  BY KeptUnfolds
<1>2. /\ f[0] = <<>>
      /\ \A i \in 1 .. n :
            f[i] = IF s[i] \in T THEN Append(f[i - 1], s[i]) ELSE f[i - 1]
      /\ Kept(s, T) = f[n]
  BY <1>1 DEF KeptSoFar
<1>3. n \in Nat /\ \A i \in 1 .. n : s[i] \in S
  OBVIOUS
<1> HIDE DEF n
<1> DEFINE Counts(p) == /\ IsFiniteSet(places(p)) /\ Len(f[p]) = Cardinality(places(p))
                        /\ \A i \in places(p) : \E m \in 1 .. Len(f[p]) : f[p][m] = s[i]
           P == {p \in 0 .. n : Counts(p)}
<1>4. Counts(0)
  <2>1. places(0) = {}
    OBVIOUS
  <2> HIDE DEF places
  <2> QED
    BY <1>2, <2>1, FS_EmptySet
<1>5. ASSUME NEW p \in 1 .. n, Counts(p - 1) PROVE Counts(p)
  <2>1. f[p - 1] \in Seq(S) /\ Len(f[p - 1]) \in Nat
    <3>1. p - 1 \in 0 .. n
      BY <1>3
    <3>2. f[p - 1] \in Seq(S)
      BY <3>1
    <3> QED
      BY <3>2
  <2>2. CASE s[p] \notin T
    <3>1. f[p] = f[p - 1]
      BY <1>2, <2>2
    <3>2. places(p) = places(p - 1)
      BY <1>3, <2>2
    <3> HIDE DEF places
    <3> QED
      BY <1>5, <3>1, <3>2
  <2>3. CASE s[p] \in T
    <3> DEFINE r == f[p - 1]
               q == f[p]
    <3>1. q = Append(r, s[p])
      BY <1>2, <2>3
    <3>2. /\ Len(q) = Len(r) + 1 /\ q[Len(r) + 1] = s[p]
          /\ \A l \in 1 .. Len(r) : q[l] = r[l]
      BY <1>3, <2>1, <3>1
    <3>3. places(p) = places(p - 1) \union {p} /\ p \notin places(p - 1)
      BY <1>3, <2>3
    <3>4. /\ IsFiniteSet(places(p - 1)) /\ Len(r) = Cardinality(places(p - 1))
          /\ \A i \in places(p - 1) : \E m \in 1 .. Len(r) : r[m] = s[i]
      BY <1>5
    <3> HIDE DEF places, q, r
    <3>5. IsFiniteSet(places(p)) /\ Len(q) = Cardinality(places(p))
      <4> DEFINE before == places(p - 1)
      <4>1. IsFiniteSet(before) /\ p \notin before /\ places(p) = before \union {p}
        BY <3>3, <3>4
      <4> HIDE DEF before
      <4>2. /\ IsFiniteSet(before \union {p})
            /\ Cardinality(before \union {p}) = Cardinality(before) + 1
        BY <4>1, FS_AddElement
      <4> QED
        BY <3>2, <3>4, <4>1, <4>2 DEF before
    <3>6. ASSUME NEW i \in places(p) PROVE \E m \in 1 .. Len(q) : q[m] = s[i]
      <4>1. Len(r) \in Nat
        BY <2>1 DEF r
      <4>2. CASE i = p
        BY <3>2, <4>1, <4>2
      <4>3. CASE i # p
        <5>1. PICK m \in 1 .. Len(r) : r[m] = s[i]
          BY <3>3, <3>4, <4>3
        <5> QED
          BY <3>2, <4>1, <5>1
      <4> QED
        BY <4>2, <4>3
    <3> QED
      BY <3>5, <3>6 DEF q
  <2> QED
    BY <2>2, <2>3
<1> HIDE DEF Counts
<1>6. Counts(n)
  <2>1. 0 \in P /\ \A i \in 1 .. n : i - 1 \in P => i \in P
    BY <1>3, <1>4, <1>5
  <2> HIDE DEF P
  <2>2. \A i \in 0 .. n : i \in P
    BY <1>3, <2>1, StepByStep
  <2>3. n \in P
    BY <1>3, <2>2
  <2> USE DEF P
  <2> QED
    BY <2>3
<1>7. Kept(s, T) \in Seq(S)
  BY <1>2, <1>3
<1>8. /\ Len(f[n]) = Cardinality(places(n))
      /\ \A i \in 1 .. n : s[i] \in T => \E m \in 1 .. Len(f[n]) : f[n][m] = s[i]
  BY <1>6 DEF Counts
<1> QED
  BY <1>2, <1>7, <1>8 DEF n, PlacesIn

\* Kept keeps those members of a sequence that are in T.
Members(s) == {s[i] : i \in 1 .. Len(s)}

LEMMA KeptMembers ==
    ASSUME NEW S, NEW s \in Seq(S), NEW T
    PROVE  Kept(s, T) \in Seq(S) /\ Members(Kept(s, T)) = Members(s) \intersect T
<1> DEFINE r == Kept(s, T)
<1>1. /\ r \in Seq(S)
      /\ \A m \in 1 .. Len(r) : r[m] \in T /\ \E i \in 1 .. Len(s) : s[i] = r[m]
  BY KeptInOrder
<1>2. \A i \in 1 .. Len(s) : s[i] \in T => \E m \in 1 .. Len(r) : r[m] = s[i]
  BY KeptIsAll
<1> HIDE DEF r
<1>3. ASSUME NEW x \in Members(r) PROVE x \in Members(s) /\ x \in T
  <2>1. PICK m \in 1 .. Len(r) : x = r[m]
    BY DEF Members
  <2>2. r[m] \in T /\ \E i \in 1 .. Len(s) : s[i] = r[m]
    BY <1>1
  <2> QED
    BY <2>1, <2>2 DEF Members
<1>4. ASSUME NEW x \in Members(s), x \in T PROVE x \in Members(r)
  <2>1. PICK i \in 1 .. Len(s) : x = s[i]
    BY DEF Members
  <2>2. \E m \in 1 .. Len(r) : r[m] = s[i]
    BY <1>2, <1>4, <2>1
  <2> QED
    BY <2>1, <2>2 DEF Members
<1>5. Members(r) = Members(s) \intersect T
  BY <1>3, <1>4
<1> QED
  BY <1>1, <1>5 DEF r

\* A run of step from x into Stop.
IsRun(t, n, x, D, Stop, step) ==
    /\ t \in [0 .. n -> D] /\ t[0] = x /\ t[n] \in Stop
    /\ \A i \in 0 .. n - 1 : t[i] \notin Stop /\ t[i + 1] = step[t[i]]

RunsEnd(x, D, Stop, step) ==
    {y \in D : \E n \in Nat : \E t : IsRun(t, n, x, D, Stop, step) /\ y = t[n]}

\* A function that looks itself up at the next state until one where it stops.
IsLoop(f, D, Stop, answer, step) ==
    f = [x \in D |-> IF x \in Stop THEN answer[x] ELSE f[step[x]]]

\* There is one, for any states and steps, whether or not it stops.
LEMMA LoopHasValue ==
    ASSUME NEW D, NEW Stop \in SUBSET D, NEW answer, NEW step,
           \A x \in D \ Stop : step[x] \in D
    PROVE  \E f : IsLoop(f, D, Stop, answer, step)
<1> DEFINE End(x) == RunsEnd(x, D, Stop, step)
           f == [x \in D |-> answer[CHOOSE y : y \in End(x)]]
<1>1. ASSUME NEW x \in Stop PROVE End(x) = {x}
  <2>1. x \in End(x)
    <3> DEFINE t == [i \in 0 .. 0 |-> x]
    <3>1. IsRun(t, 0, x, D, Stop, step) /\ t[0] = x
      BY DEF IsRun
    <3> HIDE DEF t
    <3> QED
      BY <3>1 DEF RunsEnd
  <2>2. ASSUME NEW y \in End(x) PROVE y = x
    <3>0. PICK n \in Nat : \E t : IsRun(t, n, x, D, Stop, step) /\ y = t[n]
      BY DEF RunsEnd
    <3>1. PICK t : IsRun(t, n, x, D, Stop, step) /\ y = t[n]
      BY <3>0
    <3>2. ~(0 \in 0 .. n - 1)
      BY <3>1 DEF IsRun
    <3>3. n = 0
      BY <3>2
    <3> QED
      BY <3>1, <3>3 DEF IsRun
  <2> QED
    BY <2>1, <2>2
<1>2. ASSUME NEW x \in D \ Stop PROVE End(x) = End(step[x])
  <2>1. ASSUME NEW y \in End(x) PROVE y \in End(step[x])
    <3>0. PICK n \in Nat : \E t : IsRun(t, n, x, D, Stop, step) /\ y = t[n]
      BY DEF RunsEnd
    <3>1. PICK t : IsRun(t, n, x, D, Stop, step) /\ y = t[n]
      BY <3>0
    <3>2. n # 0
      BY <3>1 DEF IsRun
    <3>3. n - 1 \in Nat /\ 0 \in 0 .. n - 1 /\ (n - 1) + 1 = n
      BY <3>2
    <3> DEFINE u == [i \in 0 .. n - 1 |-> t[i + 1]]
    <3>4. \A i \in 0 .. n - 1 : i + 1 \in 0 .. n /\ t[i + 1] \in D /\ u[i] = t[i + 1]
      BY <3>1 DEF IsRun
    <3>5. u \in [0 .. n - 1 -> D] /\ u[0] = step[x] /\ u[n - 1] = y /\ y \in Stop
      BY <3>1, <3>3, <3>4 DEF IsRun
    <3>6. ASSUME NEW i \in 0 .. (n - 1) - 1 PROVE u[i] \notin Stop /\ u[i + 1] = step[u[i]]
      <4>1. i \in 0 .. n - 1 /\ i + 1 \in 0 .. n - 1
        BY <3>3
      <4> QED
        BY <3>1, <3>4, <4>1 DEF IsRun
    <3> HIDE DEF u
    <3>7. IsRun(u, n - 1, step[x], D, Stop, step)
      BY <3>5, <3>6 DEF IsRun
    <3> QED
      BY <3>3, <3>5, <3>7 DEF RunsEnd
  <2>2. ASSUME NEW y \in End(step[x]) PROVE y \in End(x)
    <3>0. PICK n \in Nat : \E t : IsRun(t, n, step[x], D, Stop, step) /\ y = t[n]
      BY DEF RunsEnd
    <3>1. PICK t : IsRun(t, n, step[x], D, Stop, step) /\ y = t[n]
      BY <3>0
    <3> DEFINE u == [i \in 0 .. n + 1 |-> IF i = 0 THEN x ELSE t[i - 1]]
    <3>2. \A i \in 0 .. n : i + 1 \in 0 .. n + 1 /\ t[i] \in D /\ u[i + 1] = t[i]
      BY <3>1 DEF IsRun
    <3>3. \A i \in 0 .. n + 1 : i # 0 => i - 1 \in 0 .. n
      OBVIOUS
    <3>4. u \in [0 .. n + 1 -> D] /\ u[0] = x /\ u[n + 1] = t[n]
      BY <3>1, <3>2, <3>3
    <3>5. ASSUME NEW i \in 0 .. (n + 1) - 1 PROVE u[i] \notin Stop /\ u[i + 1] = step[u[i]]
      <4>1. i \in 0 .. n /\ u[i + 1] = t[i]
        BY <3>2
      <4>2. CASE i = 0
        BY <3>1, <3>4, <4>1, <4>2 DEF IsRun
      <4>3. CASE i # 0
        <5>1. i - 1 \in 0 .. n - 1 /\ (i - 1) + 1 = i /\ i \in 0 .. n + 1
          BY <4>3
        <5>2. u[i] = t[i - 1]
          BY <4>3, <5>1
        <5> HIDE DEF u
        <5> QED
          BY <3>1, <4>1, <5>1, <5>2 DEF IsRun
      <4> QED
        BY <4>2, <4>3
    <3> HIDE DEF u
    <3>6. IsRun(u, n + 1, x, D, Stop, step) /\ y \in D /\ y = u[n + 1]
      BY <3>1, <3>2, <3>4, <3>5 DEF IsRun
    <3>7. n + 1 \in Nat
      OBVIOUS
    <3> QED
      BY <3>6, <3>7 DEF RunsEnd
  <2> QED
    BY <2>1, <2>2 DEF RunsEnd
<1> HIDE DEF End
<1>3. ASSUME NEW x \in D
      PROVE  f[x] = IF x \in Stop THEN answer[x] ELSE f[step[x]]
  <2>1. CASE x \in Stop
    BY <1>1, <2>1
  <2>2. CASE x \notin Stop
    <3>1. step[x] \in D /\ End(x) = End(step[x])
      BY <1>2, <2>2
    <3> QED
      BY <2>2, <3>1
  <2> QED
    BY <2>1, <2>2
<1>4. f = [x \in D |-> f[x]]
  OBVIOUS
<1> HIDE DEF f
<1>5. IsLoop(f, D, Stop, answer, step)
  BY <1>3, <1>4 DEF IsLoop
<1> QED
  BY <1>5
=============================================================================
