---------------------------- MODULE MemoryProofs ----------------------------
(***************************************************************************)
(* Proofs about the memory of a session: the working memory window (L1),   *)
(* the episodic stores (L2), the intent graph (L3) and the retriever that  *)
(* draws on the last two.                                                  *)
(***************************************************************************)
EXTENDS WorkingMemory, Retrieval, SelectionProofs

-----------------------------------------------------------------------------
(***************************************************************************)
(* L1.  For every max_turns, token_threshold and compressor: the working   *)
(* memory loses no turn, a returned add_turn leaves at most max_turns, and *)
(* a context has no gap.                                                   *)
(***************************************************************************)

\* What each step preserves; the third conjunct gives the window a place in
\* the conversation from which TurnsAreLatest counts.
WindowInv ==
    /\ WindowTypeOK
    /\ TurnsAreLatest
    /\ Len(turns) <= next_id - 1
    /\ OlderTurnsSummarised
    /\ WindowBounded

\* The relief loop compresses at least one turn and no more than there are.
LEMMA HalfRange ==
    ASSUME WindowTypeOK, turns # <<>>
    PROVE  Half \in 1..Len(turns)
<1>1. Len(turns) \in Nat /\ Len(turns) > 0
  BY DEF WindowTypeOK
<1> QED
  BY <1>1 DEF Half

\* A compression of the n oldest turns shifts them from the window to a new
\* summary, and the two still tell the conversation in order.
LEMMA CompressKeepsTurns ==
    ASSUME WindowInv, NEW n \in 1..Len(turns), NEW size \in SummaryTokens,
           Compress(n, size)
    PROVE  /\ turns' \in Seq(TurnEntry)
           /\ summaries' \in Seq(CompressedSummary)
           /\ next_id' = next_id
           /\ Len(turns') = Len(turns) - n
           /\ TurnsAreLatest'
           /\ OlderTurnsSummarised'
<1> DEFINE ids == {turns[i].id : i \in 1..n}
           new == [ids |-> ids, tokens |-> size]
           old == next_id - 1 - Len(turns)
<1>1. /\ turns \in Seq(TurnEntry) /\ summaries \in Seq(CompressedSummary) /\ Len(turns) \in Nat
      /\ Len(summaries) \in Nat /\ next_id \in Int /\ n \in Int
      /\ n >= 1 /\ n <= Len(turns)
      /\ Len(turns) <= next_id - 1 /\ next_id <= MaxId + 1 /\ MaxId \in Nat
  BY BoundAssumption DEF WindowInv, WindowTypeOK
<1>2. /\ summaries' = Append(summaries, new)
      /\ turns' = SubSeq(turns, n + 1, Len(turns))
      /\ next_id' = next_id
  BY <1>1 DEF Compress
<1>3. old \in Nat /\ old + n <= MaxId
  BY <1>1
<1>4. \A i \in 1..Len(turns) : turns[i].id = old + i
  BY <1>1 DEF WindowInv, TurnsAreLatest
<1>5. \A x : x \in ids <=> x \in (old + 1)..(old + n)
  <2> HIDE DEF old
  <2>1. ASSUME NEW i \in 1..n
        PROVE  turns[i].id \in (old + 1)..(old + n)
    <3>1. i \in 1..Len(turns)
      BY <1>1
    <3> QED
      BY <1>3, <1>4, <3>1
  <2>2. ASSUME NEW x \in (old + 1)..(old + n)
        PROVE  \E i \in 1..n : x = turns[i].id
    <3>1. x - old \in 1..n /\ x - old \in 1..Len(turns)
      BY <1>1, <1>3
    <3>2. turns[x - old].id = x
      BY <1>3, <1>4, <3>1
    <3> QED
      BY <3>1, <3>2
  <2> QED
    BY <2>1, <2>2
<1>6. new \in CompressedSummary
  <2> HIDE DEF ids, old
  <2>1. ids \subseteq 1..MaxId
    BY <1>1, <1>3, <1>5
  <2> QED
    BY <2>1 DEF CompressedSummary
<1>7. /\ turns' \in Seq(TurnEntry) /\ Len(turns') = Len(turns) - n
      /\ \A i \in 1..(Len(turns) - n) : turns'[i] = turns[n + i]
  BY <1>1, <1>2
<1>8. /\ summaries' \in Seq(CompressedSummary) /\ Len(summaries') = Len(summaries) + 1
      /\ \A j \in 1..Len(summaries) : summaries'[j] = summaries[j]
      /\ summaries'[Len(summaries) + 1] = new
  <2> HIDE DEF new
  <2> QED
    BY <1>1, <1>2, <1>6
<1>9. next_id' - 1 - Len(turns') = old + n
  <2>1. next_id' - 1 - Len(turns') = next_id - 1 - (Len(turns) - n)
    BY <1>2, <1>7
  <2> QED
    BY <1>1, <2>1
<1>10. TurnsAreLatest'
  <2> SUFFICES ASSUME NEW i \in 1..Len(turns')
               PROVE  turns'[i].id = next_id' - 1 - Len(turns') + i
    BY DEF TurnsAreLatest
  <2>1. i \in 1..(Len(turns) - n) /\ n + i \in 1..Len(turns)
    BY <1>1, <1>7
  <2>2. turns'[i].id = old + (n + i)
    BY <1>4, <1>7, <2>1
  <2> QED
    BY <1>1, <1>3, <1>9, <2>1, <2>2
<1> HIDE DEF ids, old
<1>11. summaries'[Len(summaries) + 1].ids = (old + 1)..(old + n)
  <2>1. ids = (old + 1)..(old + n)
    BY <1>5, Zenon
  <2>2. new.ids = ids
    OBVIOUS
  <2> HIDE DEF new
  <2>3. summaries'[Len(summaries) + 1] = new
    BY <1>8
  <2> QED
    BY <2>1, <2>2, <2>3
<1> HIDE DEF new
<1>12. /\ \A j \in 1..Len(summaries) : summaries[j].ids \subseteq 1..old
       /\ \A t \in 1..old : \E j \in 1..Len(summaries) : t \in summaries[j].ids
       /\ \A i, j \in 1..Len(summaries) : i < j =>
            \A a \in summaries[i].ids, b \in summaries[j].ids : a < b
  BY DEF WindowInv, OlderTurnsSummarised, old
<1>13. ASSUME NEW j \in 1..Len(summaries')
       PROVE  summaries'[j].ids \subseteq 1..(old + n)
  <2>1. CASE j \in 1..Len(summaries)
    BY <1>1, <1>3, <1>8, <1>12, <2>1
  <2>2. CASE j = Len(summaries) + 1
    BY <1>1, <1>3, <1>11, <2>2
  <2> QED
    BY <1>1, <1>8, <2>1, <2>2
<1>14. ASSUME NEW t \in 1..(old + n)
       PROVE  \E j \in 1..Len(summaries') : t \in summaries'[j].ids
  <2>1. CASE t \in 1..old
    <3>1. PICK j \in 1..Len(summaries) : t \in summaries[j].ids
      BY <1>12, <2>1
    <3>2. j \in 1..Len(summaries') /\ t \in summaries'[j].ids
      BY <1>1, <1>8, <3>1
    <3> QED
      BY <3>2
  <2>2. CASE t \in (old + 1)..(old + n)
    <3>1. Len(summaries) + 1 \in 1..Len(summaries')
      BY <1>1, <1>8
    <3>2. t \in summaries'[Len(summaries) + 1].ids
      BY <1>11, <2>2
    <3> QED
      BY <3>1, <3>2
  <2> QED
    BY <1>1, <1>3, <2>1, <2>2
<1>15. ASSUME NEW i \in 1..Len(summaries'), NEW j \in 1..Len(summaries'), i < j,
              NEW a \in summaries'[i].ids, NEW b \in summaries'[j].ids
       PROVE  a < b
  <2>1. i \in 1..Len(summaries)
    BY <1>1, <1>8, <1>15
  <2>2. a \in summaries[i].ids
    BY <1>8, <2>1
  <2>3. CASE j \in 1..Len(summaries)
    <3>1. b \in summaries[j].ids
      BY <1>8, <2>3
    <3> QED
      BY <1>12, <1>15, <2>1, <2>2, <2>3, <3>1
  <2>4. CASE j = Len(summaries) + 1
    <3>1. a \in 1..old
      BY <1>12, <2>1, <2>2
    <3>2. b \in (old + 1)..(old + n)
      BY <1>11, <2>4
    <3> QED
      BY <1>1, <1>3, <3>1, <3>2
  <2> QED
    BY <1>1, <1>8, <2>3, <2>4
<1>16. OlderTurnsSummarised'
  BY <1>9, <1>13, <1>14, <1>15 DEF OlderTurnsSummarised
<1> QED
  BY <1>2, <1>7, <1>8, <1>10, <1>16

\* A new window has no turns to lose.
LEMMA InitWindowInv == WindowInit => WindowInv
<1> SUFFICES ASSUME WindowInit PROVE WindowInv
  OBVIOUS
<1>1. WindowTypeOK
  BY LimitAssumption, BoundAssumption DEF WindowInit, WindowTypeOK
<1>2. TurnsAreLatest /\ Len(turns) <= next_id - 1 /\ WindowBounded
  BY LimitAssumption DEF WindowInit, TurnsAreLatest, WindowBounded
<1>3. OlderTurnsSummarised
  BY DEF WindowInit, OlderTurnsSummarised
<1> QED
  BY <1>1, <1>2, <1>3 DEF WindowInv

\* add_turn appends the turn that follows the last one.
LEMMA AddTurnKeepsWindowInv ==
    ASSUME WindowInv, NEW n \in TurnTokens, AddTurn(n)
    PROVE  WindowInv'
<1> DEFINE turn == [id |-> next_id, tokens |-> n]
<1>1. /\ turns \in Seq(TurnEntry) /\ Len(turns) \in Nat /\ next_id \in Int
      /\ next_id >= 1 /\ next_id <= MaxId /\ MaxId \in Nat
      /\ Len(turns) <= next_id - 1
  BY BoundAssumption DEF WindowInv, WindowTypeOK, AddTurn
<1>2. turn \in TurnEntry
  BY <1>1 DEF TurnEntry
<1>3. /\ turns' = Append(turns, turn) /\ next_id' = next_id + 1
      /\ at' = "relief" /\ safety' = 0 /\ summaries' = summaries
  BY DEF AddTurn
<1>4. /\ turns' \in Seq(TurnEntry) /\ Len(turns') = Len(turns) + 1
      /\ \A i \in 1..Len(turns) : turns'[i] = turns[i]
      /\ turns'[Len(turns) + 1] = turn
  BY <1>1, <1>2, <1>3
<1>5. WindowTypeOK'
  BY <1>1, <1>3, <1>4, LimitAssumption DEF WindowInv, WindowTypeOK
<1>6. TurnsAreLatest'
  <2>1. ASSUME NEW i \in 1..Len(turns')
        PROVE  turns'[i].id = next_id' - 1 - Len(turns') + i
    <3>1. CASE i \in 1..Len(turns)
      BY <1>1, <1>3, <1>4, <3>1 DEF WindowInv, TurnsAreLatest
    <3>2. CASE i = Len(turns) + 1
      BY <1>1, <1>3, <1>4, <3>2
    <3> QED
      BY <1>1, <1>4, <3>1, <3>2
  <2> QED
    BY <2>1 DEF TurnsAreLatest
<1>7. next_id' - 1 - Len(turns') = next_id - 1 - Len(turns)
  BY <1>1, <1>3, <1>4
<1>8. OlderTurnsSummarised'
  BY <1>3, <1>7 DEF WindowInv, OlderTurnsSummarised
<1>9. Len(turns') <= next_id' - 1 /\ WindowBounded'
  BY <1>1, <1>3, <1>4 DEF WindowBounded
<1> QED
  BY <1>5, <1>6, <1>8, <1>9 DEF WindowInv

\* A step that changes none of the lists keeps the invariant if it ends the
\* call as returned only where the window fits.
LEMMA ControlKeepsWindowInv ==
    ASSUME WindowInv, UNCHANGED <<turns, summaries, next_id, safety>>,
           at' \in {"relief", "overflow", "returned", "raised"},
           at' = "returned" => Len(turns) <= max_turns
    PROVE  WindowInv'
<1>1. WindowTypeOK'
  BY DEF WindowInv, WindowTypeOK
<1>2. TurnsAreLatest' /\ OlderTurnsSummarised'
  BY DEF WindowInv, TurnsAreLatest, OlderTurnsSummarised
<1>3. (Len(turns) <= next_id - 1)' /\ WindowBounded'
  BY DEF WindowInv, WindowBounded
<1> QED
  BY <1>1, <1>2, <1>3 DEF WindowInv

\* One iteration of the relief loop.
LEMMA RelieveKeepsWindowInv ==
    ASSUME WindowInv, NEW size \in SummaryTokens, Relieve(size)
    PROVE  WindowInv'
<1>1. turns # <<>> /\ safety < SafetyLimit /\ at = "relief"
  BY DEF Relieve, MustRelieve
<1>2. Half \in 1..Len(turns)
  BY <1>1, HalfRange DEF WindowInv
<1>3. /\ turns' \in Seq(TurnEntry) /\ summaries' \in Seq(CompressedSummary)
      /\ next_id' = next_id /\ Len(turns') = Len(turns) - Half
      /\ TurnsAreLatest' /\ OlderTurnsSummarised'
  BY <1>2, CompressKeepsTurns DEF Relieve
<1>4. WindowTypeOK'
  BY <1>1, <1>3, LimitAssumption DEF WindowInv, WindowTypeOK, Relieve
<1>5. (Len(turns) <= next_id - 1)'
  BY <1>2, <1>3 DEF WindowInv, WindowTypeOK
<1>6. WindowBounded'
  BY <1>1 DEF WindowBounded, Relieve
<1> QED
  BY <1>3, <1>4, <1>5, <1>6 DEF WindowInv

\* The turns beyond max_turns leave the window, also those an earlier call that
\* raised left behind.
LEMMA ShiftKeepsWindowInv ==
    ASSUME WindowInv, NEW size \in SummaryTokens, Shift(size)
    PROVE  WindowInv'
<1>1. at = "overflow" /\ at' = "returned" /\ safety' = safety
      /\ Len(turns) > max_turns /\ Compress(Len(turns) - max_turns, size)
  BY DEF Shift
<1>2. Len(turns) \in Nat /\ max_turns \in Nat
  BY LimitAssumption DEF WindowInv, WindowTypeOK
<1>3. Len(turns) - max_turns \in 1..Len(turns)
  BY <1>1, <1>2
<1>4. /\ turns' \in Seq(TurnEntry) /\ summaries' \in Seq(CompressedSummary)
      /\ next_id' = next_id /\ Len(turns') = Len(turns) - (Len(turns) - max_turns)
      /\ TurnsAreLatest' /\ OlderTurnsSummarised'
  BY <1>1, <1>3, CompressKeepsTurns
<1>5. Len(turns') = max_turns
  BY <1>2, <1>4
<1>6. WindowTypeOK'
  BY <1>1, <1>4 DEF WindowInv, WindowTypeOK
<1>7. (Len(turns) <= next_id - 1)' /\ WindowBounded'
  BY <1>1, <1>2, <1>4, <1>5 DEF WindowInv, WindowTypeOK, WindowBounded
<1> QED
  BY <1>4, <1>6, <1>7 DEF WindowInv

\* Every step of add_turn keeps the invariant, the exception included.
LEMMA StepKeepsWindowInv == WindowInv /\ [WindowNext]_windowVars => WindowInv'
<1> SUFFICES ASSUME WindowInv, [WindowNext]_windowVars
             PROVE  WindowInv'
  OBVIOUS
<1>1. ASSUME NEW n \in TurnTokens, AddTurn(n) PROVE WindowInv'
  BY <1>1, AddTurnKeepsWindowInv
<1>2. ASSUME NEW size \in SummaryTokens, Relieve(size) PROVE WindowInv'
  BY <1>2, RelieveKeepsWindowInv
<1>3. ASSUME NEW size \in SummaryTokens, Shift(size) PROVE WindowInv'
  BY <1>3, ShiftKeepsWindowInv
<1>4. CASE Relieved
  BY <1>4, ControlKeepsWindowInv DEF Relieved
<1>5. CASE Fits
  BY <1>5, ControlKeepsWindowInv DEF Fits
<1>6. CASE CompressorRaises
  BY <1>6, ControlKeepsWindowInv DEF CompressorRaises
<1>7. CASE UNCHANGED windowVars
  <2>1. /\ UNCHANGED <<turns, summaries, next_id, safety>>
        /\ at' \in {"relief", "overflow", "returned", "raised"}
        /\ at' = "returned" => Len(turns) <= max_turns
    BY <1>7 DEF windowVars, WindowInv, WindowTypeOK, WindowBounded
  <2> QED
    BY <2>1, ControlKeepsWindowInv
<1> QED
  BY <1>1, <1>2, <1>3, <1>4, <1>5, <1>6, <1>7 DEF WindowNext, InAddTurn

\* The inductive invariant holds of every behaviour.
THEOREM WindowInvariant == WindowSpec => []WindowInv
BY InitWindowInv, StepKeepsWindowInv, PTL DEF WindowSpec

\* No turn is lost, repeated or reordered, whatever the limits and the
\* compressor, and whenever it raises.
THEOREM TurnsAccountedFor == WindowSpec => []EveryTurnOnce
<1>1. WindowInv => EveryTurnOnce
  BY DEF WindowInv, EveryTurnOnce
<1> QED
  BY <1>1, WindowInvariant, PTL

\* An add_turn that returns leaves at most max_turns turns.
THEOREM WindowStaysBounded == WindowSpec => []WindowBounded
<1>1. WindowInv => WindowBounded
  BY DEF WindowInv
<1> QED
  BY <1>1, WindowInvariant, PTL

\* The variables of the window keep their types.
THEOREM WindowTypeCorrect == WindowSpec => []WindowTypeOK
<1>1. WindowInv => WindowTypeOK
  BY DEF WindowInv
<1> QED
  BY <1>1, WindowInvariant, PTL
-----------------------------------------------------------------------------
\* A sum of token counts is a number, and the sum of none is 0.
LEMMA TokensAreNat ==
    ASSUME NEW S, \A x \in S : x.tokens \in Nat, NEW s \in Seq(S)
    PROVE  Tokens(s) \in Nat /\ (s = <<>> => Tokens(s) = 0)
<1> DEFINE n == Len(s)
           step == [x \in (1 .. n) \X Nat |-> x[2] + s[x[1]].tokens]
           body(f) == [i \in 0 .. n |-> IF i = 0 THEN 0 ELSE f[i - 1] + s[i].tokens]
<1>1. n \in Nat /\ \A i \in 1 .. n : s[i].tokens \in Nat
  OBVIOUS
<1>2. step \in [(1 .. n) \X Nat -> Nat]
  BY <1>1
<1>3. PICK f \in [0 .. n -> Nat] : Follows(f, n, 0, step)
  <2> HIDE DEF n, step
  <2> QED
    BY <1>1, <1>2, RecursionHasValue
<1>4. ASSUME NEW i \in 1 .. n PROVE f[i] = f[i - 1] + s[i].tokens
  <2> HIDE DEF n
  <2>1. f[i] = step[<<i, f[i - 1]>>]
    BY <1>3 DEF Follows
  <2>2. i - 1 \in 0 .. n
    BY <1>1
  <2>3. f[i - 1] \in Nat
    BY <1>3, <2>2
  <2> QED
    BY <2>1, <2>3
<1>5. f = body(f)
  <2>1. f[0] = 0 /\ f = [i \in 0 .. n |-> f[i]]
    BY <1>3 DEF Follows
  <2> HIDE DEF n
  <2>2. ASSUME NEW i \in 0 .. n
        PROVE  f[i] = IF i = 0 THEN 0 ELSE f[i - 1] + s[i].tokens
    <3>1. i # 0 => i \in 1 .. n
      BY <1>1
    <3> QED
      BY <1>4, <2>1, <3>1
  <2> QED
    BY <2>1, <2>2
<1> DEFINE sum == CHOOSE g : g = body(g)
<1>6. sum = body(sum)
  BY <1>5
<1>7. Tokens(s) = sum[n]
  BY DEF Tokens
<1> HIDE DEF sum
<1>8. \A i \in 0 .. n : sum[i] = IF i = 0 THEN 0 ELSE sum[i - 1] + s[i].tokens
  <2>1. \A i \in 0 .. n : sum[i] = body(sum)[i]
    BY <1>6
  <2> HIDE DEF n
  <2> QED
    BY <2>1
<1> DEFINE P == {i \in 0 .. n : sum[i] \in Nat}
<1>9. sum[n] \in Nat
  <2> HIDE DEF n
  <2>1. 0 \in P
    BY <1>1, <1>8
  <2>2. ASSUME NEW i \in 1 .. n, i - 1 \in P PROVE i \in P
    <3>1. i \in 0 .. n /\ i # 0 /\ s[i].tokens \in Nat
      BY <1>1
    <3>2. sum[i] = sum[i - 1] + s[i].tokens
      BY <1>8, <3>1
    <3>3. sum[i - 1] \in Nat
      BY <2>2
    <3> QED
      BY <3>1, <3>2, <3>3
  <2> HIDE DEF P
  <2>3. \A i \in 0 .. n : i \in P
    BY <1>1, <2>1, <2>2, StepByStep
  <2>4. n \in P
    BY <1>1, <2>3
  <2> QED
    BY <2>4 DEF P
<1>10. s = <<>> => sum[n] = 0
  BY <1>8
<1> QED
  BY <1>7, <1>9, <1>10

\* The newest item first: the turns from the last to the first, then the
\* summaries.
LEMMA NewestItems ==
    ASSUME WindowInv
    PROVE  LET T == Len(turns)
               S == Len(summaries)
           IN  /\ Newest \in Seq(TurnEntry \union CompressedSummary)
               /\ Len(Newest) = T + S
               /\ \A i \in 1 .. T : Newest[i] = turns[T - i + 1]
               /\ \A i \in 1 .. S : Newest[T + i] = summaries[S - i + 1]
<1> DEFINE T == Len(turns)
           S == Len(summaries)
           X == TurnEntry \union CompressedSummary
           a == Reverse(turns)
           b == Reverse(summaries)
<1>1. turns \in Seq(TurnEntry) /\ summaries \in Seq(CompressedSummary)
  BY DEF WindowInv, WindowTypeOK
<1>2. T \in Nat /\ S \in Nat
  BY <1>1
<1>3. a \in Seq(X) /\ Len(a) = T /\ \A i \in 1 .. T : a[i] = turns[T - i + 1]
  BY <1>1 DEF Reverse
<1>4. b \in Seq(X) /\ Len(b) = S /\ \A i \in 1 .. S : b[i] = summaries[S - i + 1]
  BY <1>1 DEF Reverse
<1> HIDE DEF T, S, X, a, b
<1>5. /\ a \o b \in Seq(X) /\ Len(a \o b) = T + S
      /\ \A i \in 1 .. T + S : (a \o b)[i] = IF i <= T THEN a[i] ELSE b[i - T]
  BY <1>3, <1>4, ConcatProperties
<1>6. ASSUME NEW i \in 1 .. T PROVE (a \o b)[i] = turns[T - i + 1]
  <2>1. i \in 1 .. T + S /\ i <= T
    BY <1>2
  <2> QED
    BY <1>3, <1>5, <2>1
<1>7. ASSUME NEW i \in 1 .. S PROVE (a \o b)[T + i] = summaries[S - i + 1]
  <2>1. T + i \in 1 .. T + S /\ ~(T + i <= T) /\ (T + i) - T = i
    BY <1>2
  <2> QED
    BY <1>4, <1>5, <2>1
<1>8. Newest = a \o b
  BY DEF Newest, a, b
<1> QED
  BY <1>5, <1>6, <1>7, <1>8 DEF T, S, X

\* A context consists of the newest items, up to one of them.
LEMMA ContextIsPrefix ==
    ASSUME WindowInv, NEW limit \in Nat
    PROVE  \E m \in 0 .. Len(Newest) : Context(limit) = SubSeq(Newest, 1, m)
<1> DEFINE L == Len(Newest)
           fits == {n \in 0 .. L : Tokens(SubSeq(Newest, 1, n)) <= limit}
           left == {n \in 0 .. L : L - n \in fits}
<1>1. L \in Nat /\ Newest \in Seq(TurnEntry \union CompressedSummary)
  BY NewestItems
<1>2. 0 \in fits
  <2> DEFINE none == SubSeq(Newest, 1, 0)
  <2>1. none = <<>> /\ none \in Seq({}) /\ \A x \in {} : x.tokens \in Nat
    BY <1>1
  <2> HIDE DEF none
  <2>2. Tokens(none) = 0
    BY <2>1, TokensAreNat
  <2> QED
    BY <1>1, <2>2 DEF none
<1> HIDE DEF fits
<1>3. fits \subseteq 0 .. L
  BY DEF fits
<1> HIDE DEF L
<1>4. left \in SUBSET Nat /\ L \in left
  BY <1>1, <1>2
<1>5. PICK n \in left : \A k \in left : n <= k
  <2> HIDE DEF left
  <2> QED
    BY <1>4, LeastElement
<1>6. L - n \in fits
  OBVIOUS
<1>7. ASSUME NEW k \in fits PROVE k <= L - n
  <2>1. k \in 0 .. L /\ L - k \in 0 .. L /\ L - (L - k) = k
    BY <1>1, <1>3
  <2>2. L - k \in left
    BY <2>1
  <2>3. n <= L - k
    BY <1>5, <2>2
  <2> QED
    BY <1>1, <2>1, <2>3
<1> DEFINE m == CHOOSE k \in fits : \A l \in fits : l <= k
<1>8. m \in fits
  BY <1>6, <1>7
<1>9. Context(limit) = SubSeq(Newest, 1, m)
  BY DEF Context, fits, L
<1> HIDE DEF m
<1> QED
  BY <1>3, <1>8, <1>9 DEF L

\* What the m newest items tell.
Told(m) == UNION {Ids(x) : x \in Range(SubSeq(Newest, 1, m))}

LEMMA ToldByItems ==
    ASSUME WindowInv, NEW m \in 0 .. Len(Newest), NEW t
    PROVE  t \in Told(m) <=> \E i \in 1 .. m : t \in Ids(Newest[i])
<1> DEFINE s == SubSeq(Newest, 1, m)
<1>1. Newest \in Seq(TurnEntry \union CompressedSummary) /\ Len(Newest) \in Nat
  BY NewestItems
<1>2. DOMAIN s = 1 .. m /\ \A i \in 1 .. m : s[i] = Newest[i]
  BY <1>1
<1> HIDE DEF s
<1>3. Range(s) = {Newest[i] : i \in 1 .. m}
  BY <1>2 DEF Range
<1>4. t \in Told(m) <=> \E x \in Range(s) : t \in Ids(x)
  BY DEF Told, s
<1> QED
  BY <1>3, <1>4

\* A turn tells itself, a summary its sources.
LEMMA IdsOfItems ==
    ASSUME WindowInv
    PROVE  LET T == Len(turns)
               S == Len(summaries)
           IN  /\ \A i \in 1 .. T : Ids(Newest[i]) = {next_id - i}
               /\ \A i \in 1 .. S : Ids(Newest[T + i]) = summaries[S - i + 1].ids
<1> DEFINE T == Len(turns)
           S == Len(summaries)
<1>1. /\ turns \in Seq(TurnEntry) /\ summaries \in Seq(CompressedSummary)
      /\ next_id \in Int
  BY DEF WindowInv, WindowTypeOK
<1>2. T \in Nat /\ S \in Nat
  BY <1>1
<1>3. /\ \A i \in 1 .. T : Newest[i] = turns[T - i + 1]
      /\ \A i \in 1 .. S : Newest[T + i] = summaries[S - i + 1]
  BY NewestItems
<1>4. ASSUME NEW i \in 1 .. T PROVE Ids(Newest[i]) = {next_id - i}
  <2>1. T - i + 1 \in 1 .. T
    BY <1>2
  <2>2. turns[T - i + 1] \in TurnEntry /\ turns[T - i + 1].id = next_id - 1 - T + (T - i + 1)
    BY <1>1, <2>1 DEF WindowInv, TurnsAreLatest
  <2>3. "ids" \notin DOMAIN turns[T - i + 1]
    BY <2>2 DEF TurnEntry
  <2>4. next_id - 1 - T + (T - i + 1) = next_id - i
    BY <1>1, <1>2
  <2> HIDE DEF T
  <2> QED
    BY <1>3, <2>2, <2>3, <2>4 DEF Ids
<1>5. ASSUME NEW i \in 1 .. S PROVE Ids(Newest[T + i]) = summaries[S - i + 1].ids
  <2>1. S - i + 1 \in 1 .. S
    BY <1>2
  <2>2. summaries[S - i + 1] \in CompressedSummary
    BY <1>1, <2>1
  <2>3. "ids" \in DOMAIN summaries[S - i + 1]
    BY <2>2 DEF CompressedSummary
  <2> HIDE DEF T, S
  <2> QED
    BY <1>3, <2>3 DEF Ids
<1> QED
  BY <1>4, <1>5

\* However many of the newest items are told, they tell the conversation from
\* some turn on: the sources of later summaries are later turns, and the window
\* follows the last of them.
LEMMA NewestToldWithoutGap ==
    ASSUME WindowInv, NEW m \in 0 .. Len(Newest)
    PROVE  \E first \in 1 .. next_id : Told(m) = first .. (next_id - 1)
<1> DEFINE T == Len(turns)
           S == Len(summaries)
           old == next_id - 1 - T
<1>1. T \in Nat /\ S \in Nat /\ next_id \in Nat /\ old \in Nat
  BY DEF WindowInv, WindowTypeOK
<1>2. Len(Newest) = T + S
  BY NewestItems
<1>3. /\ \A i \in 1 .. T : Ids(Newest[i]) = {next_id - i}
      /\ \A i \in 1 .. S : Ids(Newest[T + i]) = summaries[S - i + 1].ids
  BY IdsOfItems
<1>4. /\ \A j \in 1 .. S : summaries[j].ids \subseteq 1 .. old
      /\ \A t \in 1 .. old : \E j \in 1 .. S : t \in summaries[j].ids
      /\ \A i, j \in 1 .. S : i < j =>
            \A a \in summaries[i].ids, b \in summaries[j].ids : a < b
  BY DEF WindowInv, OlderTurnsSummarised
<1> HIDE DEF S
<1>5. CASE m <= T
  <2>1. ASSUME NEW t
        PROVE  t \in Told(m) <=> t \in (next_id - m) .. (next_id - 1)
    <3> HIDE DEF T
    <3>3. ASSUME NEW i \in 1 .. m PROVE t \in Ids(Newest[i]) <=> t = next_id - i
      <4>1. i \in 1 .. T
        BY <1>1, <1>5
      <4>2. Ids(Newest[i]) = {next_id - i}
        BY <1>3, <4>1
      <4> QED
        BY <4>2
    <3>1. t \in Told(m) <=> \E i \in 1 .. m : t = next_id - i
      <4>1. t \in Told(m) <=> \E i \in 1 .. m : t \in Ids(Newest[i])
        BY ToldByItems
      <4> QED
        BY <3>3, <4>1
    <3>2. (\E i \in 1 .. m : t = next_id - i) <=> t \in (next_id - m) .. (next_id - 1)
      <4>1. ASSUME t \in (next_id - m) .. (next_id - 1)
            PROVE  next_id - t \in 1 .. m /\ t = next_id - (next_id - t)
        BY <1>1, <4>1
      <4>2. ASSUME NEW i \in 1 .. m PROVE next_id - i \in (next_id - m) .. (next_id - 1)
        BY <1>1
      <4> QED
        BY <4>1, <4>2
    <3> QED
      BY <3>1, <3>2
  <2>2. next_id - m \in 1 .. next_id
    BY <1>1, <1>5
  <2>3. Told(m) = (next_id - m) .. (next_id - 1)
    BY <2>1
  <2> QED
    BY <2>2, <2>3
<1>6. CASE m > T
  <2> DEFINE J == S - (m - T)
             U == {t \in 1 .. old : \E j \in J + 1 .. S : t \in summaries[j].ids}
  <2>1. J \in 0 .. S
    BY <1>1, <1>2, <1>6
  <2>2. ASSUME NEW t
        PROVE  t \in Told(m) <=> t \in (old + 1) .. (next_id - 1) \/ t \in U
    <3>1. ASSUME t \in Told(m)
          PROVE  t \in (old + 1) .. (next_id - 1) \/ t \in U
      <4>1. PICK i \in 1 .. m : t \in Ids(Newest[i])
        BY <3>1, ToldByItems
      <4>2. CASE i <= T
        <5> HIDE DEF J, U
        <5> HIDE DEF T
        <5>3. i \in 1 .. T
          BY <1>1, <4>2
        <5>4. Ids(Newest[i]) = {next_id - i}
          BY <1>3, <5>3
        <5>1. t = next_id - i
          BY <4>1, <5>4
        <5>2. t \in (old + 1) .. (next_id - 1)
          BY <1>1, <4>2, <5>1
        <5> QED
          BY <5>2
      <4>3. CASE i > T
        <5>1. i - T \in 1 .. S /\ T + (i - T) = i
          BY <1>1, <1>2, <4>3
        <5>2. t \in summaries[S - (i - T) + 1].ids
          BY <1>3, <4>1, <5>1
        <5>3. S - (i - T) + 1 \in J + 1 .. S /\ S - (i - T) + 1 \in 1 .. S
          BY <1>1, <2>1, <4>3, <5>1
        <5> HIDE DEF J
        <5> QED
          BY <1>4, <5>2, <5>3
      <4> QED
        BY <1>1, <4>2, <4>3
    <3>2. ASSUME t \in (old + 1) .. (next_id - 1)
          PROVE  t \in Told(m)
      <4>1. next_id - t \in 1 .. T /\ next_id - t \in 1 .. m /\ next_id - (next_id - t) = t
        BY <1>1, <1>6, <3>2
      <4>2. t \in Ids(Newest[next_id - t])
        BY <1>3, <4>1
      <4> QED
        BY <4>1, <4>2, ToldByItems
    <3>3. ASSUME t \in U
          PROVE  t \in Told(m)
      <4>1. PICK j \in J + 1 .. S : t \in summaries[j].ids
        BY <3>3
      <4>2. S - j + 1 \in 1 .. S /\ S - (S - j + 1) + 1 = j /\ T + (S - j + 1) \in 1 .. m
        BY <1>1, <1>6, <2>1
      <4>3. t \in Ids(Newest[T + (S - j + 1)])
        BY <1>3, <4>1, <4>2
      <4> QED
        BY <4>2, <4>3, ToldByItems
    <3> QED
      BY <3>1, <3>2, <3>3
  <2>3. CASE U = {}
    <3>1. Told(m) = (old + 1) .. (next_id - 1)
      BY <2>2, <2>3
    <3> QED
      BY <1>1, <3>1
  <2>4. CASE U # {}
    <3>1. U \in SUBSET Nat
      BY <1>1
    <3> HIDE DEF U
    <3>2. PICK first \in U : \A t \in U : first <= t
      BY <2>4, <3>1, LeastElement
    <3> USE DEF U
    <3>3. PICK k \in J + 1 .. S : first \in summaries[k].ids
      BY <3>2
    <3>4. ASSUME NEW t \in first .. old PROVE t \in U
      <4>1. t \in 1 .. old /\ ~(t < first)
        BY <1>1, <3>2
      <4>2. PICK j \in 1 .. S : t \in summaries[j].ids
        BY <1>4, <4>1
      <4>3. k \in 1 .. S
        BY <1>1, <2>1
      <4>5. ~(j < k)
        <5> HIDE DEF J, U
        <5>1. j < k => t < first
          BY <1>4, <3>3, <4>2, <4>3
        <5> QED
          BY <4>1, <5>1
      <4>4. j \in J + 1 .. S
        <5> HIDE DEF J, U
        <5> QED
          BY <1>1, <2>1, <4>2, <4>5
      <4> QED
        BY <4>1, <4>2, <4>4
    <3>5. first \in 1 .. old /\ first \in 1 .. next_id
      BY <1>1, <3>2
    <3>6. ASSUME NEW t \in U PROVE t \in 1 .. old /\ first <= t
      BY <3>2
    <3> HIDE DEF U
    <3>7. ASSUME NEW t
          PROVE  t \in Told(m) <=> t \in first .. (next_id - 1)
      <4>1. ASSUME t \in Told(m) PROVE t \in first .. (next_id - 1)
        <5>1. CASE t \in (old + 1) .. (next_id - 1)
          <6> HIDE DEF old
          <6> QED
            BY <1>1, <3>5, <5>1
        <5>2. CASE t \in U
          <6>1. t \in 1 .. old /\ first <= t /\ old <= next_id - 1
            BY <1>1, <3>6, <5>2
          <6> HIDE DEF old
          <6> QED
            BY <1>1, <3>5, <6>1
        <5> QED
          BY <2>2, <4>1, <5>1, <5>2
      <4>2. t \in first .. (next_id - 1) => t \in first .. old \/ t \in (old + 1) .. (next_id - 1)
        BY <1>1, <3>5
      <4> QED
        BY <2>2, <3>4, <4>1, <4>2
    <3>8. Told(m) = first .. (next_id - 1)
      BY <3>7
    <3> QED
      BY <3>5, <3>8
  <2> QED
    BY <2>3, <2>4
<1> QED
  BY <1>1, <1>2, <1>5, <1>6

\* Between calls, whatever a compressor did and wherever it raised: a context of
\* any size tells the conversation from some turn on (get_context).
THEOREM ContextsHaveNoGap == WindowSpec => []ContextHasNoGap
<1>1. WindowInv => ContextHasNoGap
  <2> SUFFICES ASSUME WindowInv, NEW limit \in 0 .. (total_tokens + 1)
               PROVE  \E first \in 1 .. next_id :
                        UNION {Ids(x) : x \in Range(Context(limit))} = first .. (next_id - 1)
    BY DEF ContextHasNoGap
  <2>1. total_tokens \in Nat
    <3>1. /\ turns \in Seq(TurnEntry) /\ \A x \in TurnEntry : x.tokens \in Nat
          /\ summaries \in Seq(CompressedSummary)
          /\ \A x \in CompressedSummary : x.tokens \in Nat
      BY TokenAssumption DEF WindowInv, WindowTypeOK, TurnEntry, CompressedSummary
    <3>2. Tokens(turns) \in Nat /\ Tokens(summaries) \in Nat
      BY <3>1, TokensAreNat
    <3> QED
      BY <3>2 DEF total_tokens
  <2>4. limit \in Nat
    <3> HIDE DEF total_tokens
    <3> QED
      BY <2>1
  <2>2. PICK m \in 0 .. Len(Newest) : Context(limit) = SubSeq(Newest, 1, m)
    BY <2>4, ContextIsPrefix
  <2>3. UNION {Ids(x) : x \in Range(Context(limit))} = Told(m)
    BY <2>2 DEF Told
  <2> QED
    BY <2>3, NewestToldWithoutGap
<1> QED
  BY <1>1, WindowInvariant, PTL
-----------------------------------------------------------------------------
\* The limit of the relief loop leaves room for halving MaxId turns down to one,
\* for compressing that one, and for finding that none is left: with the code's
\* limit of 100, up to 2^98 turns.
EnoughHalvings ==
    /\ SafetyLimit >= 2
    /\ \E power \in [0 .. SafetyLimit -> Nat] :
        /\ power[0] = 1
        /\ \A n \in 1 .. SafetyLimit : power[n] = 2 * power[n - 1]
        /\ MaxId <= power[SafetyLimit - 2]

\* What the relief loop preserves for such powers: each iteration at least
\* halves the turns, and the last one is left by a window without turns.
Halving(power) ==
    /\ safety < SafetyLimit
    /\ at = "relief" =>
        \/ safety <= SafetyLimit - 2 /\ Len(turns) <= power[SafetyLimit - 2 - safety]
        \/ turns = <<>>

LEMMA HalfAndHalf ==
    ASSUME NEW l \in Nat
    PROVE  l \div 2 \in Nat /\ 2 * (l \div 2) <= l /\ l <= 2 * (l \div 2) + 1
OBVIOUS

LEMMA ReliefHalves ==
    ASSUME WindowInv, SafetyLimit >= 2, NEW power \in [0 .. SafetyLimit -> Nat],
           power[0] = 1, \A n \in 1 .. SafetyLimit : power[n] = 2 * power[n - 1],
           Halving(power), NEW size \in SummaryTokens, Relieve(size)
    PROVE  Halving(power)'
<1> DEFINE L == Len(turns)
           q == SafetyLimit - 2 - safety
<1>1. /\ SafetyLimit \in Nat /\ safety \in Nat /\ L \in Nat /\ L > 0
      /\ at = "relief" /\ turns # <<>> /\ safety' = safety + 1
  <2>1. at = "relief" /\ turns # <<>> /\ safety' = safety + 1
    BY DEF Relieve, MustRelieve
  <2>2. SafetyLimit \in Nat /\ safety \in Nat /\ turns \in Seq(TurnEntry)
    BY LimitAssumption DEF WindowInv, WindowTypeOK
  <2>3. Half \in 1 .. L
    BY <2>1, HalfRange DEF WindowInv
  <2>4. L \in Nat /\ L > 0
    <3>1. L \in Nat
      BY <2>2
    <3> HIDE DEF L
    <3> QED
      BY <2>3, <3>1
  <2>5. safety \in Nat /\ SafetyLimit \in Nat
    BY <2>2
  <2> HIDE DEF L
  <2> QED
    BY <2>1, <2>4, <2>5
<1>2. safety <= SafetyLimit - 2 /\ L <= power[q] /\ q \in 0 .. SafetyLimit
  BY <1>1 DEF Halving
<1>3. Half \in 1 .. L /\ turns' \in Seq(TurnEntry) /\ Len(turns') = L - Half
  <2>1. Half \in 1 .. L
    BY <1>1, HalfRange DEF WindowInv
  <2> QED
    BY <2>1, CompressKeepsTurns DEF Relieve
<1>4. L - Half + L - Half <= L + 1 /\ (L = 1 => L - Half = 0)
  <2> HIDE DEF L
  <2>1. Half = IF L < 2 THEN 1 ELSE L \div 2
    BY DEF Half, L
  <2> DEFINE d == L \div 2
  <2>2. d \in Nat /\ 2 * d <= L /\ L <= 2 * d + 1
    BY <1>1, HalfAndHalf
  <2>3. CASE L < 2
    BY <1>1, <2>1, <2>3
  <2>4. CASE ~(L < 2)
    <3>1. Half = d
      BY <2>1, <2>4
    <3> HIDE DEF d
    <3> QED
      BY <1>1, <2>2, <2>4, <3>1
  <2> QED
    BY <2>3, <2>4
<1>5. CASE q = 0
  <2>1. L = 1
    <3> HIDE DEF q, L
    <3> QED
      BY <1>1, <1>2, <1>5
  <2>2. turns' = <<>>
    BY <1>3, <1>4, <2>1
  <2> QED
    BY <1>1, <1>2, <2>2 DEF Halving
<1>6. CASE q # 0
  <2> DEFINE h == power[q - 1]
             K == L - Half
  <2>1. q \in 1 .. SafetyLimit /\ q - 1 \in 0 .. SafetyLimit
    <3> HIDE DEF q, L
    <3> QED
      BY <1>2, <1>6, LimitAssumption
  <2>2. h \in Nat /\ power[q] = 2 * h
    <3> HIDE DEF q
    <3> QED
      BY <2>1
  <2>3. K \in Nat
    BY <1>1, <1>3
  <2>5. K <= h
    <3>1. L <= 2 * h /\ K + K <= L + 1
      BY <1>2, <1>4, <2>2
    <3> HIDE DEF h, K, L
    <3> QED
      BY <1>1, <2>2, <2>3, <3>1
  <2>6. SafetyLimit - 2 - safety' = q - 1 /\ safety' <= SafetyLimit - 2
    BY <1>1, <1>2, <1>6
  <2>7. Len(turns') <= power[SafetyLimit - 2 - safety']
    <3> HIDE DEF q, L
    <3> QED
      BY <1>3, <2>5, <2>6 DEF h, K
  <2> QED
    BY <1>1, <2>6, <2>7 DEF Halving
<1> QED
  BY <1>5, <1>6

LEMMA StepKeepsHalving ==
    ASSUME SafetyLimit >= 2, NEW power \in [0 .. SafetyLimit -> Nat],
           power[0] = 1, \A n \in 1 .. SafetyLimit : power[n] = 2 * power[n - 1],
           MaxId <= power[SafetyLimit - 2],
           WindowInv, WindowInv', Halving(power), [WindowNext]_windowVars
    PROVE  Halving(power)'
<1>1. ASSUME NEW n \in TurnTokens, AddTurn(n) PROVE Halving(power)'
  <2>1. safety' = 0 /\ SafetyLimit \in Nat /\ SafetyLimit - 2 - 0 = SafetyLimit - 2
    BY <1>1, LimitAssumption DEF AddTurn
  <2>2. Len(turns') <= MaxId
    <3>1. Len(turns') \in Nat /\ Len(turns') <= next_id' - 1 /\ next_id' \in 1 .. (MaxId + 1)
      BY DEF WindowInv, WindowTypeOK
    <3> QED
      BY <3>1, BoundAssumption
  <2>3. Len(turns') <= power[SafetyLimit - 2]
    <3>1. power[SafetyLimit - 2] \in Nat /\ Len(turns') \in Nat
      BY <2>1 DEF WindowInv, WindowTypeOK
    <3> QED
      BY <2>2, <3>1, BoundAssumption
  <2> QED
    BY <2>1, <2>3 DEF Halving
<1>2. ASSUME NEW size \in SummaryTokens, Relieve(size) PROVE Halving(power)'
  BY <1>2, ReliefHalves
<1>3. ASSUME NEW size \in SummaryTokens, Shift(size) PROVE Halving(power)'
  BY <1>3 DEF Halving, Shift
<1>4. CASE Relieved
  BY <1>4 DEF Halving, Relieved
<1>5. CASE Fits
  BY <1>5 DEF Halving, Fits
<1>6. CASE CompressorRaises
  BY <1>6 DEF Halving, CompressorRaises
<1>7. CASE UNCHANGED windowVars
  BY <1>7 DEF Halving, windowVars
<1> QED
  BY <1>1, <1>2, <1>3, <1>4, <1>5, <1>6, <1>7 DEF WindowNext, InAddTurn

\* The limit never ends a relief loop: whatever the compressor returns or
\* raises, the loop is satisfied or out of turns before (_relieve_token_pressure).
THEOREM ReliefEndsInTime == ASSUME EnoughHalvings PROVE WindowSpec => []RelievedInTime
<1>1. PICK power \in [0 .. SafetyLimit -> Nat] :
        /\ power[0] = 1
        /\ \A n \in 1 .. SafetyLimit : power[n] = 2 * power[n - 1]
        /\ MaxId <= power[SafetyLimit - 2]
  BY DEF EnoughHalvings
<1>2. SafetyLimit >= 2
  BY DEF EnoughHalvings
<1>3. WindowInit => Halving(power)
  BY <1>2, LimitAssumption DEF WindowInit, Halving
<1>4. WindowInv /\ WindowInv' /\ Halving(power) /\ [WindowNext]_windowVars => Halving(power)'
  BY <1>1, <1>2, StepKeepsHalving
<1>5. Halving(power) => RelievedInTime
  BY DEF Halving, RelievedInTime
<1> QED
  BY <1>3, <1>4, <1>5, WindowInvariant, PTL DEF WindowSpec
-----------------------------------------------------------------------------
(***************************************************************************)
(* L2.  A branch is good if its whole entries lie beside their vectors,    *)
(* there are no more vectors than entries, and what callers were told is   *)
(* among the entries; an add, an add that raises, a merge, a removal and a *)
(* mark each keep a branch good, whatever the contents, the identifiers    *)
(* and the similarity of contents are.                                     *)
(***************************************************************************)

AnyId == Id \union ({"l2-simple"} \X Nat) \union ({"faiss"} \X Branch \X Nat)
Entry == [id : AnyId, content : Content \union {None}]

\* Of the entries e, vectors v, deleted indices d, acknowledgements t and whole
\* entries w.
Good(e, v, d, t, w) ==
    /\ e \in Seq(Entry) /\ v \in Seq(Content)
    /\ w \in Nat /\ w <= Len(v) /\ Len(v) <= Len(e)
    /\ d \subseteq 1 .. Len(e)
    /\ \A i \in 1 .. w : i \notin d => SaysTheSame(e[i].content, v[i])
    /\ \A m \in t : \E i \in 1 .. Len(e) :
            /\ i \notin d /\ e[i].id = m[1]
            /\ m[3] => i <= w /\ SaysTheSame(m[2], v[i])

StoreInv ==
    /\ backend \in {"simple", "faiss"}
    /\ counter \in Nat
    /\ DOMAIN entries = Branch /\ entries = [b \in Branch |-> entries[b]]
    /\ DOMAIN vectors = Branch /\ vectors = [b \in Branch |-> vectors[b]]
    /\ DOMAIN deleted = Branch /\ deleted = [b \in Branch |-> deleted[b]]
    /\ DOMAIN told = Branch /\ told = [b \in Branch |-> told[b]]
    /\ DOMAIN whole = Branch /\ whole = [b \in Branch |-> whole[b]]
    /\ failures \in [Branch -> Nat]
    /\ \A b \in Branch :
        /\ Good(entries[b], vectors[b], deleted[b], told[b], whole[b])
        /\ failures[b] = 0 => whole[b] = Len(entries[b])
        /\ backend = "simple" => deleted[b] = {}
-----------------------------------------------------------------------------
\* A set of indices that is not empty has a first one.
LEMMA MinIsIn ==
    ASSUME NEW S \in SUBSET Nat, S # {}
    PROVE  Min(S) \in S
<1>1. \E x \in S : \A y \in S : x <= y
  BY LeastElement
<1> QED
  BY <1>1 DEF Min

\* What is left of a sequence without its i-th element.
LEMMA RemoveAtFacts ==
    ASSUME NEW S, NEW s \in Seq(S), NEW i \in 1 .. Len(s)
    PROVE  /\ RemoveAt(s, i) \in Seq(S)
           /\ Len(RemoveAt(s, i)) = Len(s) - 1
           /\ \A j \in 1 .. Len(s) - 1 :
                RemoveAt(s, i)[j] = IF j < i THEN s[j] ELSE s[j + 1]
<1> DEFINE n == Len(s)
           a == SubSeq(s, 1, i - 1)
           b == SubSeq(s, i + 1, Len(s))
<1>1. n \in Nat /\ i \in Int /\ 1 <= i /\ i <= n /\ DOMAIN s = 1 .. n
  OBVIOUS
<1>2. /\ a \in Seq(S) /\ Len(a) = i - 1 /\ \A j \in 1 .. i - 1 : a[j] = s[j]
  BY <1>1
<1>3. b \in Seq(S) /\ Len(b) = n - i /\ \A j \in 1 .. n - i : b[j] = s[i + j]
  <2>1. \A j \in i + 1 .. n : s[j] \in S
    BY <1>1
  <2>2. /\ b \in Seq(S) /\ Len(b) = IF i + 1 <= n THEN n - (i + 1) + 1 ELSE 0
        /\ \A j \in 1 .. n - (i + 1) + 1 : b[j] = s[(i + 1) + j - 1]
    <3>1. i + 1 \in Int /\ n \in Int
      BY <1>1
    <3> QED
      BY <2>1, <3>1, SubSeqProperties
  <2>3. Len(b) = n - i
    <3> HIDE DEF b, n
    <3>1. CASE i = n
      BY <1>1, <2>2, <3>1
    <3>2. CASE i + 1 <= n
      BY <1>1, <2>2, <3>2
    <3> QED
      BY <1>1, <3>1, <3>2
  <2>4. ASSUME NEW j \in 1 .. n - i PROVE b[j] = s[i + j]
    <3>1. j \in 1 .. n - (i + 1) + 1 /\ (i + 1) + j - 1 = i + j
      BY <1>1
    <3> QED
      BY <2>2, <3>1
  <2> QED
    BY <2>2, <2>3, <2>4
<1> HIDE DEF a, b
<1>4. /\ a \o b \in Seq(S) /\ Len(a \o b) = n - 1
      /\ \A j \in 1 .. n - 1 : (a \o b)[j] = IF j <= i - 1 THEN a[j] ELSE b[j - (i - 1)]
  <2>1. /\ a \o b \in Seq(S) /\ Len(a \o b) = (i - 1) + (n - i)
        /\ \A j \in 1 .. (i - 1) + (n - i) :
              (a \o b)[j] = IF j <= i - 1 THEN a[j] ELSE b[j - (i - 1)]
    <3>1. /\ a \o b \in Seq(S) /\ Len(a \o b) = Len(a) + Len(b)
          /\ \A j \in 1 .. Len(a) + Len(b) :
                (a \o b)[j] = IF j <= Len(a) THEN a[j] ELSE b[j - Len(a)]
      BY <1>2, <1>3, ConcatProperties
    <3> QED
      BY <1>2, <1>3, <3>1
  <2>2. (i - 1) + (n - i) = n - 1
    BY <1>1
  <2> HIDE DEF n
  <2> QED
    BY <2>1, <2>2
<1>5. ASSUME NEW j \in 1 .. n - 1
      PROVE  (a \o b)[j] = IF j < i THEN s[j] ELSE s[j + 1]
  <2>1. CASE j < i
    BY <1>1, <1>2, <1>4, <2>1
  <2>2. CASE ~(j < i)
    <3>1. j - (i - 1) \in 1 .. n - i /\ i + (j - (i - 1)) = j + 1 /\ ~(j <= i - 1)
      BY <1>1, <2>2
    <3> QED
      BY <1>3, <1>4, <2>2, <3>1
  <2> QED
    BY <2>1, <2>2
<1> QED
  BY <1>4, <1>5 DEF RemoveAt, a, b
-----------------------------------------------------------------------------
\* A new entry with the vector of its own content.
LEMMA AppendIsGood ==
    ASSUME NEW e, NEW v, NEW d, NEW t, NEW w, Good(e, v, d, t, w),
           NEW c \in Content, NEW id \in AnyId
    PROVE  Good(Append(e, [id |-> id, content |-> c]), Append(v, c), d,
                t \union {<<id, c, w = Len(e)>>}, IF w = Len(e) THEN w + 1 ELSE w)
<1> DEFINE x == [id |-> id, content |-> c]
           f == Append(e, x)
           u == Append(v, c)
           n == Len(e)
           k == Len(v)
           z == IF w = n THEN w + 1 ELSE w
<1>1. x \in Entry /\ x.id = id /\ x.content = c
  BY DEF Entry
<1>2. /\ e \in Seq(Entry) /\ v \in Seq(Content) /\ n \in Nat /\ k \in Nat
      /\ w \in Nat /\ w <= k /\ k <= n /\ d \subseteq 1 .. n
  BY DEF Good
<1> HIDE DEF x
<1>3. /\ f \in Seq(Entry) /\ u \in Seq(Content) /\ Len(f) = n + 1 /\ Len(u) = k + 1
      /\ f[n + 1] = x /\ u[k + 1] = c
      /\ \A i \in 1 .. n : f[i] = e[i]
      /\ \A i \in 1 .. k : u[i] = v[i]
  BY <1>1, <1>2
<1> HIDE DEF f, u
<1>4. /\ \A i \in 1 .. w : i \notin d => SaysTheSame(e[i].content, v[i])
      /\ \A m \in t : \E i \in 1 .. n :
            i \notin d /\ e[i].id = m[1] /\ (m[3] => i <= w /\ SaysTheSame(m[2], v[i]))
  BY DEF Good
<1> HIDE DEF n, k
<1>5. \A i \in 1 .. w : f[i] = e[i] /\ u[i] = v[i]
  BY <1>2, <1>3
<1>6. /\ z \in Nat /\ w <= z /\ z <= k + 1
      /\ z = n + 1 <=> w = n
      /\ w = n => k = n /\ f[n + 1].content = c /\ u[n + 1] = c
      /\ \A i \in 1 .. z : i \in 1 .. w \/ (w = n /\ i = n + 1)
  BY <1>1, <1>2, <1>3
<1> HIDE DEF z
<1>7. \A i \in 1 .. z : i \notin d => SaysTheSame(f[i].content, u[i])
  <2> SUFFICES ASSUME NEW i \in 1 .. z, i \notin d PROVE SaysTheSame(f[i].content, u[i])
    OBVIOUS
  <2>1. CASE i \in 1 .. w
    BY <1>4, <1>5, <2>1
  <2>2. CASE w = n /\ i = n + 1
    BY <1>6, <2>2 DEF SaysTheSame
  <2> QED
    BY <1>6, <2>1, <2>2
<1>8. ASSUME NEW m \in t \union {<<id, c, w = n>>}
      PROVE  \E i \in 1 .. n + 1 :
                i \notin d /\ f[i].id = m[1] /\ (m[3] => i <= z /\ SaysTheSame(m[2], u[i]))
  <2>1. CASE m \in t
    <3>1. PICK i \in 1 .. n : i \notin d /\ e[i].id = m[1] /\ (m[3] => i <= w /\ SaysTheSame(m[2], v[i]))
      BY <1>4, <2>1
    <3>2. i \in 1 .. n + 1 /\ f[i] = e[i] /\ (i <= w => i <= z /\ u[i] = v[i])
      BY <1>2, <1>3, <1>6
    <3> QED
      BY <3>1, <3>2
  <2>2. CASE m = <<id, c, w = n>>
    <3>1. n + 1 \in 1 .. n + 1 /\ n + 1 \notin d
      BY <1>2
    <3>2. f[n + 1].id = m[1] /\ m[2] = c /\ m[3] = (w = n)
      BY <1>1, <1>3, <2>2
    <3>3. m[3] => n + 1 <= z /\ SaysTheSame(m[2], u[n + 1])
      BY <1>2, <1>6, <3>2 DEF SaysTheSame
    <3> QED
      BY <3>1, <3>2, <3>3
  <2> QED
    BY <2>1, <2>2
<1>9. d \subseteq 1 .. n + 1 /\ k + 1 <= n + 1
  BY <1>2
<1> QED
  BY <1>3, <1>6, <1>7, <1>8, <1>9 DEF Good, f, u, x, n, z

\* A new entry that stays without a vector.
LEMMA RaiseIsGood ==
    ASSUME NEW e, NEW v, NEW d, NEW t, NEW w, Good(e, v, d, t, w), NEW x \in Entry
    PROVE  Good(Append(e, x), v, d, t, w)
<1> DEFINE f == Append(e, x)
           n == Len(e)
<1>1. /\ e \in Seq(Entry) /\ v \in Seq(Content) /\ n \in Nat /\ Len(v) \in Nat
      /\ w \in Nat /\ w <= Len(v) /\ Len(v) <= n /\ d \subseteq 1 .. n
  BY DEF Good
<1>2. f \in Seq(Entry) /\ Len(f) = n + 1 /\ \A i \in 1 .. n : f[i] = e[i]
  BY <1>1
<1>3. /\ \A i \in 1 .. w : i \notin d => SaysTheSame(e[i].content, v[i])
      /\ \A m \in t : \E i \in 1 .. n :
            i \notin d /\ e[i].id = m[1] /\ (m[3] => i <= w /\ SaysTheSame(m[2], v[i]))
  BY DEF Good
<1> HIDE DEF f, n
<1>4. \A i \in 1 .. w : i \in 1 .. n
  BY <1>1
<1>5. ASSUME NEW m \in t
      PROVE  \E i \in 1 .. n + 1 :
                i \notin d /\ f[i].id = m[1] /\ (m[3] => i <= w /\ SaysTheSame(m[2], v[i]))
  <2>1. PICK i \in 1 .. n : i \notin d /\ e[i].id = m[1] /\ (m[3] => i <= w /\ SaysTheSame(m[2], v[i]))
    BY <1>3
  <2>2. i \in 1 .. n + 1
    BY <1>1
  <2> QED
    BY <1>2, <2>1, <2>2
<1>6. d \subseteq 1 .. n + 1 /\ Len(v) <= n + 1
  BY <1>1
<1> QED
  BY <1>1, <1>2, <1>3, <1>4, <1>5, <1>6 DEF Good, f

\* An entry that takes another content like the vector at its place.
LEMMA MergeIsGood ==
    ASSUME NEW e, NEW v, NEW d, NEW t, NEW w, Good(e, v, d, t, w), NEW c \in Content,
           NEW i \in 1 .. Len(v), i \notin d, Similar(c, v[i]),
           NEW f, f = [e EXCEPT ![i].content = IF Length[c] > Length[@] THEN c ELSE @]
    PROVE  Good(f, v, d, t \union {<<e[i].id, c, i <= w>>}, w)
<1>1. /\ e \in Seq(Entry) /\ Len(e) \in Nat /\ Len(v) \in Nat /\ w \in Nat
      /\ w <= Len(v) /\ Len(v) <= Len(e)
  BY DEF Good
<1>2. i \in 1 .. Len(e) /\ e[i] \in Entry /\ \A j \in 1 .. w : j \in 1 .. Len(e)
  BY <1>1
<1>3. /\ f \in Seq(Entry) /\ Len(f) = Len(e)
      /\ \A j \in 1 .. Len(e) : f[j].id = e[j].id /\ (j # i => f[j] = e[j])
      /\ f[i].content = e[i].content \/ f[i].content = c
  BY <1>1, <1>2 DEF Entry
<1>4. ASSUME NEW j \in 1 .. w, j \notin d PROVE SaysTheSame(f[j].content, v[j])
  <2>1. SaysTheSame(e[j].content, v[j])
    BY <1>4 DEF Good
  <2>2. CASE j = i
    BY <1>3, <2>1, <2>2 DEF SaysTheSame
  <2>3. CASE j # i
    BY <1>2, <1>3, <2>1, <2>3
  <2> QED
    BY <2>2, <2>3
<1>5. ASSUME NEW m \in t \union {<<e[i].id, c, i <= w>>}
      PROVE  \E j \in 1 .. Len(e) :
                j \notin d /\ f[j].id = m[1] /\ (m[3] => j <= w /\ SaysTheSame(m[2], v[j]))
  <2>1. CASE m \in t
    BY <1>3, <2>1 DEF Good
  <2>2. CASE m = <<e[i].id, c, i <= w>>
    <3>1. m[1] = e[i].id /\ m[2] = c /\ m[3] = (i <= w)
      BY <2>2
    <3> QED
      BY <1>2, <1>3, <3>1 DEF SaysTheSame
  <2> QED
    BY <2>1, <2>2
<1> QED
  BY <1>1, <1>3, <1>4, <1>5 DEF Good

\* What is left when the i-th element of a sequence is taken out, if it has one.
Without(s, i) == IF i <= Len(s) THEN RemoveAt(s, i) ELSE s

\* An entry that is taken out, with the vector at its place if there is one.
LEMMA RemoveIsGood ==
    ASSUME NEW e, NEW v, NEW t, NEW w, Good(e, v, {}, t, w), NEW i \in 1 .. Len(e)
    PROVE  Good(RemoveAt(e, i), Without(v, i), {}, {m \in t : m[1] # e[i].id},
                IF i <= w THEN w - 1 ELSE w)
<1> DEFINE f == RemoveAt(e, i)
           u == Without(v, i)
           n == Len(e)
           k == Len(v)
           z == IF i <= w THEN w - 1 ELSE w
<1>1. /\ e \in Seq(Entry) /\ v \in Seq(Content) /\ n \in Nat /\ k \in Nat
      /\ w \in Nat /\ w <= k /\ k <= n
  BY DEF Good
<1>2. /\ f \in Seq(Entry) /\ Len(f) = n - 1
      /\ \A j \in 1 .. n - 1 : f[j] = IF j < i THEN e[j] ELSE e[j + 1]
  BY <1>1, RemoveAtFacts
<1>3. /\ u \in Seq(Content) /\ Len(u) = IF i <= k THEN k - 1 ELSE k
      /\ \A j \in 1 .. Len(u) : u[j] = IF j < i THEN v[j] ELSE v[j + 1]
  <2>1. CASE i <= k
    <3>1. i \in 1 .. Len(v) /\ u = RemoveAt(v, i)
      BY <1>1, <2>1 DEF Without
    <3>2. /\ RemoveAt(v, i) \in Seq(Content) /\ Len(RemoveAt(v, i)) = k - 1
          /\ \A j \in 1 .. k - 1 : RemoveAt(v, i)[j] = IF j < i THEN v[j] ELSE v[j + 1]
      BY <1>1, <3>1, RemoveAtFacts
    <3> HIDE DEF u, k
    <3> QED
      BY <2>1, <3>1, <3>2
  <2>2. CASE ~(i <= k)
    <3>1. u = v
      BY <2>2 DEF Without
    <3>2. \A j \in 1 .. k : j < i
      BY <1>1, <2>2
    <3> HIDE DEF u
    <3> QED
      BY <1>1, <2>2, <3>1, <3>2
  <2> QED
    BY <2>1, <2>2
<1> HIDE DEF f, u
<1>4. /\ \A j \in 1 .. w : SaysTheSame(e[j].content, v[j])
      /\ \A m \in t : \E j \in 1 .. n :
            e[j].id = m[1] /\ (m[3] => j <= w /\ SaysTheSame(m[2], v[j]))
  BY DEF Good
<1> HIDE DEF n, k
<1>5. /\ i \in Nat /\ 1 <= i /\ i <= n
      /\ z \in Nat /\ z <= Len(u) /\ Len(u) <= n - 1 /\ n - 1 \in Nat /\ Len(u) \in Nat
  BY <1>1, <1>3 DEF n
<1>6. \A j \in 1 .. z : /\ j < i => j \in 1 .. w
                        /\ ~(j < i) => j + 1 \in 1 .. w
                        /\ j \in 1 .. n - 1 /\ j \in 1 .. Len(u)
  BY <1>1, <1>5
<1>7. ASSUME NEW j \in 1 .. z PROVE SaysTheSame(f[j].content, u[j])
  <2>1. CASE j < i
    BY <1>2, <1>3, <1>4, <1>6, <2>1
  <2>2. CASE ~(j < i)
    BY <1>2, <1>3, <1>4, <1>6, <2>2
  <2> QED
    BY <2>1, <2>2
<1>8. ASSUME NEW m \in t, m[1] # e[i].id
      PROVE  \E j \in 1 .. n - 1 : f[j].id = m[1] /\ (m[3] => j <= z /\ SaysTheSame(m[2], u[j]))
  <2>1. PICK j \in 1 .. n : e[j].id = m[1] /\ (m[3] => j <= w /\ SaysTheSame(m[2], v[j]))
    BY <1>4
  <2>2. j # i
    BY <1>8, <2>1
  <2>3. CASE j < i
    <3>1. j \in 1 .. n - 1 /\ (j <= w => j <= z /\ j \in 1 .. Len(u))
      BY <1>1, <1>5, <2>3
    <3>2. f[j] = e[j] /\ (j <= w => u[j] = v[j])
      BY <1>2, <1>3, <2>3, <3>1
    <3> QED
      BY <2>1, <3>1, <3>2
  <2>4. CASE j > i
    <3>1. j - 1 \in 1 .. n - 1 /\ ~(j - 1 < i) /\ (j - 1) + 1 = j
      BY <1>1, <1>5, <2>4
    <3>2. j <= w => j - 1 <= z /\ j - 1 \in 1 .. Len(u)
      BY <1>1, <1>5, <2>4
    <3>3. f[j - 1] = e[j] /\ (j <= w => u[j - 1] = v[j])
      BY <1>2, <1>3, <3>1, <3>2
    <3> QED
      BY <2>1, <3>1, <3>2, <3>3
  <2> QED
    BY <1>5, <2>2, <2>3, <2>4
<1> QED
  BY <1>2, <1>3, <1>5, <1>7, <1>8 DEF Good, f, u, z

\* An entry that is emptied and marked.
LEMMA MarkIsGood ==
    ASSUME NEW e, NEW v, NEW d, NEW t, NEW w, Good(e, v, d, t, w), NEW i \in 1 .. Len(e),
           NEW f, f = [e EXCEPT ![i].content = None]
    PROVE  Good(f, v, d \union {i}, {m \in t : m[1] # e[i].id}, w)
<1>1. /\ e \in Seq(Entry) /\ Len(e) \in Nat /\ e[i] \in Entry
      /\ Len(v) \in Nat /\ w \in Nat /\ w <= Len(v) /\ Len(v) <= Len(e)
  BY DEF Good
<1>2. /\ f \in Seq(Entry) /\ Len(f) = Len(e)
      /\ \A j \in 1 .. Len(e) : f[j].id = e[j].id /\ (j # i => f[j] = e[j])
  BY <1>1 DEF Entry
<1>3. ASSUME NEW m \in t, m[1] # e[i].id
      PROVE  \E j \in 1 .. Len(e) :
                 /\ j \notin d \union {i} /\ f[j].id = m[1]
                 /\ m[3] => j <= w /\ SaysTheSame(m[2], v[j])
  <2>1. PICK j \in 1 .. Len(e) :
            j \notin d /\ e[j].id = m[1] /\ (m[3] => j <= w /\ SaysTheSame(m[2], v[j]))
    BY DEF Good
  <2> QED
    BY <1>2, <1>3, <2>1
<1>4. ASSUME NEW j \in 1 .. w, j \notin d \union {i} PROVE SaysTheSame(f[j].content, v[j])
  <2>1. j \in 1 .. Len(e)
    BY <1>1
  <2> QED
    BY <1>2, <1>4, <2>1 DEF Good
<1>5. d \union {i} \subseteq 1 .. Len(e)
  BY DEF Good
<1> QED
  BY <1>1, <1>2, <1>3, <1>4, <1>5 DEF Good
-----------------------------------------------------------------------------
\* The stores are empty at first.
LEMMA InitStoreInv == StoreInit => StoreInv
BY DEF StoreInit, StoreInv, Good

\* A step that puts these in place on a branch, and they are good.
GoodStep(b, e, v, d, t, w, x) ==
    /\ Good(e, v, d, t, w)
    /\ x \in Nat /\ (x = 0 => w = Len(e))
    /\ backend = "simple" => d = {}
    /\ UNCHANGED backend /\ counter' \in Nat
    /\ entries' = [entries EXCEPT ![b] = e] /\ vectors' = [vectors EXCEPT ![b] = v]
    /\ deleted' = [deleted EXCEPT ![b] = d] /\ told' = [told EXCEPT ![b] = t]
    /\ whole' = [whole EXCEPT ![b] = w] /\ failures' = [failures EXCEPT ![b] = x]

\* A step on a branch that leaves it good keeps the invariant.
LEMMA OneBranch ==
    ASSUME StoreInv, NEW b \in Branch, NEW e, NEW v, NEW d, NEW t, NEW w, NEW x,
           GoodStep(b, e, v, d, t, w, x)
    PROVE  StoreInv'
<1> USE DEF GoodStep
<1>1. ASSUME NEW c \in Branch
      PROVE  /\ Good(entries[c], vectors[c], deleted[c], told[c], whole[c])'
             /\ backend' = "simple" => deleted'[c] = {}
             /\ failures'[c] = 0 => whole'[c] = Len(entries'[c])
  <2>1. CASE c = b
    <3>1. /\ entries'[c] = e /\ vectors'[c] = v /\ deleted'[c] = d /\ told'[c] = t
          /\ whole'[c] = w /\ failures'[c] = x
      BY <2>1 DEF StoreInv
    <3>2. Good(entries'[c], vectors'[c], deleted'[c], told'[c], whole'[c])
      BY <3>1
    <3>3. Good(entries[c], vectors[c], deleted[c], told[c], whole[c])'
      BY <3>2 DEF Good
    <3> QED
      BY <3>1, <3>3
  <2>2. CASE c # b
    <3>1. /\ entries'[c] = entries[c] /\ vectors'[c] = vectors[c]
          /\ deleted'[c] = deleted[c] /\ told'[c] = told[c]
          /\ whole'[c] = whole[c] /\ failures'[c] = failures[c]
      BY <2>2 DEF StoreInv
    <3>2. Good(entries'[c], vectors'[c], deleted'[c], told'[c], whole'[c])
      BY <3>1 DEF StoreInv
    <3>3. Good(entries[c], vectors[c], deleted[c], told[c], whole[c])'
      BY <3>2 DEF Good
    <3> QED
      BY <3>1, <3>3 DEF StoreInv
  <2> QED
    BY <2>1, <2>2
<1>2. /\ DOMAIN entries' = Branch /\ entries' = [c \in Branch |-> entries'[c]]
      /\ DOMAIN vectors' = Branch /\ vectors' = [c \in Branch |-> vectors'[c]]
      /\ DOMAIN deleted' = Branch /\ deleted' = [c \in Branch |-> deleted'[c]]
      /\ DOMAIN told' = Branch /\ told' = [c \in Branch |-> told'[c]]
      /\ DOMAIN whole' = Branch /\ whole' = [c \in Branch |-> whole'[c]]
  BY DEF StoreInv
<1>3. backend' \in {"simple", "faiss"} /\ counter' \in Nat /\ failures' \in [Branch -> Nat]
  BY DEF StoreInv
<1> QED
  BY <1>1, <1>2, <1>3 DEF StoreInv

\* What is known of a branch.
LEMMA OfBranch ==
    ASSUME StoreInv, NEW b \in Branch
    PROVE  /\ Good(entries[b], vectors[b], deleted[b], told[b], whole[b])
           /\ backend = "simple" => deleted[b] = {}
           /\ failures[b] \in Nat /\ whole[b] \in Nat
           /\ failures[b] = 0 => whole[b] = Len(entries[b])
           /\ vectors = [vectors EXCEPT ![b] = vectors[b]]
           /\ deleted = [deleted EXCEPT ![b] = deleted[b]]
           /\ told = [told EXCEPT ![b] = told[b]]
           /\ whole = [whole EXCEPT ![b] = whole[b]]
           /\ failures = [failures EXCEPT ![b] = failures[b]]
           /\ DOMAIN entries[b] = 1 .. Len(entries[b])
           /\ DOMAIN vectors[b] = 1 .. Len(vectors[b])
           /\ Len(entries[b]) \in Nat /\ Len(vectors[b]) \in Nat
           /\ whole[b] <= Len(vectors[b]) /\ Len(vectors[b]) <= Len(entries[b])
<1>1. /\ Good(entries[b], vectors[b], deleted[b], told[b], whole[b])
      /\ backend = "simple" => deleted[b] = {}
      /\ failures[b] \in Nat
      /\ failures[b] = 0 => whole[b] = Len(entries[b])
  BY DEF StoreInv
<1>2. /\ entries[b] \in Seq(Entry) /\ vectors[b] \in Seq(Content) /\ whole[b] \in Nat
      /\ whole[b] <= Len(vectors[b]) /\ Len(vectors[b]) <= Len(entries[b])
  BY <1>1 DEF Good
<1>3. /\ vectors = [vectors EXCEPT ![b] = vectors[b]]
      /\ deleted = [deleted EXCEPT ![b] = deleted[b]]
      /\ told = [told EXCEPT ![b] = told[b]]
      /\ whole = [whole EXCEPT ![b] = whole[b]]
      /\ failures = [failures EXCEPT ![b] = failures[b]]
  BY DEF StoreInv
<1>4. /\ DOMAIN entries[b] = 1 .. Len(entries[b]) /\ Len(entries[b]) \in Nat
      /\ DOMAIN vectors[b] = 1 .. Len(vectors[b]) /\ Len(vectors[b]) \in Nat
  BY <1>2, LenProperties
<1> QED
  BY <1>1, <1>2, <1>3, <1>4

\* SimpleEpisodicStore.add of a near duplicate.
LEMMA MergeKeepsStoreInv ==
    ASSUME StoreInv, NEW b \in Branch, NEW c \in Content, MergeDuplicate(b, c)
    PROVE  StoreInv'
<1> DEFINE i == Min(NearDuplicates(b, c))
           f == [entries[b] EXCEPT ![i].content = IF Length[c] > Length[@] THEN c ELSE @]
           t == told[b] \union {<<entries[b][i].id, c, i <= whole[b]>>}
<1>1. NearDuplicates(b, c) \in SUBSET Nat
  BY OfBranch DEF NearDuplicates
<1>2. i \in NearDuplicates(b, c) /\ backend = "simple"
  BY <1>1, MinIsIn DEF MergeDuplicate
<1>3. i \in 1 .. Len(vectors[b]) /\ Similar(c, vectors[b][i]) /\ i \notin deleted[b]
  BY <1>2, OfBranch DEF NearDuplicates
<1>4. /\ entries' = [entries EXCEPT ![b] = f]
      /\ told' = [told EXCEPT ![b] = t]
      /\ UNCHANGED <<backend, vectors, deleted, counter, whole, failures>>
  BY DEF MergeDuplicate, Acknowledge, Counted
<1> HIDE DEF i
<1>5. Good(f, vectors[b], deleted[b], t, whole[b])
  BY <1>3, OfBranch, MergeIsGood
<1>6. Len(f) = Len(entries[b])
  BY OfBranch DEF Good
<1> HIDE DEF f, t
<1>7. counter' \in Nat
  BY <1>4 DEF StoreInv
<1>8. GoodStep(b, f, vectors[b], deleted[b], t, whole[b], failures[b])
  BY <1>4, <1>5, <1>6, <1>7, OfBranch DEF GoodStep
<1> QED
  BY <1>8, OneBranch

\* What add puts on the list, whatever becomes of its vector.
LEMMA ListedEntry ==
    ASSUME StoreInv, NEW b \in Branch, NEW c \in Content, NEW id \in Id \union {None},
           ListEntry(b, id, c)
    PROVE  /\ Given(b, id) \in AnyId /\ counter' \in Nat
           /\ entries' = [entries EXCEPT ![b] =
                            Append(entries[b], [id |-> Given(b, id), content |-> c])]
           /\ UNCHANGED <<backend, deleted>>
<1>1. counter' \in Nat
  BY DEF ListEntry, StoreInv
<1>2. Given(b, id) \in AnyId
  BY <1>1, OfBranch DEF AnyId, Given
<1> QED
  BY <1>1, <1>2 DEF ListEntry, Counted

\* add of either store.
LEMMA AppendKeepsStoreInv ==
    ASSUME StoreInv, NEW b \in Branch, NEW c \in Content, NEW id \in Id \union {None},
           AppendEntry(b, id, c)
    PROVE  StoreInv'
<1> DEFINE f == Append(entries[b], [id |-> Given(b, id), content |-> c])
           u == Append(vectors[b], c)
           n == Len(entries[b])
           t == told[b] \union {<<Given(b, id), c, whole[b] = n>>}
           w == IF whole[b] = n THEN whole[b] + 1 ELSE whole[b]
<1>1. Given(b, id) \in AnyId /\ counter' \in Nat /\ entries' = [entries EXCEPT ![b] = f]
      /\ UNCHANGED <<backend, deleted>>
  BY ListedEntry DEF AppendEntry
<1>2. /\ vectors' = [vectors EXCEPT ![b] = u] /\ told' = [told EXCEPT ![b] = t]
      /\ whole' = [whole EXCEPT ![b] = w] /\ UNCHANGED failures
  BY DEF AppendEntry, Acknowledge
<1>3. Good(f, u, deleted[b], t, w)
  <2> DEFINE e == entries[b]
             v == vectors[b]
             d == deleted[b]
             s == told[b]
             g == Given(b, id)
             y == whole[b]
  <2>1. Good(e, v, d, s, y) /\ g \in AnyId
    BY <1>1, OfBranch
  <2> HIDE DEF e, v, d, s, g, y
  <2>2. Good(Append(e, [id |-> g, content |-> c]), Append(v, c), d,
             s \union {<<g, c, y = Len(e)>>}, IF y = Len(e) THEN y + 1 ELSE y)
    BY <2>1, AppendIsGood
  <2> QED
    BY <2>2 DEF e, v, d, s, g, y
<1>4. failures[b] = 0 => w = Len(f)
  <2>1. Len(f) = n + 1
    BY OfBranch DEF Good
  <2> QED
    BY <2>1, OfBranch
<1> HIDE DEF f, u, t, w
<1>5. GoodStep(b, f, u, deleted[b], t, w, failures[b])
  BY <1>1, <1>2, <1>3, <1>4, OfBranch DEF GoodStep
<1> QED
  BY <1>5, OneBranch

\* SimpleEpisodicStore.add whose embedder raises.
LEMMA RaiseKeepsStoreInv ==
    ASSUME StoreInv, NEW b \in Branch, NEW c \in Content, NEW id \in Id \union {None},
           EmbedderRaises(b, id, c)
    PROVE  StoreInv'
<1> DEFINE x == [id |-> Given(b, id), content |-> c]
           f == Append(entries[b], x)
           y == failures[b] + 1
<1>1. Given(b, id) \in AnyId /\ counter' \in Nat /\ entries' = [entries EXCEPT ![b] = f]
      /\ UNCHANGED <<backend, deleted>>
  BY ListedEntry DEF EmbedderRaises
<1>2. UNCHANGED <<vectors, told, whole>> /\ failures' = [failures EXCEPT ![b] = y]
  BY DEF EmbedderRaises
<1>3. x \in Entry
  BY <1>1 DEF Entry
<1> HIDE DEF x
<1>4. Good(f, vectors[b], deleted[b], told[b], whole[b])
  BY <1>3, OfBranch, RaiseIsGood
<1>5. y \in Nat /\ y # 0
  BY OfBranch
<1> HIDE DEF f, y
<1>6. GoodStep(b, f, vectors[b], deleted[b], told[b], whole[b], y)
  BY <1>1, <1>2, <1>4, <1>5, OfBranch DEF GoodStep
<1> QED
  BY <1>6, OneBranch

\* SimpleEpisodicStore.delete.
LEMMA RemoveKeepsStoreInv ==
    ASSUME StoreInv, NEW b \in Branch, NEW id, RemoveEntry(b, id)
    PROVE  StoreInv'
<1> DEFINE i == Min(Places(b, id))
           f == RemoveAt(entries[b], i)
           u == Without(vectors[b], i)
           t == {m \in told[b] : m[1] # id}
           w == IF i <= whole[b] THEN whole[b] - 1 ELSE whole[b]
<1>1. Places(b, id) \in SUBSET Nat
  BY OfBranch DEF Places
<1>2. i \in Places(b, id) /\ backend = "simple"
  BY <1>1, MinIsIn DEF RemoveEntry
<1>3. i \in 1 .. Len(entries[b]) /\ entries[b][i].id = id /\ deleted[b] = {}
  BY <1>2, OfBranch DEF Places
<1>4. /\ entries' = [entries EXCEPT ![b] = f] /\ vectors' = [vectors EXCEPT ![b] = u]
      /\ told' = [told EXCEPT ![b] = t] /\ whole' = [whole EXCEPT ![b] = w]
      /\ UNCHANGED <<backend, deleted, counter, failures>>
  BY DEF RemoveEntry, Forget, Without
<1> HIDE DEF i
<1>5. Good(f, u, deleted[b], t, w)
  <2>1. Good(entries[b], vectors[b], {}, told[b], whole[b])
    BY <1>3, OfBranch
  <2>2. Good(f, u, {}, {m \in told[b] : m[1] # entries[b][i].id}, w)
    BY <1>3, <2>1, RemoveIsGood
  <2> QED
    BY <1>3, <2>2
<1>6. failures[b] = 0 => w = Len(f)
  <2>1. entries[b] \in Seq(Entry)
    BY OfBranch DEF Good
  <2>2. Len(f) = Len(entries[b]) - 1
    BY <1>3, <2>1, RemoveAtFacts
  <2> QED
    BY <1>3, <2>2, OfBranch
<1>7. counter' \in Nat /\ failures[b] \in Nat
  BY <1>4, OfBranch DEF StoreInv
<1> HIDE DEF f, u, t, w
<1>8. GoodStep(b, f, u, deleted[b], t, w, failures[b])
  BY <1>3, <1>4, <1>5, <1>6, <1>7, OfBranch DEF GoodStep
<1> QED
  BY <1>8, OneBranch

\* FaissEpisodicStore.delete.
LEMMA MarkKeepsStoreInv ==
    ASSUME StoreInv, NEW b \in Branch, NEW id, MarkDeleted(b, id)
    PROVE  StoreInv'
<1> DEFINE i == Min(Places(b, id))
           f == [entries[b] EXCEPT ![i].content = None]
           t == {m \in told[b] : m[1] # id}
<1>1. Places(b, id) \in SUBSET Nat
  BY OfBranch DEF Places
<1>2. i \in Places(b, id) /\ backend # "simple"
  BY <1>1, MinIsIn DEF MarkDeleted
<1>3. i \in 1 .. Len(entries[b]) /\ entries[b][i].id = id
  BY <1>2, OfBranch DEF Places
<1>4. /\ entries' = [entries EXCEPT ![b] = f]
      /\ deleted' = [deleted EXCEPT ![b] = deleted[b] \union {i}]
      /\ told' = [told EXCEPT ![b] = t]
      /\ UNCHANGED <<backend, vectors, counter, whole, failures>>
  BY DEF MarkDeleted, Forget
<1> HIDE DEF i
<1>5. Good(f, vectors[b], deleted[b] \union {i}, t, whole[b])
  BY <1>3, OfBranch, MarkIsGood
<1>6. Len(f) = Len(entries[b]) /\ counter' \in Nat
  BY <1>4, OfBranch DEF Good, StoreInv
<1> HIDE DEF f, t
<1>7. GoodStep(b, f, vectors[b], deleted[b] \union {i}, t, whole[b], failures[b])
  BY <1>2, <1>4, <1>5, <1>6, OfBranch DEF GoodStep
<1> QED
  BY <1>7, OneBranch

\* Every add and every deletion keeps the invariant.
LEMMA StepKeepsStoreInv == StoreInv /\ [StoreNext]_storeVars => StoreInv'
<1> SUFFICES ASSUME StoreInv, [StoreNext]_storeVars PROVE StoreInv'
  OBVIOUS
<1>1. CASE StoreNext
  BY <1>1, MergeKeepsStoreInv, AppendKeepsStoreInv, RaiseKeepsStoreInv, RemoveKeepsStoreInv,
     MarkKeepsStoreInv DEF StoreNext
<1>2. CASE UNCHANGED storeVars
  BY <1>2 DEF StoreInv, Good, storeVars
<1> QED
  BY <1>1, <1>2

\* The graph's steps leave the stores as they are.
LEMMA NextKeepsStoreInv == StoreInv /\ [Next]_vars => StoreInv'
<1> SUFFICES ASSUME StoreInv, [Next]_vars PROVE StoreInv'
  OBVIOUS
<1>1. StoreNext \/ UNCHANGED storeVars
  BY DEF Next, vars
<1> QED
  BY <1>1, StepKeepsStoreInv

\* All branches are good at all times.
THEOREM StoreInvariant == Spec => []StoreInv
<1>1. Init => StoreInv
  BY InitStoreInv DEF Init
<1> QED
  BY <1>1, NextKeepsStoreInv, PTL DEF Spec

\* After any merges, deletions and failures of the embedder, a whole entry still has
\* the vector of its content or of a similar one, whatever "similar" is; without a
\* failure all entries are whole (SimpleEpisodicStore, FaissEpisodicStore).
THEOREM VectorsStayBesideEntries == Spec => []VectorsMatchEntries
<1>1. StoreInv => VectorsMatchEntries
  <2> SUFFICES ASSUME StoreInv, NEW b \in Branch
               PROVE  /\ whole[b] <= Len(vectors[b]) /\ Len(vectors[b]) <= Len(entries[b])
                      /\ failures[b] = 0 => whole[b] = Len(entries[b])
                      /\ \A i \in Live(b) :
                            i <= whole[b] => SaysTheSame(entries[b][i].content, vectors[b][i])
    BY DEF VectorsMatchEntries
  <2>1. \A i \in Live(b) : i <= whole[b] => i \in 1 .. whole[b] /\ i \notin deleted[b]
    BY OfBranch DEF Live
  <2> QED
    BY <2>1, OfBranch DEF Good
<1> QED
  BY <1>1, StoreInvariant, PTL

\* A deletion, a merge, another add or a failure of the embedder loses nothing that
\* add acknowledged under another id, and nothing that was whole loses its vector.
THEOREM AcknowledgedIsKept == Spec => []NothingToldIsLost
<1>1. StoreInv => NothingToldIsLost
  <2> SUFFICES ASSUME StoreInv, NEW b \in Branch, NEW m \in told[b]
               PROVE  \E i \in Live(b) :
                        /\ entries[b][i].id = m[1]
                        /\ m[3] => i <= Len(vectors[b]) /\ SaysTheSame(m[2], vectors[b][i])
    BY DEF NothingToldIsLost
  <2>1. PICK i \in 1 .. Len(entries[b]) :
            /\ i \notin deleted[b] /\ entries[b][i].id = m[1]
            /\ m[3] => i <= whole[b] /\ SaysTheSame(m[2], vectors[b][i])
    BY OfBranch DEF Good
  <2>2. i \in Live(b) /\ (i <= whole[b] => i <= Len(vectors[b]))
    BY <2>1, OfBranch DEF Live
  <2> QED
    BY <2>1, <2>2
<1> QED
  BY <1>1, StoreInvariant, PTL

\* The smaller of two numbers.
LEMMA MinOfTwo ==
    ASSUME NEW i \in Nat, NEW j \in Nat
    PROVE  Min({i, j}) = IF i <= j THEN i ELSE j
<1>1. {i, j} \in SUBSET Nat /\ {i, j} # {}
  OBVIOUS
<1>2. \E x \in {i, j} : \A y \in {i, j} : x <= y
  BY <1>1, LeastElement
<1>3. Min({i, j}) \in {i, j} /\ \A y \in {i, j} : Min({i, j}) <= y
  BY <1>2 DEF Min
<1> HIDE DEF Min
<1> QED
  BY <1>3

\* What a retrieval returns is live, and of the best k entries only those that
\* are deleted or have no vector beside them are missing.
LEMMA HitsAreLive ==
    ASSUME StoreInv, NEW b \in Branch, NEW k \in Nat, NEW hits \in retrieve(b, k)
    PROVE  /\ hits \in Seq(1 .. Len(entries[b]))
           /\ ToSet(hits) \subseteq Live(b)
           /\ Len(hits) + Cardinality(deleted[b]) + (Len(entries[b]) - Len(vectors[b]))
                    >= Min({k, Cardinality(Live(b))})
<1> DEFINE n == Len(vectors[b])
           o == Len(entries[b])
           all == 1 .. n
           every == 1 .. o
<1>1. /\ n \in Nat /\ o \in Nat /\ n <= o /\ DOMAIN entries[b] = every
      /\ deleted[b] \subseteq every /\ all \subseteq every
  <2>1. n \in Nat /\ o \in Nat /\ n <= o /\ DOMAIN entries[b] = every
    BY OfBranch
  <2>2. deleted[b] \subseteq every
    BY OfBranch DEF Good
  <2> HIDE DEF n, o
  <2> QED
    BY <2>1, <2>2
<1>2. PICK ranking \in [all -> all] :
        IsInjective(ranking) /\ hits = Hits(b, ranking, k)
  <2>1. Min({o, n}) = n
    BY <1>1, MinOfTwo
  <2> QED
    BY <2>1 DEF retrieve, Rankings
<1> HIDE DEF n, o
<1>3. ranking \in Seq(all) /\ Len(ranking) = n
  BY <1>1, <1>2
<1> DEFINE m == Min({k, n})
           best == SubSeq(ranking, 1, m)
           places == PlacesIn(best, Live(b))
           missed == {i \in 1 .. m : best[i] \notin Live(b)}
<1>4. m \in Nat /\ m <= n /\ m = IF k <= n THEN k ELSE n
  BY <1>1, MinOfTwo
<1> HIDE DEF m
<1>5. best \in Seq(all) /\ Len(best) = m /\ \A i \in 1 .. m : best[i] = ranking[i]
  BY <1>1, <1>3, <1>4
<1>6. ASSUME NEW i \in 1 .. m PROVE i \in all /\ ranking[i] \in all /\ best[i] = ranking[i]
  <2>1. i \in all
    BY <1>1, <1>4
  <2> QED
    BY <1>2, <1>5, <2>1
<1>7. hits = Kept(best, Live(b))
  BY <1>2, <1>3 DEF Hits, m
<1> HIDE DEF best
<1>8. /\ hits \in Seq(all) /\ Len(hits) = Cardinality(places)
      /\ \A i \in 1 .. Len(hits) : hits[i] \in Live(b)
  BY <1>5, <1>7, KeptIsAll, KeptInOrder
<1>9. ToSet(hits) \subseteq Live(b)
  BY <1>8 DEF ToSet
<1>10. IsFiniteSet(deleted[b]) /\ IsFiniteSet(Live(b)) /\ Cardinality(Live(b)) <= o
      /\ Cardinality(deleted[b]) \in Nat /\ Cardinality(Live(b)) \in Nat
  <2>1. IsFiniteSet(every) /\ Cardinality(every) = o
    <3>1. 1 \in Int /\ o \in Int /\ (IF 1 > o THEN 0 ELSE o - 1 + 1) = o
      BY <1>1
    <3> QED
      BY <3>1, FS_Interval
  <2>2. Live(b) \in SUBSET every /\ deleted[b] \in SUBSET every
    BY <1>1 DEF Live
  <2> HIDE DEF every
  <2> QED
    BY <2>1, <2>2, FS_Subset, FS_CardinalityType
<1>11. IsFiniteSet(missed) /\ Cardinality(missed) <= Cardinality(deleted[b])
  <2> DEFINE f == [i \in missed |-> best[i]]
  <2>1. f \in [missed -> deleted[b]]
    BY <1>1, <1>6 DEF Live
  <2>2. IsInjective(f)
    <3> SUFFICES ASSUME NEW i \in missed, NEW j \in missed, best[i] = best[j] PROVE i = j
      BY DEF IsInjective
    <3>1. i \in all /\ j \in all /\ ranking[i] = ranking[j]
      BY <1>6
    <3> QED
      BY <1>2, <3>1 DEF IsInjective
  <2> HIDE DEF f, missed
  <2>3. f \in Injection(missed, deleted[b])
    BY <2>1, <2>2 DEF Injection
  <2> QED
    BY <1>10, <2>3, FS_Injection
<1>12. Len(hits) + Cardinality(missed) = m
  <2>1. 1 .. m = places \union missed /\ places \intersect missed = {}
    BY <1>5 DEF PlacesIn
  <2>2. IsFiniteSet(1 .. m) /\ Cardinality(1 .. m) = m
    <3>1. 1 \in Int /\ m \in Int /\ (IF 1 > m THEN 0 ELSE m - 1 + 1) = m
      BY <1>4
    <3> QED
      BY <3>1, FS_Interval
  <2>3. places \in SUBSET (1 .. m)
    BY <2>1
  <2> HIDE DEF places, missed
  <2>4. IsFiniteSet(places) /\ Cardinality(places) \in Nat /\ Cardinality(missed) \in Nat
    BY <1>11, <2>2, <2>3, FS_Subset, FS_CardinalityType
  <2>5. Cardinality(places \union missed)
            = Cardinality(places) + Cardinality(missed) - Cardinality({})
    BY <1>11, <2>1, <2>4, FS_Union
  <2>6. Cardinality({}) = 0
    BY FS_EmptySet
  <2> DEFINE p == Cardinality(places)
             q == Cardinality(missed)
             z == Cardinality({})
  <2>7. m = p + q - z /\ z = 0 /\ p \in Nat /\ q \in Nat
    BY <2>1, <2>2, <2>4, <2>5, <2>6
  <2>8. Len(hits) = p
    BY <1>8 DEF places
  <2> HIDE DEF p, q, z
  <2>9. Len(hits) + q = m
    BY <2>7, <2>8
  <2> QED
    BY <2>9 DEF q
<1>13. Len(hits) \in Nat /\ Cardinality(missed) \in Nat
  BY <1>8, <1>11, FS_CardinalityType
<1> HIDE DEF places, missed
<1>14. Min({k, Cardinality(Live(b))}) <= m + (o - n)
  <2> DEFINE c == Cardinality(Live(b))
  <2>1. c \in Nat /\ c <= o
    BY <1>10
  <2> HIDE DEF c
  <2>2. Min({k, c}) = IF k <= c THEN k ELSE c
    BY <2>1, MinOfTwo
  <2>3. Min({k, c}) <= m + (o - n)
    BY <1>1, <1>4, <2>1, <2>2
  <2> QED
    BY <2>3 DEF c
<1>15. Min({k, Cardinality(Live(b))}) \in Nat
  BY <1>10, MinOfTwo
<1>16. Len(hits) + Cardinality(deleted[b]) + (o - n) >= Min({k, Cardinality(Live(b))})
  <2> DEFINE x == Min({k, Cardinality(Live(b))})
             d == Cardinality(deleted[b])
             s == Cardinality(missed)
             l == Len(hits)
  <2>1. /\ x \in Nat /\ d \in Nat /\ s \in Nat /\ l \in Nat /\ m \in Nat
        /\ n \in Nat /\ o \in Nat
        /\ x <= m + (o - n) /\ l + s = m /\ s <= d
    BY <1>1, <1>4, <1>10, <1>11, <1>12, <1>13, <1>14, <1>15
  <2> HIDE DEF x, d, s, l
  <2>2. l + d + (o - n) >= x
    BY <2>1
  <2> QED
    BY <2>2 DEF x, d, l
<1>17. hits \in Seq(every)
  <2>1. \A i \in 1 .. Len(hits) : hits[i] \in every
    BY <1>1, <1>8 DEF Live
  <2> HIDE DEF every
  <2> QED
    BY <1>8, <2>1
<1> QED
  BY <1>9, <1>16, <1>17 DEF n, o

\* A retrieval of either store returns live entries only, and misses at most one
\* for each deleted entry and each missing vector, whatever the ranking.
THEOREM RetrievalsAreFull == Spec => []RetrievalIsFull
<1>1. StoreInv => RetrievalIsFull
  <2> SUFFICES ASSUME StoreInv, NEW b \in Branch, NEW k \in 1 .. MaxK, NEW hits \in retrieve(b, k)
               PROVE  /\ ToSet(hits) \subseteq Live(b)
                      /\ Len(hits) + Cardinality(deleted[b]) + (Len(entries[b]) - Len(vectors[b]))
                            >= Min({k, Cardinality(Live(b))})
    BY DEF RetrievalIsFull
  <2>1. k \in Nat
    BY StoreAssumption
  <2> QED
    BY <2>1, HitsAreLive
<1> QED
  BY <1>1, StoreInvariant, PTL
-----------------------------------------------------------------------------
(***************************************************************************)
(* L3.  Each branch of the graph knows of its edges that are not active.   *)
(***************************************************************************)

EdgeType == EDGE_TYPES \union {"CORRELATED"}
EdgeId == SeedId \union UNION {{build_edges(t)[i].id : i \in DOMAIN build_edges(t)} : t \in Turn}
Edge == [id : EdgeId, source : Node, target : Node, type : EdgeType, status : Status]

\* An edge that is not active is deprecated unless another has its id.
InactiveKnown(seq, off) ==
    \A i \in 1 .. Len(seq) :
        /\ seq[i].status # "active"
        /\ \A j \in 1 .. Len(seq) : seq[j].id = seq[i].id => j = i
        => seq[i].id \in off

GraphInv ==
    /\ edges \in [GraphBranch -> Seq(Edge)]
    /\ deprecated_edges \in [GraphBranch -> SUBSET EdgeId]
    /\ \A b \in GraphBranch : InactiveKnown(edges[b], deprecated_edges[b])

\* What every edge made of a turn is like.
IsMade(e) ==
    /\ e = MadeEdge(e.id, e.source, e.target, e.type)
    /\ e.type \in EdgeType

LEMMA MadeEdgeIsMade ==
    ASSUME NEW id, NEW source, NEW target, NEW type \in EdgeType
    PROVE  IsMade(MadeEdge(id, source, target, type))
BY DEF IsMade, MadeEdge

\* The edges made of a turn, all active.
LEMMA TurnEdges ==
    ASSUME NEW t \in Turn
    PROVE  build_edges(t) \in Seq({e \in Edge : e.status = "active"})
<1> DEFINE X == ToSet(Mentions(t)) \union ToSet(TemporalNext(t))
                  \union ToSet(extract_caused(t)) \union ToSet(extract_contradicts(t))
           Z == {e \in Edge : e.status = "active"}
           made == build_edges(t)
<1>1. Mentions(t) \in Seq(X) /\ \A x \in ToSet(Mentions(t)) : IsMade(x)
  <2>1. DOMAIN Mentions(t) = 1 .. Len(t.entities) /\ Len(t.entities) \in Nat
    BY GraphAssumption DEF Mentions
  <2>2. \A x \in ToSet(Mentions(t)) : IsMade(x)
    BY MadeEdgeIsMade DEF ToSet, Mentions, EdgeType, EDGE_TYPES
  <2>3. Mentions(t) = [i \in 1 .. Len(t.entities) |-> Mentions(t)[i]]
    BY <2>1 DEF Mentions
  <2>4. \A i \in 1 .. Len(t.entities) : Mentions(t)[i] \in X
    BY <2>1 DEF ToSet
  <2> HIDE DEF X
  <2>5. Mentions(t) \in Seq(X)
    BY <2>1, <2>3, <2>4, IsASeq
  <2> QED
    BY <2>2, <2>5
<1>2. TemporalNext(t) \in Seq(X) /\ \A x \in ToSet(TemporalNext(t)) : IsMade(x)
  <2>1. CASE t.prev = NoTurn
    <3>1. TemporalNext(t) = <<>>
      BY <2>1 DEF TemporalNext
    <3> HIDE DEF X
    <3> QED
      BY <3>1 DEF ToSet
  <2>2. CASE t.prev # NoTurn
    <3> DEFINE x == MadeEdge(<<t.prev, "next", t.id>>, t.prev, t.id, "TEMPORAL_NEXT")
    <3>1. TemporalNext(t) = <<x>>
      BY <2>2 DEF TemporalNext
    <3>2. IsMade(x)
      BY MadeEdgeIsMade DEF EdgeType, EDGE_TYPES
    <3> HIDE DEF x
    <3>3. ToSet(TemporalNext(t)) = {x}
      BY <3>1 DEF ToSet
    <3>4. x \in X
      BY <3>3
    <3> HIDE DEF X
    <3> QED
      BY <3>1, <3>2, <3>3, <3>4
  <2> QED
    BY <2>1, <2>2
<1>3. extract_caused(t) \in Seq(X) /\ \A x \in ToSet(extract_caused(t)) : IsMade(x)
  <2> DEFINE s == extract_caused(t)
  <2>1. CASE t.caused # <<>>
    <3> DEFINE n == Len(t.caused)
    <3>1. /\ DOMAIN s = 1 .. n /\ n \in Nat /\ s = [i \in 1 .. n |-> s[i]]
          /\ \A i \in 1 .. n : IsMade(s[i])
      <4>1. t.caused \in Seq(Node \X Node)
        BY GraphAssumption
      <4>2. DOMAIN t.caused = 1 .. n /\ n \in Nat
        BY <4>1
      <4>3. s = [i \in DOMAIN t.caused |-> MadeEdge(<<t.id, "caused">> \o t.caused[i],
                                                    t.caused[i][1], t.caused[i][2], "CAUSED")]
        BY <2>1 DEF extract_caused
      <4> HIDE DEF s, n
      <4> QED
        BY <4>2, <4>3, MadeEdgeIsMade DEF EdgeType, EDGE_TYPES
    <3>2. \A i \in 1 .. n : s[i] \in X
      BY <3>1 DEF ToSet
    <3> HIDE DEF X, s, n
    <3>3. s \in Seq(X)
      BY <3>1, <3>2, IsASeq
    <3> QED
      BY <3>1, <3>3 DEF ToSet, s
  <2>2. CASE t.caused = <<>> /\ t.long
    <3> DEFINE x == MadeEdge(<<t.id, "correlated">>, t.id, Weak, "CORRELATED")
    <3>1. s = <<x>>
      BY <2>2 DEF extract_caused
    <3>2. IsMade(x)
      BY MadeEdgeIsMade DEF EdgeType
    <3> HIDE DEF x
    <3>3. ToSet(s) = {x}
      BY <3>1 DEF ToSet
    <3>4. x \in X
      BY <3>3
    <3> HIDE DEF X, s
    <3> QED
      BY <3>1, <3>2, <3>3, <3>4 DEF s
  <2>3. CASE t.caused = <<>> /\ ~t.long
    <3>1. s = <<>>
      BY <2>3 DEF extract_caused
    <3> HIDE DEF X, s
    <3> QED
      BY <3>1 DEF ToSet, s
  <2> QED
    BY <2>1, <2>2, <2>3
<1>4. extract_contradicts(t) \in Seq(X) /\ \A x \in ToSet(extract_contradicts(t)) : IsMade(x)
  <2> DEFINE s == extract_contradicts(t)
             n == Len(t.opposed)
  <2>1. DOMAIN t.opposed = 1 .. n /\ n \in Nat
    <3>1. t.opposed \in Seq(ToSet(t.opposed))
      BY GraphAssumption
    <3> QED
      BY <3>1, LenProperties
  <2>2. DOMAIN s = 1 .. n /\ s = [i \in 1 .. n |-> s[i]]
    BY <2>1 DEF extract_contradicts
  <2>3. \A x \in ToSet(s) : IsMade(x)
    BY MadeEdgeIsMade DEF ToSet, extract_contradicts, EdgeType, EDGE_TYPES
  <2>4. \A i \in 1 .. n : s[i] \in X
    BY <2>2 DEF ToSet
  <2> HIDE DEF X, s, n
  <2>5. s \in Seq(X)
    BY <2>1, <2>2, <2>4, IsASeq
  <2> QED
    BY <2>3, <2>5 DEF s
<1>5. \A x \in X : IsMade(x)
  BY <1>1, <1>2, <1>3, <1>4
<1> HIDE DEF X
<1>6. made \in Seq(X)
  BY <1>1, <1>2, <1>3, <1>4, ConcatProperties DEF build_edges
<1>7. /\ Len(made) \in Nat /\ DOMAIN made = 1 .. Len(made)
      /\ made = [i \in 1 .. Len(made) |-> made[i]]
      /\ \A i \in 1 .. Len(made) : IsMade(made[i])
  BY <1>5, <1>6
<1>8. ASSUME NEW i \in 1 .. Len(made) PROVE made[i] \in Z
  <2>1. {made[i].source, made[i].target} \subseteq Node
    BY <1>7, GraphAssumption
  <2>2. made[i].id \in EdgeId
    BY <1>7 DEF EdgeId
  <2>3. IsMade(made[i])
    BY <1>7
  <2> DEFINE e == made[i]
  <2> HIDE DEF made, e
  <2>4. e = [id |-> e.id, source |-> e.source, target |-> e.target, type |-> e.type,
             status |-> "active"] /\ e.type \in EdgeType
    BY <2>3 DEF IsMade, MadeEdge, e
  <2>5. e.id \in EdgeId /\ e.source \in Node /\ e.target \in Node
    BY <2>1, <2>2 DEF e
  <2>6. e \in Edge /\ e.status = "active"
    BY <2>4, <2>5 DEF Edge, Status
  <2> QED
    BY <2>6 DEF e
<1> HIDE DEF made, Z
<1>9. made \in Seq(Z)
  BY <1>7, <1>8, IsASeq
<1> QED
  BY <1>9 DEF made, Z

\* Edges added at the end: those that are not active must be deprecated.
LEMMA AddedAreKnown ==
    ASSUME NEW s \in Seq(Edge), NEW t \in Seq(Edge), NEW off, NEW more, off \subseteq more,
           InactiveKnown(s, off),
           \A i \in 1 .. Len(t) : t[i].status # "active" => t[i].id \in more
    PROVE  s \o t \in Seq(Edge) /\ InactiveKnown(s \o t, more)
<1> DEFINE m == Len(s)
           n == Len(t)
           r == s \o t
<1>1. /\ m \in Nat /\ n \in Nat /\ r \in Seq(Edge) /\ Len(r) = m + n
      /\ \A i \in 1 .. m + n : r[i] = IF i <= m THEN s[i] ELSE t[i - m]
  BY ConcatProperties
<1> HIDE DEF r
<1>2. SUFFICES ASSUME NEW i \in 1 .. m + n, r[i].status # "active",
                      \A j \in 1 .. m + n : r[j].id = r[i].id => j = i
               PROVE  r[i].id \in more
  BY <1>1 DEF InactiveKnown, r
<1>3. CASE i <= m
  <2>1. i \in 1 .. m /\ r[i] = s[i]
    BY <1>1, <1>3
  <2>2. ASSUME NEW j \in 1 .. m, s[j].id = s[i].id PROVE j = i
    <3>1. j \in 1 .. m + n /\ j <= m
      BY <1>1
    <3>2. r[j] = s[j]
      BY <1>1, <3>1
    <3> QED
      BY <1>2, <2>1, <2>2, <3>1, <3>2
  <2> QED
    BY <1>2, <2>1, <2>2 DEF InactiveKnown
<1>4. CASE ~(i <= m)
  <2>1. i - m \in 1 .. n
    BY <1>1, <1>4
  <2>2. r[i] = t[i - m]
    BY <1>1, <1>4
  <2> QED
    BY <1>2, <2>1, <2>2
<1> QED
  BY <1>3, <1>4

\* A step on one branch of the graph.
LEMMA OneGraphBranch ==
    ASSUME GraphInv, NEW b \in GraphBranch, NEW s \in Seq(Edge), NEW off \in SUBSET EdgeId,
           InactiveKnown(s, off),
           edges' = [edges EXCEPT ![b] = s],
           deprecated_edges' = [deprecated_edges EXCEPT ![b] = off]
    PROVE  GraphInv'
<1>1. /\ edges' \in [GraphBranch -> Seq(Edge)]
      /\ deprecated_edges' \in [GraphBranch -> SUBSET EdgeId]
  BY DEF GraphInv
<1>2. ASSUME NEW c \in GraphBranch PROVE InactiveKnown(edges'[c], deprecated_edges'[c])
  <2>1. CASE c = b
    BY <2>1 DEF GraphInv
  <2>2. CASE c # b
    <3>1. edges'[c] = edges[c] /\ deprecated_edges'[c] = deprecated_edges[c]
      BY <2>2 DEF GraphInv
    <3> QED
      BY <3>1 DEF GraphInv
  <2> QED
    BY <2>1, <2>2
<1> QED
  BY <1>1, <1>2 DEF GraphInv

\* add_edge.
LEMMA AddEdgeKeepsGraphInv ==
    ASSUME GraphInv, NEW b \in GraphBranch, NEW e \in SeedEdge, add_edge(b, e)
    PROVE  GraphInv'
<1> DEFINE s == edges[b]
           t == <<e>>
           off == deprecated_edges[b]
           more == IF e.status # "active" THEN off \union {e.id} ELSE off
<1>1. e \in Edge /\ e.id \in EdgeId
  BY GraphAssumption DEF SeedEdge, Edge, EdgeId, EdgeType, EDGE_TYPES
<1>2. s \in Seq(Edge) /\ off \in SUBSET EdgeId /\ InactiveKnown(s, off)
  BY DEF GraphInv
<1>3. edges' = [edges EXCEPT ![b] = s \o t]
  <2>1. edges' = [edges EXCEPT ![b] = Append(s, e)]
    BY DEF add_edge
  <2>2. Append(s, e) = s \o t
    BY <1>1, <1>2, AppendIsConcat
  <2> QED
    BY <2>1, <2>2
<1>4. deprecated_edges' = [deprecated_edges EXCEPT ![b] = more]
  BY DEF add_edge
<1>5. /\ t \in Seq(Edge) /\ off \subseteq more /\ more \in SUBSET EdgeId
      /\ \A i \in 1 .. Len(t) : t[i].status # "active" => t[i].id \in more
  BY <1>1, <1>2
<1> HIDE DEF s, t, off, more
<1>6. s \o t \in Seq(Edge) /\ InactiveKnown(s \o t, more)
  BY <1>2, <1>5, AddedAreKnown
<1> QED
  BY <1>3, <1>4, <1>5, <1>6, OneGraphBranch

\* The edges of a turn, up to one that is refused, are active.
LEMMA AddTurnKeepsGraphInv ==
    ASSUME GraphInv, NEW b \in GraphBranch, NEW turn \in Turn, AddTurnEdges(b, turn)
    PROVE  GraphInv'
<1> DEFINE s == edges[b]
           made == build_edges(turn)
           refused == SelectInSeq(made, LAMBDA e : e.type \notin EDGE_TYPES)
           t == IF refused = 0 THEN made ELSE SubSeq(made, 1, refused - 1)
           off == deprecated_edges[b]
           X == {e \in Edge : e.status = "active"}
<1>1. made \in Seq(X) /\ Len(made) \in Nat
  BY TurnEdges
<1>2. s \in Seq(Edge) /\ off \in SUBSET EdgeId /\ InactiveKnown(s, off)
  BY DEF GraphInv
<1>3. edges' = [edges EXCEPT ![b] = s \o t] /\ deprecated_edges' = deprecated_edges
  BY DEF AddTurnEdges
<1>4. refused \in 0 .. Len(made)
  <2> DEFINE I == {i \in 1 .. Len(made) : made[i].type \notin EDGE_TYPES}
  <2>1. refused = IF I # {} THEN Min(I) ELSE 0
    BY DEF SelectInSeq
  <2>2. I \in SUBSET Nat /\ I \subseteq 1 .. Len(made)
    BY <1>1
  <2>3. I # {} => Min(I) \in I
    <3> HIDE DEF I
    <3> QED
      BY <2>2, MinIsIn
  <2>4. CASE I = {}
    <3>1. refused = 0
      BY <2>1, <2>4
    <3> HIDE DEF I, refused, made
    <3> QED
      BY <1>1, <3>1
  <2>5. CASE I # {}
    <3>1. refused \in 1 .. Len(made)
      BY <2>1, <2>2, <2>3, <2>5
    <3> HIDE DEF I, refused, made
    <3> QED
      BY <1>1, <3>1
  <2> QED
    BY <2>4, <2>5
<1> HIDE DEF refused, made
<1>5. t \in Seq(X)
  <2>1. CASE refused = 0
    BY <1>1, <2>1
  <2>2. CASE refused # 0
    <3>1. 1 \in Int /\ refused - 1 \in Int /\ \A i \in 1 .. refused - 1 : i \in 1 .. Len(made)
      BY <1>1, <1>4, <2>2
    <3>2. \A i \in 1 .. refused - 1 : made[i] \in X
      BY <1>1, <3>1
    <3> HIDE DEF X
    <3>3. SubSeq(made, 1, refused - 1) \in Seq(X)
      BY <1>1, <3>1, <3>2, SubSeqProperties
    <3> QED
      BY <2>2, <3>3
  <2> QED
    BY <2>1, <2>2
<1> HIDE DEF t
<1>6. t \in Seq(Edge) /\ \A i \in 1 .. Len(t) : t[i].status = "active"
  BY <1>5
<1> HIDE DEF s, off
<1>7. s \o t \in Seq(Edge) /\ InactiveKnown(s \o t, off)
  BY <1>2, <1>6, AddedAreKnown
<1>8. deprecated_edges' = [deprecated_edges EXCEPT ![b] = off]
  BY <1>3 DEF GraphInv, off
<1> QED
  BY <1>2, <1>3, <1>7, <1>8, OneGraphBranch

\* A change of status reaches the only edge with the id, if there is only one.
LEMMA StatusChange ==
    ASSUME GraphInv, NEW b \in GraphBranch, NEW id, NEW status \in Status,
           SetStatus(b, id, status)
    PROVE  \E s \in Seq(Edge) :
             /\ edges' = [edges EXCEPT ![b] = s]
             /\ Len(s) = Len(edges[b])
             /\ \A j \in 1 .. Len(s) :
                  /\ s[j].id = edges[b][j].id
                  /\ s[j].id # id => s[j] = edges[b][j]
                  /\ /\ s[j].id = id
                     /\ \A i \in 1 .. Len(s) : s[i].id = id => i = j
                     => s[j].status = status
<1> DEFINE old == edges[b]
           n == Len(old)
           p == SelectInSeq(old, LAMBDA e : e.id = id)
           s == IF p = 0 THEN old ELSE [old EXCEPT ![p].status = status]
<1>1. old \in Seq(Edge) /\ n \in Nat /\ edges \in [GraphBranch -> Seq(Edge)]
  BY DEF GraphInv
<1>2. p \in 0 .. n /\ (p # 0 => old[p].id = id) /\ (p = 0 => \A j \in 1 .. n : old[j].id # id)
  <2> DEFINE I == {i \in 1 .. n : old[i].id = id}
  <2>1. p = IF I # {} THEN Min(I) ELSE 0
    BY DEF SelectInSeq
  <2>2. I \in SUBSET Nat /\ I \subseteq 1 .. n
    BY <1>1
  <2>3. I # {} => Min(I) \in I
    <3> HIDE DEF I
    <3> QED
      BY <2>2, MinIsIn
  <2>4. CASE I = {}
    <3>1. \A j \in 1 .. n : old[j].id # id
      BY <2>4
    <3> HIDE DEF p, I, n
    <3> QED
      BY <1>1, <2>1, <2>4, <3>1
  <2>5. CASE I # {}
    <3>1. p = Min(I) /\ p \in I
      BY <2>1, <2>3, <2>5
    <3>2. p \in 1 .. n /\ old[p].id = id
      BY <3>1
    <3> HIDE DEF p, I, n
    <3> QED
      BY <1>1, <3>2
  <2> QED
    BY <2>4, <2>5
<1>3. edges' = [edges EXCEPT ![b] = s]
  BY <1>1 DEF SetStatus
<1> HIDE DEF p
<1>4. CASE p = 0
  <2>1. s = old
    BY <1>4
  <2> QED
    BY <1>1, <1>2, <1>3, <1>4, <2>1
<1>5. CASE p # 0
  <2>1. p \in 1 .. n /\ old[p] \in Edge /\ old[p].id = id
    BY <1>1, <1>2, <1>5
  <2> DEFINE e == [old[p] EXCEPT !.status = status]
  <2>2. e \in Edge /\ e.id = id /\ e.status = status
    BY <2>1 DEF Edge
  <2>3. s = [old EXCEPT ![p] = e]
    BY <1>5
  <2> HIDE DEF e, s
  <2>4. s \in Seq(Edge) /\ Len(s) = n /\ s[p] = e /\ \A j \in 1 .. n : j # p => s[j] = old[j]
    BY <1>1, <2>1, <2>2, <2>3
  <2>5. ASSUME NEW j \in 1 .. n
        PROVE  /\ s[j].id = old[j].id
               /\ s[j].id # id => s[j] = old[j]
               /\ /\ s[j].id = id
                  /\ \A i \in 1 .. n : s[i].id = id => i = j
                  => s[j].status = status
    <3>1. CASE j = p
      BY <2>1, <2>2, <2>4, <3>1
    <3>2. CASE j # p
      <4>1. s[j] = old[j] /\ s[p].id = id
        BY <2>2, <2>4, <3>2
      <4> QED
        BY <2>1, <3>2, <4>1
    <3> QED
      BY <3>1, <3>2
  <2>6. edges' = [edges EXCEPT ![b] = s]
    BY <1>3
  <2> s \in Seq(Edge)
    BY <2>4
  <2> WITNESS s \in Seq(Edge)
  <2> QED
    BY <2>4, <2>5, <2>6
<1> QED
  BY <1>4, <1>5

\* deprecate_edge, also of an id no edge has.
LEMMA DeprecateKeepsGraphInv ==
    ASSUME GraphInv, NEW b \in GraphBranch, NEW id \in EdgeId, deprecate_edge(b, id)
    PROVE  GraphInv'
<1> DEFINE old == edges[b]
           off == deprecated_edges[b]
<1>1. PICK s \in Seq(Edge) :
        /\ edges' = [edges EXCEPT ![b] = s]
        /\ Len(s) = Len(old)
        /\ \A j \in 1 .. Len(s) :
             /\ s[j].id = old[j].id
             /\ s[j].id # id => s[j] = old[j]
  BY StatusChange DEF deprecate_edge, Status
<1>2. off \in SUBSET EdgeId /\ InactiveKnown(old, off)
  BY DEF GraphInv
<1>3. deprecated_edges' = [deprecated_edges EXCEPT ![b] = off \union {id}]
  BY DEF deprecate_edge
<1> HIDE DEF old, off
<1>4. InactiveKnown(s, off \union {id})
  <2> SUFFICES ASSUME NEW i \in 1 .. Len(s), s[i].status # "active",
                      \A j \in 1 .. Len(s) : s[j].id = s[i].id => j = i, s[i].id # id
               PROVE  s[i].id \in off
    BY DEF InactiveKnown
  <2>1. s[i] = old[i] /\ \A j \in 1 .. Len(old) : old[j].id = old[i].id => j = i
    BY <1>1
  <2> QED
    BY <1>1, <1>2, <2>1 DEF InactiveKnown
<1> QED
  BY <1>1, <1>2, <1>3, <1>4, OneGraphBranch

\* reactivate_edge: the id is usable again, and so is the edge.
LEMMA ReactivateKeepsGraphInv ==
    ASSUME GraphInv, NEW b \in GraphBranch, NEW id \in EdgeId, reactivate_edge(b, id)
    PROVE  GraphInv'
<1> DEFINE old == edges[b]
           off == deprecated_edges[b]
<1>1. PICK s \in Seq(Edge) :
        /\ edges' = [edges EXCEPT ![b] = s]
        /\ Len(s) = Len(old)
        /\ \A j \in 1 .. Len(s) :
             /\ s[j].id = old[j].id
             /\ s[j].id # id => s[j] = old[j]
             /\ /\ s[j].id = id
                /\ \A i \in 1 .. Len(s) : s[i].id = id => i = j
                => s[j].status = "active"
  BY StatusChange DEF reactivate_edge, Status
<1>2. off \in SUBSET EdgeId /\ InactiveKnown(old, off)
  BY DEF GraphInv
<1>3. deprecated_edges' = [deprecated_edges EXCEPT ![b] = off \ {id}]
  BY DEF reactivate_edge
<1> HIDE DEF old, off
<1>4. InactiveKnown(s, off \ {id})
  <2> SUFFICES ASSUME NEW i \in 1 .. Len(s), s[i].status # "active",
                      \A j \in 1 .. Len(s) : s[j].id = s[i].id => j = i
               PROVE  s[i].id \in off \ {id}
    BY DEF InactiveKnown
  <2>1. s[i].id # id
    BY <1>1
  <2>2. s[i] = old[i] /\ \A j \in 1 .. Len(old) : old[j].id = old[i].id => j = i
    BY <1>1, <2>1
  <2>3. s[i].id \in off
    BY <1>1, <1>2, <2>2 DEF InactiveKnown
  <2> QED
    BY <2>1, <2>3
<1>5. off \ {id} \in SUBSET EdgeId
  BY <1>2
<1> QED
  BY <1>1, <1>3, <1>4, <1>5, OneGraphBranch

\* Every step of the graph.
LEMMA StepKeepsGraphInv == GraphInv /\ [GraphNext]_graphVars => GraphInv'
<1> SUFFICES ASSUME GraphInv, [GraphNext]_graphVars PROVE GraphInv'
  OBVIOUS
<1>1. CASE UNCHANGED graphVars
  BY <1>1 DEF graphVars, GraphInv
<1>2. CASE GraphNext
  <2> SUFFICES ASSUME NEW b \in GraphBranch,
                      \/ \E e \in SeedEdge : add_edge(b, e)
                      \/ \E t \in Turn : AddTurnEdges(b, t)
                      \/ \E id \in SeedId \union {edges[b][i].id : i \in DOMAIN edges[b]} :
                            deprecate_edge(b, id) \/ reactivate_edge(b, id)
               PROVE  GraphInv'
    BY <1>2 DEF GraphNext
  <2>1. {edges[b][i].id : i \in DOMAIN edges[b]} \subseteq EdgeId
    <3>1. edges[b] \in Seq(Edge)
      BY DEF GraphInv
    <3>2. \A i \in DOMAIN edges[b] : edges[b][i] \in Edge
      BY <3>1
    <3> QED
      BY <3>2 DEF Edge
  <2>2. SeedId \subseteq EdgeId
    BY DEF EdgeId
  <2> QED
    BY <2>1, <2>2, AddEdgeKeepsGraphInv, AddTurnKeepsGraphInv, DeprecateKeepsGraphInv,
       ReactivateKeepsGraphInv
<1> QED
  BY <1>1, <1>2

\* Statuses and the set of deprecated ids agree as far as ids tell edges apart.
THEOREM GraphInvariant == Spec => []GraphInv
<1>1. Init => GraphInv
  BY DEF Init, GraphInit, GraphInv, InactiveKnown
<1>2. GraphInv /\ [Next]_vars => GraphInv'
  <2> SUFFICES ASSUME GraphInv, [Next]_vars PROVE GraphInv'
    OBVIOUS
  <2>1. [GraphNext]_graphVars
    BY DEF Next, vars
  <2> QED
    BY <2>1, StepKeepsGraphInv
<1> QED
  BY <1>1, <1>2, PTL DEF Spec

\* The comment of navigate, "only edges with status == active are traversed",
\* for every edge that shares its id with no other.
THEOREM OnlyActiveEdges == Spec => []OnlyActiveTraversed
<1>1. GraphInv => OnlyActiveTraversed
  <2> SUFFICES ASSUME GraphInv, NEW b \in GraphBranch, NEW i \in DOMAIN edges[b],
                      edges[b][i].status # "active",
                      \A j \in DOMAIN edges[b] : edges[b][j].id = edges[b][i].id => j = i,
                      edges[b][i] \in ToSet(get_edges(b))
               PROVE  FALSE
    BY DEF OnlyActiveTraversed
  <2> DEFINE s == edges[b]
             T == {e \in ToSet(s) : e.id \notin deprecated_edges[b]}
  <2>1. s \in Seq(Edge) /\ DOMAIN s = 1 .. Len(s) /\ InactiveKnown(s, deprecated_edges[b])
    BY DEF GraphInv
  <2>2. s[i].id \in deprecated_edges[b]
    BY <2>1 DEF InactiveKnown
  <2> HIDE DEF T, s
  <2>3. \A m \in 1 .. Len(Kept(s, T)) : Kept(s, T)[m] \in T
    BY <2>1, KeptInOrder
  <2>4. DOMAIN Kept(s, T) = 1 .. Len(Kept(s, T))
    BY <2>1, KeptInOrder
  <2>5. s[i] \in T
    BY <2>3, <2>4 DEF get_edges, ToSet, T, s
  <2> QED
    BY <2>2, <2>5 DEF T
<1> QED
  BY <1>1, GraphInvariant, PTL
-----------------------------------------------------------------------------
(***************************************************************************)
(* The search.  What it has queued after n turns of its loop grows from    *)
(* the start in waves: levels never fall along the queue, the queue spans  *)
(* at most two of them, and all that the first n lead to is in it.  When   *)
(* as many turns as there are nodes have been taken, the queue is used up, *)
(* and its levels are the distances.                                       *)
(***************************************************************************)

\* e has an end x and is of a type that is followed; its other end.
Leads(e, x, types) == e.type \in types /\ x \in {e.source, e.target}
OtherEnd(e, x) == IF e.source = x THEN e.target ELSE e.source

\* The nodes one edge from x.
NextTo(active, x, types) ==
    {OtherEnd(active[i], x) : i \in {j \in 1 .. Len(active) : Leads(active[j], x, types)}}

\* What Found has after each edge.
FoundSoFar(f, active, node, types, visited) ==
    /\ f[0] = <<>>
    /\ \A i \in 1 .. Len(active) :
          f[i] = IF Leads(active[i], node, types)
                    /\ OtherEnd(active[i], node) \notin visited \union ToSet(f[i - 1])
                 THEN Append(f[i - 1], OtherEnd(active[i], node))
                 ELSE f[i - 1]
    /\ Found(active, node, types, visited) = f[Len(active)]

\* There is such a sequence, and its last element is what Found returns.
LEMMA FoundUnfolds ==
    ASSUME NEW active \in Seq(Edge), NEW node, NEW types, NEW visited
    PROVE  \E f \in [0 .. Len(active) -> Seq(Node)] :
              FoundSoFar(f, active, node, types, visited)
<1> DEFINE n == Len(active)
           D == Seq(Node)
           base == <<>>
           Step(i, x) ==
               LET e == active[i]
                   target == IF e.source = node THEN e.target ELSE e.source
               IN  IF /\ e.type \in types /\ node \in {e.source, e.target}
                      /\ target \notin visited \union ToSet(x)
                   THEN Append(x, target)
                   ELSE x
           body(g) == [i \in 0 .. n |-> IF i = 0 THEN base ELSE Step(i, g[i - 1])]
           q == CHOOSE g : g = body(g)
<1>1. n \in Nat /\ base \in D
  OBVIOUS
<1>2. \A i \in 1 .. n, x \in D : Step(i, x) \in D
  <2> SUFFICES ASSUME NEW i \in 1 .. n, NEW x \in D PROVE Step(i, x) \in D
    OBVIOUS
  <2>1. active[i] \in Edge
    OBVIOUS
  <2>2. active[i].source \in Node /\ active[i].target \in Node
    BY <2>1 DEF Edge
  <2> QED
    BY <2>2
<1>3. Found(active, node, types, visited) = q[n]
  BY DEF Found
<1> HIDE DEF Step, D, n
<1>4. PICK f \in [0 .. n -> D] : Follows(f, n, base, [x \in (1 .. n) \X D |-> Step(x[1], x[2])])
  <2> DEFINE step == [x \in (1 .. n) \X D |-> Step(x[1], x[2])]
  <2>1. step \in [(1 .. n) \X D -> D]
    BY <1>2
  <2> HIDE DEF step, base
  <2>2. \E f \in [0 .. n -> D] : Follows(f, n, base, step)
    BY <1>1, <2>1, RecursionHasValue
  <2> QED
    BY <2>2 DEF step
<1>5. f = body(f)
  <2>1. f[0] = base /\ f = [i \in 0 .. n |-> f[i]]
    BY <1>4 DEF Follows
  <2>2. ASSUME NEW i \in 1 .. n PROVE f[i] = Step(i, f[i - 1])
    <3>1. i - 1 \in 0 .. n
      BY <1>1
    <3>2. f[i - 1] \in D
      BY <3>1
    <3> QED
      BY <1>4, <3>2 DEF Follows
  <2>3. \A i \in 0 .. n : i # 0 => i \in 1 .. n
    BY <1>1
  <2> HIDE DEF base
  <2>4. \A i \in 0 .. n : f[i] = body(f)[i]
    BY <2>1, <2>2, <2>3
  <2> QED
    BY <2>1, <2>4
<1>6. q = body(q)
  BY <1>5
<1>7. 0 \in 0 .. n /\ n \in 0 .. n /\ \A i \in 1 .. n : i \in 0 .. n /\ i # 0 /\ i - 1 \in 0 .. n
  BY <1>1
<1>8. q[0] = base /\ \A i \in 1 .. n : q[i] = Step(i, q[i - 1])
  <2> HIDE DEF q, base
  <2>1. \A i \in 0 .. n : q[i] = body(q)[i]
    BY <1>6
  <2>2. \A i \in 0 .. n : q[i] = IF i = 0 THEN base ELSE Step(i, q[i - 1])
    BY <2>1
  <2> QED
    BY <1>7, <2>2
<1>9. \A i \in 0 .. n : q[i] \in D
  <2> DEFINE P == {i \in 0 .. n : q[i] \in D}
  <2> HIDE DEF q, base
  <2>1. 0 \in P /\ \A i \in 1 .. n : i - 1 \in P => i \in P
    BY <1>1, <1>2, <1>7, <1>8
  <2> HIDE DEF P
  <2>2. \A i \in 0 .. n : i \in P
    BY <1>1, <2>1, StepByStep
  <2> QED
    BY <2>2 DEF P
<1> DEFINE sofar == [i \in 0 .. n |-> q[i]]
<1> HIDE DEF q
<1>10. sofar \in [0 .. n -> D] /\ sofar[0] = base /\ sofar[n] = q[n]
  BY <1>7, <1>8, <1>9
<1>11. ASSUME NEW i \in 1 .. n PROVE sofar[i] = Step(i, sofar[i - 1])
  BY <1>7, <1>8
<1> HIDE DEF sofar
<1>12. FoundSoFar(sofar, active, node, types, visited)
  <2>1. ASSUME NEW i \in 1 .. n
        PROVE  sofar[i] = IF Leads(active[i], node, types)
                         /\ OtherEnd(active[i], node) \notin visited \union ToSet(sofar[i - 1])
                      THEN Append(sofar[i - 1], OtherEnd(active[i], node))
                      ELSE sofar[i - 1]
    BY <1>11, Zenon DEF Step, Leads, OtherEnd
  <2> QED
    BY <1>3, <1>10, <2>1 DEF FoundSoFar, n
<1> QED
  BY <1>10, <1>12 DEF n, D

\* It is made of nodes.
LEMMA FoundIsSeq ==
    ASSUME NEW active \in Seq(Edge), NEW node, NEW types, NEW visited
    PROVE  Found(active, node, types, visited) \in Seq(Node)
<1>1. PICK f \in [0 .. Len(active) -> Seq(Node)] : FoundSoFar(f, active, node, types, visited)
  BY FoundUnfolds
<1> QED
  BY <1>1 DEF FoundSoFar

\* It is all that is one edge away and not visited, each once.
LEMMA FoundFacts ==
    ASSUME NEW active \in Seq(Edge), NEW node, NEW types, NEW visited
    PROVE  LET r == Found(active, node, types, visited)
           IN  /\ \A i, j \in 1 .. Len(r) : r[i] = r[j] => i = j
               /\ ToSet(r) = NextTo(active, node, types) \ visited
<1> DEFINE n == Len(active)
           Next1(p) == {OtherEnd(active[i], node) : i \in {j \in 1 .. p : Leads(active[j], node, types)}}
<1>1. PICK f \in [0 .. n -> Seq(Node)] : FoundSoFar(f, active, node, types, visited)
  BY FoundUnfolds
<1>2. n \in Nat
  OBVIOUS
<1> HIDE DEF n
<1> DEFINE Exact(p) == /\ \A i, j \in 1 .. Len(f[p]) : f[p][i] = f[p][j] => i = j
                       /\ ToSet(f[p]) = Next1(p) \ visited
           P == {p \in 0 .. n : Exact(p)}
<1>3. Exact(0)
  <2>1. f[0] = <<>>
    BY <1>1 DEF FoundSoFar
  <2>2. Next1(0) = {}
    OBVIOUS
  <2> HIDE DEF Next1
  <2> QED
    BY <2>1, <2>2 DEF ToSet
<1>4. ASSUME NEW p \in 1 .. n, Exact(p - 1) PROVE Exact(p)
  <2> DEFINE e == active[p]
             y == OtherEnd(e, node)
             r == f[p - 1]
  <2>1. r \in Seq(Node)
    <3>1. p - 1 \in 0 .. n
      BY <1>2
    <3> QED
      BY <3>1
  <2>2. f[p] = IF Leads(e, node, types) /\ y \notin visited \union ToSet(r)
               THEN Append(r, y) ELSE r
    BY <1>1 DEF FoundSoFar, n
  <2>3. Next1(p) = IF Leads(e, node, types) THEN Next1(p - 1) \union {y} ELSE Next1(p - 1)
    <3>1. \A i : i \in 1 .. p <=> i = p \/ i \in 1 .. p - 1
      BY <1>2
    <3> QED
      BY <3>1
  <2>4. /\ \A i, j \in 1 .. Len(r) : r[i] = r[j] => i = j
        /\ ToSet(r) = Next1(p - 1) \ visited
    BY <1>4
  <2> HIDE DEF Next1, r, e, y
  <2>5. CASE Leads(e, node, types) /\ y \notin visited \union ToSet(r)
    <3>1. y \in Node
      <4>1. e \in Edge
        BY DEF e, n
      <4> QED
        BY <4>1 DEF Edge, OtherEnd, y
    <3>2. /\ f[p] = Append(r, y) /\ Len(r) \in Nat /\ Len(f[p]) = Len(r) + 1
          /\ f[p][Len(r) + 1] = y /\ \A l \in 1 .. Len(r) : f[p][l] = r[l]
          /\ DOMAIN r = 1 .. Len(r) /\ DOMAIN f[p] = 1 .. Len(r) + 1
      BY <2>1, <2>2, <2>5, <3>1
    <3>3. \A l \in 1 .. Len(r) : r[l] # y
      BY <2>5, <3>2 DEF ToSet
    <3>4. \A i, j \in 1 .. Len(f[p]) : f[p][i] = f[p][j] => i = j
      BY <2>4, <3>2, <3>3
    <3>5. ToSet(f[p]) = ToSet(r) \union {y}
      <4>1. \A i : i \in 1 .. Len(r) + 1 <=> i = Len(r) + 1 \/ i \in 1 .. Len(r)
        BY <3>2
      <4> QED
        BY <3>2, <4>1 DEF ToSet
    <3> QED
      BY <2>3, <2>4, <2>5, <3>4, <3>5
  <2>6. CASE ~(Leads(e, node, types) /\ y \notin visited \union ToSet(r))
    <3>1. f[p] = r
      BY <2>2, <2>6
    <3>2. ToSet(r) = Next1(p) \ visited
      BY <2>3, <2>4, <2>6
    <3> QED
      BY <2>4, <3>1, <3>2
  <2> QED
    BY <2>5, <2>6
<1>5. Exact(n)
  <2> HIDE DEF Exact
  <2>1. 0 \in P /\ \A i \in 1 .. n : i - 1 \in P => i \in P
    BY <1>2, <1>3, <1>4
  <2> HIDE DEF P
  <2>2. \A i \in 0 .. n : i \in P
    BY <1>2, <2>1, StepByStep
  <2>3. n \in P
    BY <1>2, <2>2
  <2> USE DEF P
  <2> QED
    BY <2>3
<1> QED
  BY <1>1, <1>5 DEF FoundSoFar, NextTo, n

\* What is queued when a node is taken from the queue.
LEMMA ExpansionIsSeq ==
    ASSUME NEW active \in Seq(Edge), NEW order \in Seq(Node \X Nat), NEW n \in Nat \ {0},
           NEW types, NEW max_hops
    PROVE  Expansion(active, order, n, types, max_hops) \in Seq(Node \X Nat)
<1>1. CASE n > Len(order) \/ order[n][2] >= max_hops
  BY <1>1 DEF Expansion
<1>2. CASE ~(n > Len(order) \/ order[n][2] >= max_hops)
  <2> DEFINE found == Found(active, order[n][1], types, {order[i][1] : i \in DOMAIN order})
             r == [j \in DOMAIN found |-> <<found[j], order[n][2] + 1>>]
  <2>1. Expansion(active, order, n, types, max_hops) = r
    BY <1>2 DEF Expansion
  <2>2. found \in Seq(Node)
    BY FoundIsSeq
  <2>3. order[n] \in Node \X Nat
    BY <1>2
  <2> HIDE DEF found
  <2>4. order[n][2] + 1 \in Nat
    BY <2>3
  <2> QED
    BY <2>1, <2>2, <2>4
<1> QED
  BY <1>1, <1>2

\* What navigate has queued after each turn.
QueuedSoFar(f, active, start, types, max_hops) ==
    /\ f[0] = <<<<start, 0>>>>
    /\ \A i \in 1 .. Cardinality(Node) :
          f[i] = f[i - 1] \o Expansion(active, f[i - 1], i, types, max_hops)

\* A queue that navigate may have, which returns all but its first element.
IsQueueOf(f, b, start, types, max_hops) ==
    /\ f \in [0 .. Cardinality(Node) -> Seq(Node \X Nat) \ {<<>>}]
    /\ QueuedSoFar(f, get_edges(b), start, types, max_hops)
    /\ navigate(b, start, types, max_hops) = Tail(f[Cardinality(Node)])

\* There is one.
LEMMA NavigateUnfolds ==
    ASSUME GraphInv, NEW b \in GraphBranch, NEW start \in Node, NEW types, NEW max_hops
    PROVE  \E f : IsQueueOf(f, b, start, types, max_hops)
<1> DEFINE n == Cardinality(Node)
           D == Seq(Node \X Nat) \ {<<>>}
           base == <<<<start, 0>>>>
           active == get_edges(b)
           Step(i, x) == x \o Expansion(active, x, i, types, max_hops)
           body(g) == [i \in 0 .. n |-> IF i = 0 THEN base ELSE Step(i, g[i - 1])]
           q == CHOOSE g : g = body(g)
<1>1. n \in Nat /\ base \in D
  BY GraphAssumption, FS_CardinalityType
<1>2. \A i \in 1 .. n, x \in D : Step(i, x) \in D
  <2> SUFFICES ASSUME NEW i \in 1 .. n, NEW x \in D PROVE Step(i, x) \in D
    OBVIOUS
  <2>1. active \in Seq(Edge)
    BY KeptInOrder DEF get_edges, GraphInv
  <2>2. i \in Nat \ {0}
    BY <1>1
  <2> DEFINE more == Expansion(active, x, i, types, max_hops)
  <2>3. more \in Seq(Node \X Nat)
    BY <2>1, <2>2, ExpansionIsSeq
  <2> HIDE DEF more
  <2>4. x \o more \in Seq(Node \X Nat) /\ (x \o more = <<>> => x = <<>>)
    BY <2>3, ConcatProperties, ConcatEqualIffEmpty
  <2> QED
    BY <2>4 DEF more
<1>3. navigate(b, start, types, max_hops) = Tail(q[n])
  BY DEF navigate
<1> HIDE DEF active
<1> HIDE DEF Step, D, n
<1>4. PICK f \in [0 .. n -> D] : Follows(f, n, base, [x \in (1 .. n) \X D |-> Step(x[1], x[2])])
  <2> DEFINE step == [x \in (1 .. n) \X D |-> Step(x[1], x[2])]
  <2>1. step \in [(1 .. n) \X D -> D]
    BY <1>2
  <2> HIDE DEF step, base
  <2>2. \E f \in [0 .. n -> D] : Follows(f, n, base, step)
    BY <1>1, <2>1, RecursionHasValue
  <2> QED
    BY <2>2 DEF step
<1>5. f = body(f)
  <2>1. f[0] = base /\ f = [i \in 0 .. n |-> f[i]]
    BY <1>4 DEF Follows
  <2>2. ASSUME NEW i \in 1 .. n PROVE f[i] = Step(i, f[i - 1])
    <3>1. i - 1 \in 0 .. n
      BY <1>1
    <3>2. f[i - 1] \in D
      BY <3>1
    <3> QED
      BY <1>4, <3>2 DEF Follows
  <2>3. \A i \in 0 .. n : i # 0 => i \in 1 .. n
    BY <1>1
  <2> HIDE DEF base
  <2>4. \A i \in 0 .. n : f[i] = body(f)[i]
    BY <2>1, <2>2, <2>3
  <2> QED
    BY <2>1, <2>4
<1>6. q = body(q)
  BY <1>5
<1>7. 0 \in 0 .. n /\ n \in 0 .. n /\ \A i \in 1 .. n : i \in 0 .. n /\ i # 0 /\ i - 1 \in 0 .. n
  BY <1>1
<1>8. q[0] = base /\ \A i \in 1 .. n : q[i] = Step(i, q[i - 1])
  <2> HIDE DEF q, base
  <2>1. \A i \in 0 .. n : q[i] = body(q)[i]
    BY <1>6
  <2>2. \A i \in 0 .. n : q[i] = IF i = 0 THEN base ELSE Step(i, q[i - 1])
    BY <2>1
  <2> QED
    BY <1>7, <2>2
<1>9. \A i \in 0 .. n : q[i] \in D
  <2> DEFINE P == {i \in 0 .. n : q[i] \in D}
  <2> HIDE DEF q, base
  <2>1. 0 \in P /\ \A i \in 1 .. n : i - 1 \in P => i \in P
    BY <1>1, <1>2, <1>7, <1>8
  <2> HIDE DEF P
  <2>2. \A i \in 0 .. n : i \in P
    BY <1>1, <2>1, StepByStep
  <2> QED
    BY <2>2 DEF P
<1> DEFINE sofar == [i \in 0 .. n |-> q[i]]
<1> HIDE DEF q
<1>10. sofar \in [0 .. n -> D] /\ sofar[0] = base /\ sofar[n] = q[n]
  BY <1>7, <1>8, <1>9
<1>11. ASSUME NEW i \in 1 .. n PROVE sofar[i] = Step(i, sofar[i - 1])
  BY <1>7, <1>8
<1> HIDE DEF sofar
<1>12. QueuedSoFar(sofar, active, start, types, max_hops)
  BY <1>10, <1>11 DEF QueuedSoFar, Step, n
<1>13. IsQueueOf(sofar, b, start, types, max_hops)
  BY <1>3, <1>10, <1>12 DEF IsQueueOf, n, D, active
<1> QED
  BY <1>13

\* navigate answers with pairs of a node and a number of hops.
LEMMA NavigateIsSeq ==
    ASSUME GraphInv, NEW b \in GraphBranch, NEW start \in Node, NEW types, NEW max_hops
    PROVE  navigate(b, start, types, max_hops) \in Seq(Node \X Nat)
<1> DEFINE n == Cardinality(Node)
<1>0. PICK f : IsQueueOf(f, b, start, types, max_hops)
  BY NavigateUnfolds
<1>1. /\ f \in [0 .. n -> Seq(Node \X Nat) \ {<<>>}]
      /\ navigate(b, start, types, max_hops) = Tail(f[n])
  BY <1>0 DEF IsQueueOf
<1>2. n \in 0 .. n
  BY GraphAssumption, FS_CardinalityType
<1> HIDE DEF n
<1>3. f[n] \in Seq(Node \X Nat) /\ f[n] # <<>>
  BY <1>1, <1>2
<1>4. Tail(f[n]) \in Seq(Node \X Nat)
  BY <1>3, HeadTailProperties
<1> QED
  BY <1>1, <1>4

\* The waves of the search: order is what is queued after n turns.
Waves(order, n, active, start, types, max_hops) ==
    /\ Len(order) >= 1 /\ order[1] = <<start, 0>>
    /\ \A i, j \in 1 .. Len(order) :
        /\ order[i][1] = order[j][1] => i = j
        /\ i <= j => order[i][2] <= order[j][2]
        /\ n <= i => order[j][2] <= order[i][2] + 1
    /\ \A j \in 1 .. Len(order) :
        /\ order[j][2] <= max_hops
        /\ j # 1 => \E i \in 1 .. Len(order) :
                        /\ order[j][2] = order[i][2] + 1
                        /\ order[j][1] \in NextTo(active, order[i][1], types)
        /\ j <= n /\ order[j][2] < max_hops =>
               \A y \in NextTo(active, order[j][1], types) :
                   \E i \in 1 .. Len(order) : order[i][1] = y /\ order[i][2] <= order[j][2] + 1

\* One turn of the loop.
LEMMA TurnKeepsWaves ==
    ASSUME NEW active \in Seq(Edge), NEW order \in Seq(Node \X Nat), NEW n \in Nat \ {0},
           NEW start, NEW types, NEW max_hops \in Nat,
           Waves(order, n - 1, active, start, types, max_hops)
    PROVE  Waves(order \o Expansion(active, order, n, types, max_hops), n,
                 active, start, types, max_hops)
<1> DEFINE more == Expansion(active, order, n, types, max_hops)
           len == Len(order)
<1>1. /\ len \in Nat /\ len >= 1 /\ DOMAIN order = 1 .. len
      /\ \A i \in 1 .. len : order[i] \in Node \X Nat /\ order[i][1] \in Node /\ order[i][2] \in Nat
  BY DEF Waves
<1>2. CASE n > len \/ order[n][2] >= max_hops
  <2>1. more = <<>>
    BY <1>2 DEF Expansion
  <2> HIDE DEF more
  <2>2. order \o more = order
    BY <2>1
  <2>3. Waves(order, n, active, start, types, max_hops)
    <3>1. \A i \in 1 .. len : n <= i => n - 1 <= i
      BY <1>1
    <3>2. \A j \in 1 .. len : j <= n /\ order[j][2] < max_hops => j <= n - 1
      BY <1>1, <1>2
    <3> QED
      BY <3>1, <3>2 DEF Waves
  <2> QED
    BY <2>2, <2>3 DEF more
<1>3. CASE ~(n > len \/ order[n][2] >= max_hops)
  <2> DEFINE x == order[n][1]
             level == order[n][2]
             visited == {order[i][1] : i \in DOMAIN order}
             found == Found(active, x, types, visited)
             m == Len(found)
             new == order \o more
  <2>1. n \in 1 .. len /\ x \in Node /\ level \in Nat /\ level < max_hops
    BY <1>1, <1>3
  <2>2. more = [j \in DOMAIN found |-> <<found[j], level + 1>>]
    BY <1>3 DEF Expansion
  <2> HIDE DEF x, visited, more, new
  <2>3. found \in Seq(Node)
    BY FoundIsSeq
  <2>4. /\ \A i, j \in 1 .. m : found[i] = found[j] => i = j
        /\ ToSet(found) = NextTo(active, x, types) \ visited
    BY FoundFacts
  <2>a. level + 1 \in Nat
    BY <2>1
  <2> HIDE DEF found, level
  <2>b. m \in Nat /\ DOMAIN found = 1 .. m /\ \A j \in 1 .. m : found[j] \in Node
    BY <2>3
  <2>5. /\ m \in Nat /\ more \in Seq(Node \X Nat) /\ Len(more) = m
        /\ \A j \in 1 .. m : more[j][1] = found[j] /\ more[j][2] = level + 1
    <3> HIDE DEF m
    <3>1. more = [j \in 1 .. m |-> <<found[j], level + 1>>]
      BY <2>2, <2>b
    <3> QED
      BY <2>a, <2>b, <3>1
  <2> HIDE DEF m, len
  <2>6. /\ Len(new) = len + m
        /\ \A i \in 1 .. len : new[i] = order[i]
        /\ \A j \in 1 .. m : new[len + j][1] = found[j] /\ new[len + j][2] = level + 1
    <3>1. \A i \in 1 .. len + m : new[i] = IF i <= len THEN order[i] ELSE more[i - len]
      BY <2>5, ConcatProperties DEF new, len
    <3>2. Len(new) = len + m
      BY <2>5, ConcatProperties DEF new, len
    <3>3. \A j \in 1 .. m : len + j \in 1 .. len + m /\ ~(len + j <= len) /\ len + j - len = j
      BY <1>1, <2>5
    <3>4. \A i \in 1 .. len : i \in 1 .. len + m /\ i <= len
      BY <1>1, <2>5
    <3>5. \A i \in 1 .. len : new[i] = order[i]
      BY <3>1, <3>4
    <3>6. ASSUME NEW j \in 1 .. m PROVE new[len + j] = more[j]
      <4> DEFINE k == len + j
      <4>1. k \in 1 .. len + m /\ ~(k <= len) /\ k - len = j
        BY <1>1, <2>5, <3>3
      <4> HIDE DEF k
      <4>2. new[k] = more[k - len]
        BY <3>1, <4>1
      <4> QED
        BY <4>1, <4>2 DEF k
    <3> QED
      BY <2>5, <3>2, <3>5, <3>6
  <2>7. /\ \A j \in 1 .. m : found[j] \in NextTo(active, x, types) /\ found[j] \notin visited
        /\ \A y \in NextTo(active, x, types) \ visited : \E j \in 1 .. m : found[j] = y
    <3>1. ToSet(found) = {found[j] : j \in 1 .. m}
      BY <2>b DEF ToSet
    <3>2. \A j \in 1 .. m : found[j] \in NextTo(active, x, types) \ visited
      BY <2>4, <3>1
    <3> QED
      BY <2>4, <3>1, <3>2
  <2>8. /\ \A i \in 1 .. len : order[i][1] \in visited
        /\ \A y \in visited : \E i \in 1 .. len : order[i][1] = y
    BY <1>1 DEF visited
  <2>9. \A i \in 1 .. len + m : i \in 1 .. len \/ \E j \in 1 .. m : i = len + j
    <3> SUFFICES ASSUME NEW i \in 1 .. len + m, i \notin 1 .. len PROVE \E j \in 1 .. m : i = len + j
      OBVIOUS
    <3>1. i - len \in 1 .. m /\ i = len + (i - len)
      BY <1>1, <2>5
    <3> QED
      BY <3>1
  <2>10. \A j \in 1 .. m : len + j \in 1 .. len + m
    BY <1>1, <2>5
  <2>11. \A i \in 1 .. len : i \in 1 .. len + m
    BY <1>1, <2>5
  <2>12. /\ order[1] = <<start, 0>>
         /\ \A i, j \in 1 .. len :
             /\ order[i][1] = order[j][1] => i = j
             /\ i <= j => order[i][2] <= order[j][2]
             /\ n - 1 <= i => order[j][2] <= order[i][2] + 1
         /\ \A j \in 1 .. len :
             /\ order[j][2] <= max_hops
             /\ j # 1 => \E i \in 1 .. len :
                             /\ order[j][2] = order[i][2] + 1
                             /\ order[j][1] \in NextTo(active, order[i][1], types)
             /\ j <= n - 1 /\ order[j][2] < max_hops =>
                    \A y \in NextTo(active, order[j][1], types) :
                        \E i \in 1 .. len : order[i][1] = y /\ order[i][2] <= order[j][2] + 1
    BY DEF Waves, len
  <2>13. \A i \in 1 .. len : order[i][2] <= level + 1
    <3>1. n - 1 <= n
      OBVIOUS
    <3> QED
      BY <2>1, <2>12, <3>1 DEF level
  <2>14. ASSUME NEW i \in 1 .. len + m, NEW j \in 1 .. len + m, new[i][1] = new[j][1] PROVE i = j
    <3>1. CASE i \in 1 .. len /\ j \in 1 .. len
      <4>1. order[i][1] = order[j][1]
        BY <2>6, <2>14, <3>1
      <4> QED
        BY <2>12, <3>1, <4>1
    <3>2. CASE i \in 1 .. len /\ j \notin 1 .. len
      <4>1. PICK k \in 1 .. m : j = len + k
        BY <2>9, <3>2
      <4>2. new[j][1] \notin visited /\ new[i][1] \in visited
        BY <2>6, <2>7, <2>8, <3>2, <4>1
      <4> QED
        BY <2>14, <4>2
    <3>3. CASE i \notin 1 .. len /\ j \in 1 .. len
      <4>1. PICK k \in 1 .. m : i = len + k
        BY <2>9, <3>3
      <4>2. new[i][1] \notin visited /\ new[j][1] \in visited
        BY <2>6, <2>7, <2>8, <3>3, <4>1
      <4> QED
        BY <2>14, <4>2
    <3>4. CASE i \notin 1 .. len /\ j \notin 1 .. len
      <4>1. PICK k \in 1 .. m : i = len + k
        BY <2>9, <3>4
      <4>2. PICK l \in 1 .. m : j = len + l
        BY <2>9, <3>4
      <4>3. found[k] = found[l]
        BY <2>6, <2>14, <4>1, <4>2
      <4> QED
        BY <2>4, <4>1, <4>2, <4>3
    <3> QED
      BY <3>1, <3>2, <3>3, <3>4
  <2>15. \A i \in 1 .. len + m :
            /\ new[i][2] \in Nat /\ new[i][2] <= level + 1
            /\ i \notin 1 .. len => new[i][2] = level + 1
    BY <1>1, <2>1, <2>6, <2>9, <2>13
  <2>16. ASSUME NEW i \in 1 .. len + m, NEW j \in 1 .. len + m, i <= j
         PROVE  new[i][2] <= new[j][2]
    <3>1. CASE j \in 1 .. len
      <4>1. i \in 1 .. len
        BY <1>1, <2>16, <3>1
      <4> QED
        BY <2>6, <2>12, <2>16, <3>1, <4>1
    <3>2. CASE j \notin 1 .. len
      BY <2>15, <3>2
    <3> QED
      BY <3>1, <3>2
  <2>17. ASSUME NEW i \in 1 .. len + m, NEW j \in 1 .. len + m, n <= i
         PROVE  new[j][2] <= new[i][2] + 1
    <3>1. new[n][2] = level
      BY <2>1, <2>6 DEF level
    <3>2. level <= new[i][2]
      BY <2>1, <2>11, <2>16, <2>17, <3>1
    <3> QED
      BY <2>1, <2>15, <3>2
  <2>18. ASSUME NEW j \in 1 .. len + m, j # 1
         PROVE  \E i \in 1 .. len + m : /\ new[j][2] = new[i][2] + 1
                                        /\ new[j][1] \in NextTo(active, new[i][1], types)
    <3>1. CASE j \in 1 .. len
      <4>1. PICK i \in 1 .. len : /\ order[j][2] = order[i][2] + 1
                                  /\ order[j][1] \in NextTo(active, order[i][1], types)
        BY <2>12, <2>18, <3>1
      <4> QED
        BY <2>6, <2>11, <3>1, <4>1
    <3>2. CASE j \notin 1 .. len
      <4>1. PICK k \in 1 .. m : j = len + k
        BY <2>9, <3>2
      <4>2. new[j][2] = level + 1 /\ new[j][1] \in NextTo(active, x, types)
        BY <2>6, <2>7, <4>1
      <4>3. n \in 1 .. len + m /\ new[n] = order[n]
        BY <2>1, <2>6, <2>11
      <4> QED
        BY <4>2, <4>3 DEF level, x
    <3> QED
      BY <3>1, <3>2
  <2>19. ASSUME NEW j \in 1 .. len + m, j <= n, new[j][2] < max_hops,
                NEW y \in NextTo(active, new[j][1], types)
         PROVE  \E i \in 1 .. len + m : new[i][1] = y /\ new[i][2] <= new[j][2] + 1
    <3>a. n <= len
      BY <1>1, <2>1
    <3>b. j \in 1 .. len
      BY <1>1, <2>5, <2>19, <3>a
    <3>1. j \in 1 .. len /\ new[j] = order[j]
      BY <2>6, <3>b
    <3>2. CASE j <= n - 1
      <4>1. PICK i \in 1 .. len : order[i][1] = y /\ order[i][2] <= order[j][2] + 1
        BY <2>12, <2>19, <3>1, <3>2
      <4> QED
        BY <2>6, <2>11, <3>1, <4>1
    <3>3. CASE ~(j <= n - 1)
      <4>1. j = n
        BY <2>19, <3>3
      <4>2. PICK i \in 1 .. len + m : new[i][1] = y
        <5>1. CASE y \in visited
          BY <2>6, <2>8, <2>11, <5>1
        <5>2. CASE y \notin visited
          <6>1. PICK k \in 1 .. m : found[k] = y
            BY <2>7, <2>19, <3>1, <4>1, <5>2 DEF x
          <6> QED
            BY <2>6, <2>10, <6>1
        <5> QED
          BY <5>1, <5>2
      <4>3. new[j][2] = level
        BY <3>1, <4>1 DEF level
      <4> QED
        BY <2>15, <4>2, <4>3
    <3> QED
      BY <3>2, <3>3
  <2>20. Len(new) >= 1 /\ new[1] = <<start, 0>>
    <3>1. 1 \in 1 .. len
      BY <1>1
    <3> QED
      BY <1>1, <2>5, <2>6, <2>12, <3>1
  <2>21. \A j \in 1 .. len + m : new[j][2] <= max_hops
    BY <2>1, <2>15
  <2>22. Len(new) = len + m
    BY <2>6
  <2>23. Waves(new, n, active, start, types, max_hops)
    BY <2>14, <2>16, <2>17, <2>18, <2>19, <2>20, <2>21, <2>22, Zenon DEF Waves
  <2> QED
    BY <2>23 DEF new, more
<1> QED
  BY <1>2, <1>3

\* The queue is used up after as many turns as there are nodes.
LEMMA WavesEnd ==
    ASSUME NEW active \in Seq(Edge), NEW start \in Node, NEW types, NEW max_hops \in Nat,
           NEW f \in [0 .. Cardinality(Node) -> Seq(Node \X Nat) \ {<<>>}],
           QueuedSoFar(f, active, start, types, max_hops)
    PROVE  LET n == Cardinality(Node)
           IN  /\ Waves(f[n], n, active, start, types, max_hops)
               /\ Len(f[n]) <= n
<1> DEFINE n == Cardinality(Node)
           Wave(i) == Waves(f[i], i, active, start, types, max_hops)
           P == {i \in 0 .. n : Wave(i)}
<1>1. n \in Nat /\ IsFiniteSet(Node)
  BY GraphAssumption, FS_CardinalityType
<1>2. /\ f[0] = <<<<start, 0>>>>
      /\ \A i \in 1 .. n : f[i] = f[i - 1] \o Expansion(active, f[i - 1], i, types, max_hops)
  BY DEF QueuedSoFar
<1>3. Wave(0)
  <2>1. Waves(<<<<start, 0>>>>, 0, active, start, types, max_hops)
    BY DEF Waves
  <2> QED
    BY <1>2, <2>1
<1> HIDE DEF n
<1>4. ASSUME NEW i \in 1 .. n, Wave(i - 1) PROVE Wave(i)
  <2>1. i \in Nat \ {0} /\ i - 1 \in 0 .. n
    BY <1>1
  <2>2. f[i - 1] \in Seq(Node \X Nat)
    BY <2>1 DEF n
  <2>3. Waves(f[i - 1] \o Expansion(active, f[i - 1], i, types, max_hops), i,
              active, start, types, max_hops)
    BY <1>4, <2>1, <2>2, TurnKeepsWaves
  <2> QED
    BY <1>2, <2>3
<1>5. Wave(n)
  <2> HIDE DEF Wave
  <2>1. 0 \in P /\ \A i \in 1 .. n : i - 1 \in P => i \in P
    BY <1>1, <1>3, <1>4
  <2> HIDE DEF P
  <2>2. \A i \in 0 .. n : i \in P
    BY <1>1, <2>1, StepByStep
  <2>3. n \in P
    BY <1>1, <2>2
  <2> USE DEF P
  <2> QED
    BY <2>3
<1>6. Len(f[n]) <= n
  <2> DEFINE order == f[n]
             len == Len(order)
             node == [i \in 1 .. len |-> order[i][1]]
  <2>1. order \in Seq(Node \X Nat) /\ len \in Nat
    <3>1. n \in 0 .. n
      BY <1>1
    <3>2. order \in Seq(Node \X Nat)
      BY <3>1 DEF n
    <3> QED
      BY <3>2
  <2>2. \A i, j \in 1 .. len : order[i][1] = order[j][1] => i = j
    BY <1>5 DEF Waves
  <2>3. \A i \in 1 .. len : order[i][1] \in Node
    BY <2>1
  <2> HIDE DEF order, len
  <2>4. node \in Injection(1 .. len, Node)
    BY <2>2, <2>3 DEF Injection, IsInjective
  <2> HIDE DEF node
  <2>5. Cardinality(1 .. len) <= n
    BY <1>1, <2>4, FS_Injection DEF n
  <2>6. Cardinality(1 .. len) = len
    <3>1. 1 \in Int /\ len \in Int
      BY <2>1
    <3> QED
      BY <2>1, <3>1, FS_Interval
  <2> QED
    BY <2>5, <2>6 DEF len, order
<1> QED
  BY <1>5, <1>6 DEF n

\* The edges that are not deprecated.
LEMMA ActiveEdges ==
    ASSUME GraphInv, NEW b \in GraphBranch
    PROVE  /\ get_edges(b) \in Seq(Edge)
           /\ {get_edges(b)[i] : i \in 1 .. Len(get_edges(b))} =
                 {e \in ToSet(edges[b]) : e.id \notin deprecated_edges[b]}
<1> DEFINE s == edges[b]
           T == {e \in ToSet(s) : e.id \notin deprecated_edges[b]}
           r == Kept(s, T)
<1>1. s \in Seq(Edge) /\ ToSet(s) = {s[i] : i \in 1 .. Len(s)}
  BY DEF GraphInv, ToSet
<1>2. get_edges(b) = r
  BY DEF get_edges
<1> HIDE DEF s, T
<1>a. s \in Seq(Edge)
  BY <1>1
<1>3. /\ r \in Seq(Edge)
      /\ \A m \in 1 .. Len(r) : r[m] \in T
  BY <1>a, KeptInOrder
<1>4. \A i \in 1 .. Len(s) : s[i] \in T => \E m \in 1 .. Len(r) : r[m] = s[i]
  BY <1>a, KeptIsAll
<1>5. \A e \in T : \E i \in 1 .. Len(s) : s[i] = e
  BY <1>1 DEF T
<1> HIDE DEF r
<1>6. {r[i] : i \in 1 .. Len(r)} = T
  <2>1. \A e \in T : \E m \in 1 .. Len(r) : r[m] = e
    BY <1>4, <1>5
  <2> QED
    BY <1>3, <2>1
<1> QED
  BY <1>2, <1>3, <1>6 DEF T, s

\* What Within has after each step, and what navigate has within k edges.
OneEdgeOn(b, types, near) ==
    LET usable == {e \in ToSet(edges[b]) : e.type \in types /\ e.id \notin deprecated_edges[b]}
    IN  near \union {e.target : e \in {f \in usable : f.source \in near}}
             \union {e.source : e \in {f \in usable : f.target \in near}}

UpToLevel(order, k) == {order[i][1] : i \in {j \in 1 .. Len(order) : order[j][2] <= k}}

WithinSoFar(w, active, start, types, n) ==
    /\ w[0] = {start}
    /\ \A m \in 1 .. n :
          w[m] = w[m - 1] \union UNION {NextTo(active, x, types) : x \in w[m - 1]}

\* One edge further, by the edges' ends or by the nodes next to a node.
LEMMA OneEdgeFurther ==
    ASSUME GraphInv, NEW b \in GraphBranch, NEW types, NEW near \in SUBSET Node
    PROVE  /\ OneEdgeOn(b, types, near) =
                  near \union UNION {NextTo(get_edges(b), x, types) : x \in near}
           /\ OneEdgeOn(b, types, near) \in SUBSET Node
<1> DEFINE usable == {e \in ToSet(edges[b]) : e.type \in types /\ e.id \notin deprecated_edges[b]}
           active == get_edges(b)
           more == near \union {e.target : e \in {f \in usable : f.source \in near}}
                        \union {e.source : e \in {f \in usable : f.target \in near}}
           next == near \union UNION {NextTo(active, x, types) : x \in near}
           len == Len(active)
<1>1. /\ \A i \in 1 .. len : active[i] \in ToSet(edges[b]) /\ active[i].id \notin deprecated_edges[b]
      /\ \A e \in usable : \E i \in 1 .. len : active[i] = e
  <2>1. {active[i] : i \in 1 .. len} =
            {e \in ToSet(edges[b]) : e.id \notin deprecated_edges[b]}
    BY ActiveEdges
  <2> HIDE DEF active, len
  <2> QED
    BY <2>1
<1>2. \A e \in usable : e.type \in types /\ e.source \in Node /\ e.target \in Node
  <2>1. edges[b] \in Seq(Edge)
    BY DEF GraphInv
  <2>2. \A e \in ToSet(edges[b]) : e \in Edge
    BY <2>1 DEF ToSet
  <2> QED
    BY <2>2 DEF Edge
<1>3. \A i \in 1 .. len : active[i].type \in types => active[i] \in usable
  BY <1>1
<1> HIDE DEF usable, active, len
<1>4. ASSUME NEW x \in near, NEW y \in NextTo(active, x, types) PROVE y \in more
  <2>1. PICK i \in 1 .. len : Leads(active[i], x, types) /\ y = OtherEnd(active[i], x)
    BY <1>4 DEF NextTo, len
  <2>2. active[i] \in usable
    BY <1>3, <2>1 DEF Leads
  <2> QED
    BY <2>1, <2>2 DEF Leads, OtherEnd
<1>5. ASSUME NEW e \in usable, NEW x \in near, x \in {e.source, e.target}
      PROVE  OtherEnd(e, x) \in NextTo(active, x, types)
  <2>1. PICK i \in 1 .. len : active[i] = e
    BY <1>1
  <2>2. Leads(active[i], x, types)
    BY <1>2, <1>5, <2>1 DEF Leads
  <2> QED
    BY <2>1, <2>2 DEF NextTo, len
<1>6. ASSUME NEW y \in more PROVE y \in next
  <2>1. CASE y \in near
    BY <2>1
  <2>2. CASE \E e \in usable : e.source \in near /\ y = e.target
    <3>1. PICK e \in usable : e.source \in near /\ y = e.target
      BY <2>2
    <3>2. OtherEnd(e, e.source) = y
      BY <3>1 DEF OtherEnd
    <3> QED
      BY <1>5, <3>1, <3>2
  <2>3. CASE \E e \in usable : e.target \in near /\ y = e.source
    <3>1. PICK e \in usable : e.target \in near /\ y = e.source
      BY <2>3
    <3>2. CASE e.source = e.target
      BY <3>1, <3>2
    <3>3. CASE e.source # e.target
      <4>1. OtherEnd(e, e.target) = y
        BY <3>1, <3>3 DEF OtherEnd
      <4> QED
        BY <1>5, <3>1, <4>1
    <3> QED
      BY <3>2, <3>3
  <2> QED
    BY <1>6, <2>1, <2>2, <2>3
<1>7. more = next
  BY <1>4, <1>6
<1>8. more \in SUBSET Node
  BY <1>2
<1> QED
  BY <1>7, <1>8 DEF usable, active, OneEdgeOn

\* There is such a sequence of sets, and Within is the last of them.
LEMMA WithinUnfolds ==
    ASSUME GraphInv, NEW b \in GraphBranch, NEW start \in Node, NEW types, NEW n \in Nat
    PROVE  \E w \in [0 .. n -> SUBSET Node] :
              /\ WithinSoFar(w, get_edges(b), start, types, n)
              /\ Within(b, start, types, n) = w[n]
<1> DEFINE D == SUBSET Node
           base == {start}
           Step(i, near) == OneEdgeOn(b, types, near)
           body(g) == [i \in 0 .. n |-> IF i = 0 THEN base ELSE Step(i, g[i - 1])]
           q == CHOOSE g : g = body(g)
<1>1. n \in Nat /\ base \in D
  OBVIOUS
<1>a. \A i \in 1 .. n, x \in D :
          /\ Step(i, x) \in D
          /\ Step(i, x) = x \union UNION {NextTo(get_edges(b), y, types) : y \in x}
  <2> SUFFICES ASSUME NEW i \in 1 .. n, NEW x \in D
               PROVE  /\ Step(i, x) \in D
                      /\ Step(i, x) = x \union UNION {NextTo(get_edges(b), y, types) : y \in x}
    OBVIOUS
  <2> QED
    BY OneEdgeFurther
<1>3. Within(b, start, types, n) = q[n]
  BY DEF Within, OneEdgeOn
<1> HIDE DEF Step
<1>2. \A i \in 1 .. n, x \in D : Step(i, x) \in D
  BY <1>a
<1> HIDE DEF D
<1>4. PICK f \in [0 .. n -> D] : Follows(f, n, base, [x \in (1 .. n) \X D |-> Step(x[1], x[2])])
  <2> DEFINE step == [x \in (1 .. n) \X D |-> Step(x[1], x[2])]
  <2>1. step \in [(1 .. n) \X D -> D]
    BY <1>2
  <2> HIDE DEF step, base
  <2>2. \E f \in [0 .. n -> D] : Follows(f, n, base, step)
    BY <1>1, <2>1, RecursionHasValue
  <2> QED
    BY <2>2 DEF step
<1>5. f = body(f)
  <2>1. f[0] = base /\ f = [i \in 0 .. n |-> f[i]]
    BY <1>4 DEF Follows
  <2>2. ASSUME NEW i \in 1 .. n PROVE f[i] = Step(i, f[i - 1])
    <3>1. i - 1 \in 0 .. n
      BY <1>1
    <3>2. f[i - 1] \in D
      BY <3>1
    <3> QED
      BY <1>4, <3>2 DEF Follows
  <2>3. \A i \in 0 .. n : i # 0 => i \in 1 .. n
    BY <1>1
  <2> HIDE DEF base
  <2>4. \A i \in 0 .. n : f[i] = body(f)[i]
    BY <2>1, <2>2, <2>3
  <2> QED
    BY <2>1, <2>4
<1>6. q = body(q)
  BY <1>5
<1>7. 0 \in 0 .. n /\ n \in 0 .. n /\ \A i \in 1 .. n : i \in 0 .. n /\ i # 0 /\ i - 1 \in 0 .. n
  BY <1>1
<1>8. q[0] = base /\ \A i \in 1 .. n : q[i] = Step(i, q[i - 1])
  <2> HIDE DEF q, base
  <2>1. \A i \in 0 .. n : q[i] = body(q)[i]
    BY <1>6
  <2>2. \A i \in 0 .. n : q[i] = IF i = 0 THEN base ELSE Step(i, q[i - 1])
    BY <2>1
  <2> QED
    BY <1>7, <2>2
<1>9. \A i \in 0 .. n : q[i] \in D
  <2> DEFINE P == {i \in 0 .. n : q[i] \in D}
  <2> HIDE DEF q, base
  <2>1. 0 \in P /\ \A i \in 1 .. n : i - 1 \in P => i \in P
    BY <1>1, <1>2, <1>7, <1>8
  <2> HIDE DEF P
  <2>2. \A i \in 0 .. n : i \in P
    BY <1>1, <2>1, StepByStep
  <2> QED
    BY <2>2 DEF P
<1> DEFINE w == [i \in 0 .. n |-> q[i]]
<1> HIDE DEF q
<1>10. w \in [0 .. n -> D] /\ w[0] = base /\ w[n] = q[n]
  BY <1>7, <1>8, <1>9
<1>11. ASSUME NEW i \in 1 .. n
       PROVE  w[i] = w[i - 1] \union UNION {NextTo(get_edges(b), x, types) : x \in w[i - 1]}
  <2>1. w[i] = Step(i, w[i - 1]) /\ w[i - 1] \in D
    BY <1>7, <1>8, <1>9
  <2> HIDE DEF w
  <2> QED
    BY <1>a, <2>1
<1> HIDE DEF w
<1>12. WithinSoFar(w, get_edges(b), start, types, n)
  BY <1>10, <1>11 DEF WithinSoFar
<1> QED
  BY <1>3, <1>10, <1>12 DEF D

\* The levels of the queue are the distances from the start.
LEMMA LevelsAreDistances ==
    ASSUME NEW active \in Seq(Edge), NEW order \in Seq(Node \X Nat), NEW n \in Nat,
           NEW start, NEW types, NEW max_hops \in Nat, NEW k \in 0 .. max_hops, NEW w,
           Waves(order, n, active, start, types, max_hops), Len(order) <= n,
           WithinSoFar(w, active, start, types, k)
    PROVE  w[k] = UpToLevel(order, k)
<1> DEFINE len == Len(order)
           UpTo(m) == {order[i][1] : i \in {j \in 1 .. len : order[j][2] <= m}}
           P == {m \in 0 .. k : w[m] = UpTo(m)}
<1>1. /\ len \in Nat /\ len >= 1 /\ k \in Nat /\ k <= max_hops
      /\ \A i \in 1 .. len : order[i][2] \in Nat /\ i <= n
  BY DEF Waves
<1>2. /\ order[1] = <<start, 0>>
      /\ \A j \in 1 .. len :
          /\ j # 1 => \E i \in 1 .. len :
                          /\ order[j][2] = order[i][2] + 1
                          /\ order[j][1] \in NextTo(active, order[i][1], types)
          /\ order[j][2] < max_hops =>
                 \A y \in NextTo(active, order[j][1], types) :
                     \E i \in 1 .. len : order[i][1] = y /\ order[i][2] <= order[j][2] + 1
  BY <1>1 DEF Waves
<1>3. /\ w[0] = {start}
      /\ \A m \in 1 .. k :
            w[m] = w[m - 1] \union UNION {NextTo(active, x, types) : x \in w[m - 1]}
  BY DEF WithinSoFar
<1> HIDE DEF len
<1>4. 0 \in P
  <2>1. 1 \in 1 .. len /\ order[1][1] = start /\ order[1][2] = 0
    BY <1>1, <1>2
  <2>2. ASSUME NEW i \in 1 .. len, order[i][2] <= 0 PROVE i = 1
    <3> SUFFICES ASSUME i # 1 PROVE FALSE
      OBVIOUS
    <3>1. PICK j \in 1 .. len : order[i][2] = order[j][2] + 1
      BY <1>2
    <3>2. order[j][2] \in Nat
      BY <1>1
    <3> QED
      BY <2>2, <3>1, <3>2
  <2>3. UpTo(0) = {start}
    BY <2>1, <2>2
  <2>4. w[0] = UpTo(0)
    BY <1>3, <2>3
  <2>5. 0 \in 0 .. k
    BY <1>1
  <2> HIDE DEF UpTo
  <2> QED
    BY <2>4, <2>5
<1>5. ASSUME NEW m \in 1 .. k, m - 1 \in P PROVE m \in P
  <2>1. w[m - 1] = UpTo(m - 1) /\ m - 1 \in Nat /\ m \in Nat /\ m <= max_hops
    BY <1>1, <1>5
  <2>a. m \in Nat /\ m - 1 \in Nat
    BY <1>1
  <2>2. ASSUME NEW x \in w[m - 1], NEW y \in NextTo(active, x, types) PROVE y \in UpTo(m)
    <3>1. PICK j \in 1 .. len : order[j][1] = x /\ order[j][2] <= m - 1
      BY <2>1
    <3>2. order[j][2] < max_hops
      BY <1>1, <2>1, <3>1
    <3>3. PICK i \in 1 .. len : order[i][1] = y /\ order[i][2] <= order[j][2] + 1
      BY <1>2, <2>2, <3>1, <3>2
    <3>a. order[i][2] \in Nat /\ order[j][2] \in Nat
      BY <1>1
    <3>4. order[i][2] <= m
      <4> DEFINE far == order[i][2]
                 near == order[j][2]
      <4>1. far \in Nat /\ near \in Nat /\ far <= near + 1 /\ near <= m - 1
        BY <3>1, <3>3, <3>a
      <4> HIDE DEF far, near
      <4>2. far <= m
        BY <2>a, <4>1
      <4> QED
        BY <4>2 DEF far
    <3> QED
      BY <3>3, <3>4
  <2>3. \A y \in UpTo(m - 1) : y \in UpTo(m)
    <3>1. \A i \in 1 .. len : order[i][2] <= m - 1 => order[i][2] <= m
      BY <1>1, <2>1
    <3> QED
      BY <3>1
  <2>4. ASSUME NEW i \in 1 .. len, order[i][2] <= m
        PROVE  \/ order[i][1] \in w[m - 1]
               \/ \E x \in w[m - 1] : order[i][1] \in NextTo(active, x, types)
    <3>1. CASE order[i][2] <= m - 1
      BY <2>1, <3>1
    <3>2. CASE ~(order[i][2] <= m - 1)
      <4>1. order[i][2] = m
        BY <1>1, <2>1, <2>4, <3>2
      <4>2. i # 1
        BY <1>2, <2>1, <3>2
      <4>3. PICK j \in 1 .. len : /\ order[i][2] = order[j][2] + 1
                                  /\ order[i][1] \in NextTo(active, order[j][1], types)
        BY <1>2, <4>2
      <4>4. order[j][2] <= m - 1
        BY <1>1, <2>1, <4>1, <4>3
      <4>5. order[j][1] \in w[m - 1]
        BY <2>1, <4>4
      <4> QED
        BY <4>3, <4>5
    <3> QED
      BY <3>1, <3>2
  <2>5. w[m] = w[m - 1] \union UNION {NextTo(active, x, types) : x \in w[m - 1]}
    BY <1>3
  <2>6. \A y \in UpTo(m) : y \in w[m]
    BY <2>4, <2>5
  <2>7. \A y \in w[m] : y \in UpTo(m)
    BY <2>1, <2>2, <2>3, <2>5
  <2>8. w[m] = UpTo(m) /\ m \in 0 .. k
    BY <1>1, <2>6, <2>7
  <2> QED
    BY <2>8
<1>6. w[k] = UpTo(k)
  <2> HIDE DEF P
  <2>1. \A i \in 0 .. k : i \in P
    BY <1>1, <1>4, <1>5, StepByStep
  <2>2. k \in P
    BY <1>1, <2>1
  <2> QED
    BY <2>2 DEF P
<1> QED
  BY <1>6 DEF len, UpToLevel

\* A finished queue has, up to level k, what Within has after k steps.
LEMMA WithinIsUpToLevel ==
    ASSUME GraphInv, NEW b \in GraphBranch, NEW order \in Seq(Node \X Nat), NEW n \in Nat,
           NEW start \in Node, NEW types, NEW max_hops \in Nat, NEW k \in 0 .. max_hops,
           Waves(order, n, get_edges(b), start, types, max_hops), Len(order) <= n
    PROVE  Within(b, start, types, k) = UpToLevel(order, k)
<1>1. k \in Nat /\ get_edges(b) \in Seq(Edge)
  BY ActiveEdges
<1>2. PICK w \in [0 .. k -> SUBSET Node] :
         /\ WithinSoFar(w, get_edges(b), start, types, k)
         /\ Within(b, start, types, k) = w[k]
  BY <1>1, WithinUnfolds
<1> QED
  BY <1>1, <1>2, LevelsAreDistances

\* For every graph, start, set of types and number of hops, navigate finds the
\* nodes within that many usable edges, each once and with its distance: what
\* the queue of navigate and the order of the edges make of it is the same.
LEMMA NavigateIsExact ==
    ASSUME GraphInv, NEW b \in GraphBranch, NEW start \in Node, NEW types, NEW max_hops \in Nat
    PROVE  LET found == navigate(b, start, types, max_hops)
               W(n) == Within(b, start, types, n)
           IN  /\ IsInjective([i \in DOMAIN found |-> found[i][1]])
               /\ ToSet(found) = UNION {{<<x, n>> : x \in W(n) \ W(n - 1)} : n \in 1 .. max_hops}
<1> DEFINE N == Cardinality(Node)
           active == get_edges(b)
           found == navigate(b, start, types, max_hops)
           W(n) == Within(b, start, types, n)
<1>1. PICK order \in Seq(Node \X Nat), taken \in Nat :
         /\ order # <<>> /\ found = Tail(order)
         /\ Waves(order, taken, active, start, types, max_hops) /\ Len(order) <= taken
  <2>0. PICK f : IsQueueOf(f, b, start, types, max_hops)
    BY NavigateUnfolds
  <2>1. /\ f \in [0 .. N -> Seq(Node \X Nat) \ {<<>>}]
        /\ QueuedSoFar(f, active, start, types, max_hops) /\ found = Tail(f[N])
    BY <2>0 DEF IsQueueOf
  <2>2. active \in Seq(Edge)
    BY ActiveEdges
  <2>3. N \in Nat /\ N \in 0 .. N
    BY GraphAssumption, FS_CardinalityType
  <2>4. Waves(f[N], N, active, start, types, max_hops) /\ Len(f[N]) <= N
    BY <2>1, <2>2, WavesEnd
  <2> HIDE DEF N, active, found
  <2> QED
    BY <2>1, <2>3, <2>4
<1> DEFINE len == Len(order)
<1>5. ASSUME NEW k \in 0 .. max_hops
      PROVE  W(k) = {order[i][1] : i \in {j \in 1 .. len : order[j][2] <= k}}
  <2>1. W(k) = UpToLevel(order, k)
    BY <1>1, WithinIsUpToLevel
  <2> QED
    BY <2>1 DEF UpToLevel
<1>6. /\ len \in Nat /\ len >= 1 /\ order[1] = <<start, 0>>
      /\ \A i, j \in 1 .. len : order[i][1] = order[j][1] => i = j
      /\ \A j \in 1 .. len :
            /\ order[j] = <<order[j][1], order[j][2]>>
            /\ order[j][2] \in 0 .. max_hops
            /\ j # 1 => \E i \in 1 .. len : order[j][2] = order[i][2] + 1
  BY <1>1 DEF Waves
<1> HIDE DEF found, W
<1>7. /\ Len(found) = len - 1 /\ DOMAIN found = 1 .. len - 1
      /\ \A i \in 1 .. len - 1 : found[i] = order[i + 1]
  BY <1>1, HeadTailProperties
<1> HIDE DEF len
<1>8. \A i \in 1 .. len - 1 : i + 1 \in 1 .. len /\ i + 1 # 1
  BY <1>6
<1>9. IsInjective([i \in DOMAIN found |-> found[i][1]])
  <2>1. ASSUME NEW i \in 1 .. len - 1, NEW j \in 1 .. len - 1, found[i][1] = found[j][1]
        PROVE  i = j
    <3>1. order[i + 1][1] = order[j + 1][1]
      BY <1>7, <2>1
    <3>2. i + 1 = j + 1
      BY <1>6, <1>8, <3>1
    <3> QED
      BY <1>6, <3>2
  <2> QED
    BY <1>7, <2>1 DEF IsInjective
<1>10. ASSUME NEW i \in 1 .. len - 1
       PROVE  \E n \in 1 .. max_hops : found[i] \in {<<x, n>> : x \in W(n) \ W(n - 1)}
  <2> DEFINE j == i + 1
             hops == order[j][2]
             x == order[j][1]
  <2>1. j \in 1 .. len /\ j # 1 /\ found[i] = order[j]
    BY <1>7, <1>8
  <2> HIDE DEF j
  <2>2. found[i] = <<x, hops>> /\ hops \in 0 .. max_hops
    BY <1>6, <2>1
  <2>3. PICK l \in 1 .. len : hops = order[l][2] + 1
    BY <1>6, <2>1
  <2>4. order[l][2] \in Nat
    BY <1>6
  <2>5. hops \in 1 .. max_hops /\ hops - 1 \in 0 .. max_hops /\ ~(hops <= hops - 1)
    BY <2>2, <2>3, <2>4
  <2>6. x \in W(hops)
    <3>1. hops <= hops
      BY <2>5
    <3> QED
      BY <1>5, <2>1, <2>2, <3>1
  <2>7. x \notin W(hops - 1)
    <3>1. W(hops - 1) = {order[h][1] : h \in {g \in 1 .. len : order[g][2] <= hops - 1}}
      BY <1>5, <2>5
    <3>2. ASSUME NEW h \in 1 .. len, order[h][2] <= hops - 1, x = order[h][1] PROVE FALSE
      <4>1. h = j
        BY <1>6, <2>1, <3>2
      <4> QED
        BY <2>5, <3>2, <4>1
    <3> QED
      BY <3>1, <3>2
  <2> HIDE DEF hops, x
  <2> QED
    BY <2>2, <2>5, <2>6, <2>7
<1>11. ASSUME NEW n \in 1 .. max_hops, NEW x \in W(n) \ W(n - 1)
       PROVE  \E i \in 1 .. len - 1 : found[i] = <<x, n>>
  <2>1. n \in 0 .. max_hops /\ n - 1 \in 0 .. max_hops /\ n \in Nat /\ n >= 1
    OBVIOUS
  <2>2. PICK j \in 1 .. len : order[j][1] = x /\ order[j][2] <= n
    BY <1>5, <2>1
  <2>3. ~(order[j][2] <= n - 1)
    BY <1>5, <2>1, <2>2
  <2>4. order[j][2] \in Nat
    BY <1>6
  <2>5. order[j][2] = n
    BY <2>1, <2>2, <2>3, <2>4
  <2>6. j # 1
    BY <1>6, <2>1, <2>5
  <2>7. j - 1 \in 1 .. len - 1 /\ j - 1 + 1 = j
    BY <1>6, <2>6
  <2>8. found[j - 1] = order[j]
    BY <1>7, <2>7
  <2>9. order[j] = <<x, n>>
    BY <1>6, <2>2, <2>5
  <2> QED
    BY <2>7, <2>8, <2>9
<1>12. ToSet(found) = UNION {{<<x, n>> : x \in W(n) \ W(n - 1)} : n \in 1 .. max_hops}
  <2>1. ToSet(found) = {found[i] : i \in 1 .. len - 1}
    BY <1>7 DEF ToSet
  <2>2. \A y \in ToSet(found) :
           y \in UNION {{<<x, n>> : x \in W(n) \ W(n - 1)} : n \in 1 .. max_hops}
    BY <1>10, <2>1
  <2>3. ASSUME NEW n \in 1 .. max_hops, NEW x \in W(n) \ W(n - 1)
        PROVE  <<x, n>> \in ToSet(found)
    BY <1>11, <2>1
  <2> QED
    BY <2>2, <2>3
<1> QED
  BY <1>9, <1>12 DEF found, W

\* NavigateFindsNearest: a query along a pattern gets every node within its hops
\* that usable edges lead to, each once and with its distance, however the edges
\* came into the graph.
THEOREM NearestIsFound == Spec => []NavigateFindsNearest
<1>1. GraphInv => NavigateFindsNearest
  <2> SUFFICES ASSUME GraphInv, NEW b \in GraphBranch, NEW p \in Patterns,
                      NEW start \in UNION {{e.source, e.target} : e \in ToSet(edges[b])}
               PROVE  LET found == navigate(b, start, p.types, p.max_hops)
                          W(n) == Within(b, start, p.types, n)
                      IN  /\ IsInjective([i \in DOMAIN found |-> found[i][1]])
                          /\ ToSet(found) =
                                UNION {{<<x, n>> : x \in W(n) \ W(n - 1)} : n \in 1 .. p.max_hops}
    BY DEF NavigateFindsNearest
  <2>1. start \in Node
    <3>1. edges[b] \in Seq(Edge)
      BY DEF GraphInv
    <3>2. \A e \in ToSet(edges[b]) : e \in Edge
      BY <3>1 DEF ToSet
    <3> QED
      BY <3>2 DEF Edge
  <2>2. p.max_hops \in Nat
    BY GraphAssumption
  <2> QED
    BY <2>1, <2>2, NavigateIsExact
<1> QED
  BY <1>1, GraphInvariant, PTL
-----------------------------------------------------------------------------
(***************************************************************************)
(* The retriever: what the search and the stores answer are sequences, and *)
(* any two sequences are fused exactly.                                    *)
(***************************************************************************)

\* IntentNavigator answers with nodes.
LEMMA NavigateFromIsSeq ==
    ASSUME GraphInv, NEW b \in GraphBranch, NEW concepts \in Seq(Node), NEW pattern
    PROVE  NavigateFrom(b, concepts, pattern) \in Seq(Node)
<1> DEFINE n == Len(concepts)
           D == Seq(Node)
           base == <<>>
           Step(i, x) ==
               LET hits == navigate(b, concepts[i], pattern.types, pattern.max_hops)
                   nodes == [j \in DOMAIN hits |-> hits[j][1]]
               IN  x \o Kept(nodes, Node \ ToSet(x))
           body(g) == [i \in 0 .. n |-> IF i = 0 THEN base ELSE Step(i, g[i - 1])]
           q == CHOOSE g : g = body(g)
<1>1. n \in Nat /\ base \in D
  OBVIOUS
<1>2. \A i \in 1 .. n, x \in D : Step(i, x) \in D
  <2> SUFFICES ASSUME NEW i \in 1 .. n, NEW x \in D PROVE Step(i, x) \in D
    OBVIOUS
  <2> DEFINE hits == navigate(b, concepts[i], pattern.types, pattern.max_hops)
             nodes == [j \in DOMAIN hits |-> hits[j][1]]
             new == Kept(nodes, Node \ ToSet(x))
  <2>1. hits \in Seq(Node \X Nat)
    BY NavigateIsSeq
  <2> HIDE DEF hits
  <2>2. DOMAIN hits = 1 .. Len(hits) /\ Len(hits) \in Nat /\ \A j \in 1 .. Len(hits) : hits[j][1] \in Node
    BY <2>1
  <2>3. nodes \in Seq(Node)
    BY <2>2
  <2> HIDE DEF nodes
  <2>4. new \in Seq(Node)
    BY <2>3, KeptInOrder
  <2> HIDE DEF new
  <2>5. x \o new \in Seq(Node)
    BY <2>4, ConcatProperties
  <2> QED
    BY <2>5 DEF new, nodes, hits
<1>3. NavigateFrom(b, concepts, pattern) = q[n]
  BY DEF NavigateFrom
<1> HIDE DEF Step, D, n
<1>4. PICK f \in [0 .. n -> D] : Follows(f, n, base, [x \in (1 .. n) \X D |-> Step(x[1], x[2])])
  <2> DEFINE step == [x \in (1 .. n) \X D |-> Step(x[1], x[2])]
  <2>1. step \in [(1 .. n) \X D -> D]
    BY <1>2
  <2> HIDE DEF step, base
  <2>2. \E f \in [0 .. n -> D] : Follows(f, n, base, step)
    BY <1>1, <2>1, RecursionHasValue
  <2> QED
    BY <2>2 DEF step
<1>5. f = body(f)
  <2>1. f[0] = base /\ f = [i \in 0 .. n |-> f[i]]
    BY <1>4 DEF Follows
  <2>2. ASSUME NEW i \in 1 .. n PROVE f[i] = Step(i, f[i - 1])
    <3>1. i - 1 \in 0 .. n
      BY <1>1
    <3>2. f[i - 1] \in D
      BY <3>1
    <3> QED
      BY <1>4, <3>2 DEF Follows
  <2>3. \A i \in 0 .. n : i # 0 => i \in 1 .. n
    BY <1>1
  <2> HIDE DEF base
  <2>4. \A i \in 0 .. n : f[i] = body(f)[i]
    BY <2>1, <2>2, <2>3
  <2> QED
    BY <2>1, <2>4
<1>6. q = body(q)
  BY <1>5
<1>7. 0 \in 0 .. n /\ n \in 0 .. n /\ \A i \in 1 .. n : i \in 0 .. n /\ i # 0 /\ i - 1 \in 0 .. n
  BY <1>1
<1>8. q[0] = base /\ \A i \in 1 .. n : q[i] = Step(i, q[i - 1])
  <2> HIDE DEF q, base
  <2>1. \A i \in 0 .. n : q[i] = body(q)[i]
    BY <1>6
  <2>2. \A i \in 0 .. n : q[i] = IF i = 0 THEN base ELSE Step(i, q[i - 1])
    BY <2>1
  <2> QED
    BY <1>7, <2>2
<1>9. \A i \in 0 .. n : q[i] \in D
  <2> DEFINE P == {i \in 0 .. n : q[i] \in D}
  <2> HIDE DEF q, base
  <2>1. 0 \in P /\ \A i \in 1 .. n : i - 1 \in P => i \in P
    BY <1>1, <1>2, <1>7, <1>8
  <2> HIDE DEF P
  <2>2. \A i \in 0 .. n : i \in P
    BY <1>1, <2>1, StepByStep
  <2> QED
    BY <2>2 DEF P
<1> QED
  BY <1>3, <1>7, <1>9 DEF D

\* How many elements a sequence without repetitions has.
LEMMA CountElements ==
    ASSUME NEW S, NEW s \in Seq(S)
    PROVE  /\ IsFiniteSet(ToSet(s))
           /\ IsInjective(s) => Cardinality(ToSet(s)) = Len(s)
<1> DEFINE dom == 1 .. Len(s)
<1>1. DOMAIN s = dom /\ Len(s) \in Nat /\ s \in [dom -> ToSet(s)]
  BY DEF ToSet
<1>2. IsFiniteSet(dom) /\ Cardinality(dom) = Len(s)
  <2>1. 1 \in Int /\ Len(s) \in Int /\ (IF 1 > Len(s) THEN 0 ELSE Len(s) - 1 + 1) = Len(s)
    BY <1>1
  <2> QED
    BY <2>1, FS_Interval
<1> HIDE DEF dom
<1>3. s \in Surjection(dom, ToSet(s))
  BY <1>1 DEF Surjection, ToSet
<1>4. IsInjective(s) => s \in Injection(dom, ToSet(s))
  BY <1>1 DEF Injection, IsInjective
<1> QED
  BY <1>2, <1>3, <1>4, FS_Surjection

\* An offered memory is listed, unless the list is full.
LEMMA AddFacts ==
    ASSUME NEW S, NEW list \in Seq(S), NEW n \in Nat \ {0}, NEW out \in Seq(S), NEW k \in Nat
    PROVE  LET r == Add(list, n, out, k)
           IN  /\ r \in Seq(S) /\ Len(out) <= Len(r)
               /\ Len(out) <= k => Len(r) <= k
               /\ IsInjective(out) => IsInjective(r)
               /\ ToSet(out) \subseteq ToSet(r)
               /\ ToSet(r) \subseteq ToSet(out) \union ToSet(list)
               /\ Len(r) < k /\ n <= Len(list) => list[n] \in ToSet(r)
<1> DEFINE r == Add(list, n, out, k)
           x == list[n]
           l == Len(out)
<1>1. l \in Nat /\ DOMAIN out = 1 .. l
  OBVIOUS
<1>2. CASE n > Len(list) \/ Len(out) >= k \/ list[n] \in ToSet(out)
  <2>1. r = out
    BY <1>2 DEF Add
  <2> HIDE DEF r
  <2> QED
    BY <1>1, <1>2, <2>1 DEF r
<1>3. CASE ~(n > Len(list) \/ Len(out) >= k \/ list[n] \in ToSet(out))
  <2>1. r = Append(out, x) /\ n \in 1 .. Len(list) /\ l < k /\ x \notin ToSet(out)
    BY <1>3 DEF Add
  <2>2. x \in S /\ x \in ToSet(list)
    BY <2>1 DEF ToSet
  <2> HIDE DEF r, x
  <2>3. /\ r \in Seq(S) /\ Len(r) = l + 1 /\ DOMAIN r = 1 .. l + 1 /\ r[l + 1] = x
        /\ \A i \in 1 .. l : r[i] = out[i]
    BY <2>1, <2>2
  <2> HIDE DEF l
  <2>4. ToSet(r) = ToSet(out) \union {x}
    <3>1. \A i \in 1 .. l + 1 : i \in 1 .. l \/ i = l + 1
      BY <1>1
    <3>2. l + 1 \in 1 .. l + 1 /\ \A i \in 1 .. l : i \in 1 .. l + 1
      BY <1>1
    <3> QED
      BY <1>1, <2>3, <3>1, <3>2 DEF ToSet
  <2>5. ASSUME IsInjective(out) PROVE IsInjective(r)
    <3> SUFFICES ASSUME NEW i \in 1 .. l + 1, NEW j \in 1 .. l + 1, r[i] = r[j] PROVE i = j
      BY <2>3 DEF IsInjective
    <3>1. ASSUME NEW m \in 1 .. l PROVE r[m] # x
      <4>1. r[m] \in ToSet(out)
        BY <1>1, <2>3 DEF ToSet
      <4> QED
        BY <2>1, <4>1
    <3>2. CASE i = l + 1 \/ j = l + 1
      BY <1>1, <2>3, <3>1, <3>2
    <3>3. CASE i \in 1 .. l /\ j \in 1 .. l
      BY <1>1, <2>3, <2>5, <3>3 DEF IsInjective
    <3> QED
      BY <1>1, <3>2, <3>3
  <2>6. Len(out) <= Len(r) /\ Len(r) <= k
    BY <1>1, <2>1, <2>3 DEF l
  <2> QED
    BY <2>2, <2>3, <2>4, <2>5, <2>6 DEF r, x
<1> QED
  BY <1>2, <1>3

\* What the fusion has listed when i memories of each list were offered.
FusedSoFar(s, S, l2, l3, k, i) ==
    /\ s \in Seq(S) /\ Len(s) <= k /\ IsInjective(s)
    /\ ToSet(s) \subseteq ToSet(l2) \union ToSet(l3)
    /\ Len(s) < k => \A j \in 1 .. i :
            /\ j <= Len(l2) => l2[j] \in ToSet(s)
            /\ j <= Len(l3) => l3[j] \in ToSet(s)

\* The larger of two numbers.
LEMMA MaxOfTwo ==
    ASSUME NEW i \in Nat, NEW j \in Nat
    PROVE  Max({i, j}) \in Nat /\ i <= Max({i, j}) /\ j <= Max({i, j})
<1>1. \E x \in {i, j} : \A y \in {i, j} : x >= y
  <2>1. CASE i >= j
    BY <2>1
  <2>2. CASE j >= i
    BY <2>2
  <2> QED
    BY <2>1, <2>2
<1>2. Max({i, j}) \in {i, j} /\ \A y \in {i, j} : Max({i, j}) >= y
  BY <1>1 DEF Max
<1> HIDE DEF Max
<1> QED
  BY <1>2

\* The fused list of any two lists.
LEMMA FusionLists ==
    ASSUME NEW S, NEW l2 \in Seq(S), NEW l3 \in Seq(S), NEW k \in Nat
    PROVE  LET r == Fuse(l2, l3, k)
               recalled == ToSet(l2) \union ToSet(l3)
           IN  /\ ToSet(r) \subseteq recalled
               /\ IsInjective(r)
               /\ Len(r) = Min({k, Cardinality(recalled)})
<1> DEFINE n == Max({Len(l2), Len(l3)})
           D == Seq(S)
           base == <<>>
           Step(i, x) == Add(l3, i, Add(l2, i, x, k), k)
           body(g) == [i \in 0 .. n |-> IF i = 0 THEN base ELSE Step(i, g[i - 1])]
           q == CHOOSE g : g = body(g)
<1>1. n \in Nat /\ base \in D
  BY MaxOfTwo
<1>2. \A i \in 1 .. n, x \in D : Step(i, x) \in D
  <2> SUFFICES ASSUME NEW i \in 1 .. n, NEW x \in D PROVE Step(i, x) \in D
    OBVIOUS
  <2>1. i \in Nat \ {0}
    BY <1>1
  <2> QED
    BY <2>1, AddFacts
<1>3. Fuse(l2, l3, k) = q[n]
  BY DEF Fuse
<1> HIDE DEF Step, D, n
<1>4. PICK f \in [0 .. n -> D] : Follows(f, n, base, [x \in (1 .. n) \X D |-> Step(x[1], x[2])])
  <2> DEFINE step == [x \in (1 .. n) \X D |-> Step(x[1], x[2])]
  <2>1. step \in [(1 .. n) \X D -> D]
    BY <1>2
  <2> HIDE DEF step, base
  <2>2. \E f \in [0 .. n -> D] : Follows(f, n, base, step)
    BY <1>1, <2>1, RecursionHasValue
  <2> QED
    BY <2>2 DEF step
<1>5. f = body(f)
  <2>1. f[0] = base /\ f = [i \in 0 .. n |-> f[i]]
    BY <1>4 DEF Follows
  <2>2. ASSUME NEW i \in 1 .. n PROVE f[i] = Step(i, f[i - 1])
    <3>1. i - 1 \in 0 .. n
      BY <1>1
    <3>2. f[i - 1] \in D
      BY <3>1
    <3> QED
      BY <1>4, <3>2 DEF Follows
  <2>3. \A i \in 0 .. n : i # 0 => i \in 1 .. n
    BY <1>1
  <2> HIDE DEF base
  <2>4. \A i \in 0 .. n : f[i] = body(f)[i]
    BY <2>1, <2>2, <2>3
  <2> QED
    BY <2>1, <2>4
<1>6. q = body(q)
  BY <1>5
<1>7. 0 \in 0 .. n /\ n \in 0 .. n /\ \A i \in 1 .. n : i \in 0 .. n /\ i # 0 /\ i - 1 \in 0 .. n
  BY <1>1
<1>8. q[0] = base /\ \A i \in 1 .. n : q[i] = Step(i, q[i - 1])
  <2> HIDE DEF q, base
  <2>1. \A i \in 0 .. n : q[i] = body(q)[i]
    BY <1>6
  <2>2. \A i \in 0 .. n : q[i] = IF i = 0 THEN base ELSE Step(i, q[i - 1])
    BY <2>1
  <2> QED
    BY <1>7, <2>2
<1>9. \A i \in 0 .. n : q[i] \in D
  <2> DEFINE P == {i \in 0 .. n : q[i] \in D}
  <2> HIDE DEF q, base
  <2>1. 0 \in P /\ \A i \in 1 .. n : i - 1 \in P => i \in P
    BY <1>1, <1>2, <1>7, <1>8
  <2> HIDE DEF P
  <2>2. \A i \in 0 .. n : i \in P
    BY <1>1, <2>1, StepByStep
  <2> QED
    BY <2>2 DEF P
<1> HIDE DEF q
<1> DEFINE F(i) == FusedSoFar(q[i], S, l2, l3, k, i)
<1>10. F(0)
  BY <1>8 DEF FusedSoFar, ToSet, IsInjective
<1>11. ASSUME NEW i \in 1 .. n, F(i - 1) PROVE F(i)
  <2> DEFINE s == q[i - 1]
             m == Add(l2, i, s, k)
             r == Add(l3, i, m, k)
  <2>1. q[i] = r
    BY <1>8 DEF Step
  <2>2. i \in Nat \ {0}
    BY <1>1
  <2>3. /\ s \in Seq(S) /\ Len(s) <= k /\ IsInjective(s)
        /\ ToSet(s) \subseteq ToSet(l2) \union ToSet(l3)
        /\ Len(s) < k => \A j \in 1 .. i - 1 :
                /\ j <= Len(l2) => l2[j] \in ToSet(s)
                /\ j <= Len(l3) => l3[j] \in ToSet(s)
    BY <1>11 DEF FusedSoFar
  <2> HIDE DEF s
  <2>4. /\ m \in Seq(S) /\ Len(s) <= Len(m) /\ Len(m) <= k /\ IsInjective(m)
        /\ ToSet(s) \subseteq ToSet(m) /\ ToSet(m) \subseteq ToSet(s) \union ToSet(l2)
        /\ Len(m) < k /\ i <= Len(l2) => l2[i] \in ToSet(m)
    BY <2>2, <2>3, AddFacts
  <2> HIDE DEF m
  <2>5. /\ r \in Seq(S) /\ Len(m) <= Len(r) /\ Len(r) <= k /\ IsInjective(r)
        /\ ToSet(m) \subseteq ToSet(r) /\ ToSet(r) \subseteq ToSet(m) \union ToSet(l3)
        /\ Len(r) < k /\ i <= Len(l3) => l3[i] \in ToSet(r)
    BY <2>2, <2>4, AddFacts
  <2> HIDE DEF r
  <2>6. Len(s) \in Nat /\ Len(m) \in Nat /\ Len(r) \in Nat
    BY <2>3, <2>4, <2>5
  <2>7. ASSUME Len(r) < k, NEW j \in 1 .. i
        PROVE  /\ j <= Len(l2) => l2[j] \in ToSet(r)
               /\ j <= Len(l3) => l3[j] \in ToSet(r)
    <3>1. Len(m) < k /\ Len(s) < k
      BY <2>4, <2>5, <2>6, <2>7
    <3>2. CASE j = i
      BY <2>4, <2>5, <2>7, <3>1, <3>2
    <3>3. CASE j # i
      <4>1. j \in 1 .. i - 1
        BY <1>1, <3>3
      <4> QED
        BY <2>3, <2>4, <2>5, <3>1, <4>1
    <3> QED
      BY <3>2, <3>3
  <2> QED
    BY <2>1, <2>3, <2>4, <2>5, <2>7 DEF FusedSoFar
<1>12. F(n)
  <2> DEFINE P == {i \in 0 .. n : F(i)}
  <2> HIDE DEF F
  <2>1. 0 \in P /\ \A i \in 1 .. n : i - 1 \in P => i \in P
    BY <1>7, <1>10, <1>11
  <2> HIDE DEF P
  <2>2. \A i \in 0 .. n : i \in P
    BY <1>1, <2>1, StepByStep
  <2> QED
    BY <1>7, <2>2 DEF P
<1> DEFINE r == q[n]
           recalled == ToSet(l2) \union ToSet(l3)
           c == Cardinality(recalled)
<1>13. /\ r \in Seq(S) /\ Len(r) \in Nat /\ Len(r) <= k /\ IsInjective(r)
       /\ ToSet(r) \subseteq recalled
  BY <1>12 DEF FusedSoFar
<1>14. IsFiniteSet(recalled) /\ c \in Nat
  BY CountElements, FS_Union, FS_CardinalityType
<1>15. Len(r) = Cardinality(ToSet(r))
  BY <1>13, CountElements
<1>16. Len(r) <= c
  BY <1>13, <1>14, <1>15, FS_Subset
<1>17. ASSUME Len(r) < k PROVE Len(r) = c
  <2>1. Len(l2) \in Nat /\ Len(l3) \in Nat /\ Len(l2) <= n /\ Len(l3) <= n
    BY MaxOfTwo DEF n
  <2>2. \A j \in 1 .. n : /\ j <= Len(l2) => l2[j] \in ToSet(r)
                          /\ j <= Len(l3) => l3[j] \in ToSet(r)
    BY <1>12, <1>17 DEF FusedSoFar
  <2> HIDE DEF r
  <2>3. ToSet(l2) \subseteq ToSet(r)
    <3>1. \A j \in 1 .. Len(l2) : j \in 1 .. n /\ j <= Len(l2)
      BY <1>1, <2>1
    <3>2. \A j \in 1 .. Len(l2) : l2[j] \in ToSet(r)
      BY <2>2, <3>1
    <3>3. ToSet(l2) = {l2[j] : j \in 1 .. Len(l2)}
      BY DEF ToSet
    <3> QED
      BY <3>2, <3>3
  <2>4. ToSet(l3) \subseteq ToSet(r)
    <3>1. \A j \in 1 .. Len(l3) : j \in 1 .. n /\ j <= Len(l3)
      BY <1>1, <2>1
    <3>2. \A j \in 1 .. Len(l3) : l3[j] \in ToSet(r)
      BY <2>2, <3>1
    <3>3. ToSet(l3) = {l3[j] : j \in 1 .. Len(l3)}
      BY DEF ToSet
    <3> QED
      BY <3>2, <3>3
  <2>5. ToSet(r) = recalled
    BY <1>13, <2>3, <2>4
  <2> QED
    BY <1>15, <2>5
<1>18. Len(r) = Min({k, c})
  <2> HIDE DEF r, c
  <2>1. Min({k, c}) = IF k <= c THEN k ELSE c
    BY <1>14, MinOfTwo
  <2> QED
    BY <1>13, <1>14, <1>16, <1>17, <2>1
<1> QED
  BY <1>3, <1>13, <1>18

\* The fused list of a retrieval is exact, whatever the ranking, the navigator
\* and the edges (HybridRetriever.retrieve).
THEOREM FusionStaysExact == Spec => []FusionIsExact
<1>1. StoreInv /\ GraphInv => FusionIsExact
  <2> SUFFICES ASSUME StoreInv, GraphInv, NEW b \in Branch, NEW k \in 1 .. MaxK,
                      NEW navigator \in Navigators, NEW query \in Queries,
                      NEW hits \in retrieve(b, k)
               PROVE  LET fused == hybrid_retrieve(b, hits, navigator, query, k)
                          recalled == ToSet(fused.l2) \union ToSet(fused.l3)
                      IN  /\ ToSet(fused.list) \subseteq recalled
                          /\ IsInjective(fused.list)
                          /\ Len(fused.list) = Min({k, Cardinality(recalled)})
    BY DEF FusionIsExact
  <2> DEFINE S == AnyId \union Node
             l2 == [j \in DOMAIN hits |-> entries[b][hits[j]].id]
             found == NavigateFrom(b, query.concepts, query.pattern)
             l3 == GraphRecall(navigator, found, k)
  <2>1. k \in Nat
    BY StoreAssumption
  <2>2. l2 \in Seq(S)
    <3>1. hits \in Seq(1 .. Len(entries[b]))
      BY <2>1, HitsAreLive
    <3>2. entries[b] \in Seq(Entry)
      BY OfBranch DEF Good
    <3>3. DOMAIN hits = 1 .. Len(hits) /\ Len(hits) \in Nat
      BY <3>1
    <3>4. ASSUME NEW j \in 1 .. Len(hits) PROVE entries[b][hits[j]].id \in S
      <4>1. hits[j] \in 1 .. Len(entries[b])
        BY <3>1
      <4>2. entries[b][hits[j]] \in Entry
        BY <3>2, <4>1
      <4> QED
        BY <4>2 DEF Entry
    <3> HIDE DEF S
    <3>5. l2 = [j \in 1 .. Len(hits) |-> entries[b][hits[j]].id]
      BY <3>3
    <3> HIDE DEF l2
    <3> QED
      BY <3>3, <3>4, <3>5
  <2>3. found \in Seq(Node)
    BY QueryAssumption, NavigateFromIsSeq
  <2> HIDE DEF found
  <2>4. l3 \in Seq(S)
    <3>1. CASE navigator = "pairs"
      BY <3>1 DEF GraphRecall
    <3>2. CASE navigator # "pairs"
      <4> DEFINE m == Min({k, Len(found)})
      <4>1. m \in 0 .. Len(found)
        BY <2>1, <2>3, MinOfTwo
      <4>2. l3 = SubSeq(found, 1, m)
        BY <3>2 DEF GraphRecall
      <4> HIDE DEF m, l3
      <4>3. l3 \in Seq(Node)
        BY <2>3, <4>1, <4>2
      <4> QED
        BY <4>3
    <3> QED
      BY <3>1, <3>2
  <2> HIDE DEF S, l2, l3
  <2>5. hybrid_retrieve(b, hits, navigator, query, k)
            = [l2 |-> l2, l3 |-> l3, list |-> Fuse(l2, l3, k)]
    BY DEF hybrid_retrieve, l2, l3, found
  <2> DEFINE fused == hybrid_retrieve(b, hits, navigator, query, k)
             list == Fuse(l2, l3, k)
             recalled == ToSet(l2) \union ToSet(l3)
  <2>6. ToSet(list) \subseteq recalled /\ IsInjective(list) /\ Len(list) = Min({k, Cardinality(recalled)})
    BY <2>1, <2>2, <2>4, FusionLists
  <2> HIDE DEF list
  <2>7. fused.l2 = l2 /\ fused.l3 = l3 /\ fused.list = list
    BY <2>5 DEF list
  <2> HIDE DEF fused
  <2>8. /\ ToSet(fused.list) \subseteq ToSet(fused.l2) \union ToSet(fused.l3)
        /\ IsInjective(fused.list)
        /\ Len(fused.list) = Min({k, Cardinality(ToSet(fused.l2) \union ToSet(fused.l3))})
    BY <2>6, <2>7
  <2> QED
    BY <2>8 DEF fused
<1> QED
  BY <1>1, StoreInvariant, GraphInvariant, PTL
=============================================================================
