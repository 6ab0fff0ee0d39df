--------------------------- MODULE WorkingMemory ---------------------------
(***************************************************************************)
(* WorkingMemoryWindow (memory_system/l1_working/sliding_window.py): the   *)
(* most recent turns of a session, older ones replaced by summaries.       *)
(* add_turn appends a turn and then compresses: first while the tokens     *)
(* exceed the threshold, then if there are still more than max_turns.      *)
(* Each compression calls the compressor, which may be a language model:   *)
(* the summary has any size, or the call raises and ends add_turn there.   *)
(* Texts are reduced to their token counts, turns to their identifiers.    *)
(***************************************************************************)
EXTENDS Integers, Sequences, FiniteSets, SequencesExt

CONSTANTS
    max_turns, token_threshold,
    SafetyLimit,    \* compressions in one relief loop (100 in the code)
    TurnTokens,     \* token counts a turn may have
    SummaryTokens,  \* token counts a summary may have: the length of its text
    MaxId           \* bound: number of turns added

ASSUME LimitAssumption ==
    max_turns \in Nat /\ token_threshold \in Nat /\ SafetyLimit \in Nat
ASSUME TokenAssumption == TurnTokens \subseteq Nat /\ SummaryTokens \subseteq Nat
ASSUME BoundAssumption == MaxId \in Nat

VARIABLES
    turns,      \* _turns: their identifiers and token counts, oldest first
    summaries,  \* _compressed_summaries: source_turn_ids and token counts
    next_id,    \* _next_turn_id
    safety,     \* iterations of the relief loop in this add_turn
    at          \* where add_turn is, or how the last one ended

windowVars == <<turns, summaries, next_id, safety, at>>

TurnEntry == [id : 1..MaxId, tokens : TurnTokens]
CompressedSummary == [ids : SUBSET (1..MaxId), tokens : SummaryTokens]

\* "returned" and "raised" are between calls, the others inside add_turn.
Idle == at \in {"returned", "raised"}
-----------------------------------------------------------------------------
WindowInit ==
    /\ turns = <<>>
    /\ summaries = <<>>
    /\ next_id = 1
    /\ safety = 0
    /\ at = "returned"

\* sum(t.token_count for t in s)
Tokens(s) ==
    LET sum[n \in 0 .. Len(s)] == IF n = 0 THEN 0 ELSE sum[n - 1] + s[n].tokens
    IN  sum[Len(s)]
total_tokens == Tokens(turns) + Tokens(summaries)

\* add_turn up to its first decision: the turn is appended.
AddTurn(n) ==
    /\ Idle
    /\ next_id <= MaxId
    /\ turns' = Append(turns, [id |-> next_id, tokens |-> n])
    /\ next_id' = next_id + 1
    /\ safety' = 0
    /\ at' = "relief"
    /\ UNCHANGED summaries

\* Fault: the slice keeps one of the turns that are summarised.
FaultyCompress(n, size) ==
    /\ summaries' = Append(summaries,
            [ids |-> {turns[i].id : i \in 1..n}, tokens |-> size])
    /\ turns' = SubSeq(turns, n, Len(turns))
    /\ UNCHANGED next_id

\* _compress_batch of the n oldest turns, nothing if there are none.
\* Identifiers are unique, so the filter on them leaves the turns that follow.
Compress(n, size) ==
    \/ /\ n = 0
       /\ UNCHANGED <<turns, summaries, next_id>>
    \/ /\ n > 0
       /\ summaries' = Append(summaries,
               [ids |-> {turns[i].id : i \in 1..n}, tokens |-> size])
       /\ turns' = SubSeq(turns, n + 1, Len(turns))
       /\ UNCHANGED next_id

\* How many turns the relief loop takes.  Fault: half of one turn is none.
FaultyHalf == Len(turns) \div 2
Half == IF Len(turns) < 2 THEN 1 ELSE Len(turns) \div 2

\* The condition of the while loop.
MustRelieve ==
    /\ turns # <<>>
    /\ total_tokens > token_threshold
    /\ safety < SafetyLimit

Relieve(size) ==
    /\ at = "relief" /\ MustRelieve
    /\ Compress(Half, size)
    /\ safety' = safety + 1
    /\ UNCHANGED at

Relieved ==
    /\ at = "relief" /\ ~MustRelieve
    /\ at' = "overflow"
    /\ UNCHANGED <<turns, summaries, next_id, safety>>

\* Fault: only one turn leaves the window, however many are too many.
FaultyShift(size) ==
    /\ at = "overflow" /\ Len(turns) > max_turns
    /\ Compress(1, size)
    /\ at' = "returned"
    /\ UNCHANGED safety

\* _compress_oldest_batch.
Shift(size) ==
    /\ at = "overflow" /\ Len(turns) > max_turns
    /\ Compress(Len(turns) - max_turns, size)
    /\ at' = "returned"
    /\ UNCHANGED safety

Fits ==
    /\ at = "overflow" /\ Len(turns) <= max_turns
    /\ at' = "returned"
    /\ UNCHANGED <<turns, summaries, next_id, safety>>

\* The compressor raises: nothing of its batch has changed, add_turn ends.
CompressorRaises ==
    /\ \/ at = "relief" /\ MustRelieve
       \/ at = "overflow" /\ Len(turns) > max_turns
    /\ at' = "raised"
    /\ UNCHANGED <<turns, summaries, next_id, safety>>

InAddTurn ==
    \/ \E size \in SummaryTokens : Relieve(size) \/ Shift(size)
    \/ Relieved
    \/ Fits
    \/ CompressorRaises

WindowNext == (\E n \in TurnTokens : AddTurn(n)) \/ InAddTurn

WindowSpec == WindowInit /\ [][WindowNext]_windowVars
-----------------------------------------------------------------------------
\* What get_context returns from: turns, then summaries, newest first.
Newest == Reverse(turns) \o Reverse(summaries)

\* Fault: an item that does not fit is skipped and older ones are still taken.
FaultyContext(limit) ==
    FoldLeft(LAMBDA r, x : IF Tokens(r) + x.tokens > limit THEN r ELSE Append(r, x),
             <<>>, Newest)

\* get_context(limit): as many as fit, up to the first that does not.
Context(limit) ==
    LET fits == {n \in 0..Len(Newest) : Tokens(SubSeq(Newest, 1, n)) <= limit}
    IN  SubSeq(Newest, 1, CHOOSE n \in fits : \A m \in fits : m <= n)

Ids(x) == IF "ids" \in DOMAIN x THEN x.ids ELSE {x.id}
-----------------------------------------------------------------------------
\* The types of the variables.
WindowTypeOK ==
    /\ turns \in Seq(TurnEntry)
    /\ summaries \in Seq(CompressedSummary)
    /\ next_id \in 1..(MaxId + 1)
    /\ safety \in 0..SafetyLimit
    /\ at \in {"relief", "overflow", "returned", "raised"}

\* The window holds the last turns, in order and without a gap ...
TurnsAreLatest ==
    \A i \in 1..Len(turns) : turns[i].id = next_id - 1 - Len(turns) + i

\* ... and every older turn is a source of exactly one summary, later turns of
\* later summaries: no turn is dropped or summarised twice, whichever of the
\* two triggers compressed it and wherever the compressor raised.
OlderTurnsSummarised ==
    /\ \A j \in 1..Len(summaries) :
        summaries[j].ids \subseteq 1..(next_id - 1 - Len(turns))
    /\ \A t \in 1..(next_id - 1 - Len(turns)) :
        \E j \in 1..Len(summaries) : t \in summaries[j].ids
    /\ \A i, j \in 1..Len(summaries) : i < j =>
        \A a \in summaries[i].ids, b \in summaries[j].ids : a < b

EveryTurnOnce == TurnsAreLatest /\ OlderTurnsSummarised

\* After an add_turn that returned, at most max_turns turns are left, also when
\* earlier calls raised and left the window too full.
WindowBounded == at = "returned" => Len(turns) <= max_turns

\* Whatever its limit, a context tells the conversation from some turn on
\* without a gap, although turns and summaries are kept in two lists and an
\* interrupted add_turn may have left either of them half way.
ContextHasNoGap ==
    Idle => \A limit \in 0..(total_tokens + 1) :
        LET told == UNION {Ids(x) : x \in Range(Context(limit))}
        IN  \E first \in 1..next_id : told = first..(next_id - 1)

\* The relief loop runs out of turns or is satisfied before the limit that would
\* end it early, whatever the compressor returns.
RelievedInTime == safety < SafetyLimit
=============================================================================
