-------------------------- MODULE AgentCoreProofs --------------------------
(***************************************************************************)
(* For any branches, messages, costs, budgets and rounds: wherever a turn  *)
(* ends, its budget, its memory, the mood and the consolidation fit.       *)
(***************************************************************************)
EXTENDS AgentCore, TLAPS

\* The phases before the turn is added to the window of its branch.
Before == {"navigate", "generate", "act", "remember"}

\* No branch counts more turns than there were, nor one that is not remembered.
CountsTurns ==
    \A b \in Branch : /\ turn_count[b] <= now
                      /\ phase \in Before => turn_count[b] < now

IInv == TypeOK /\ CountsTurns

USE DEF given

\* Facts about the log that a turn in progress may rely on.
LEMMA TurnInProgress ==
    ASSUME TypeOK, phase # "idle"
    PROVE  /\ now \in Nat /\ now \in 1..Len(log) /\ now \in Turn
           /\ log[now] \in Entry
           /\ branch \in Branch /\ message \in Message
           /\ log[now].end = "none"
<1>1. now \in Nat /\ now # 0 /\ now <= MaxTurns /\ log[now].end = "none"
  BY DEF TypeOK, now
<1>2. now \in 1..Len(log) /\ now \in Turn
  BY <1>1, NumberAssumption DEF now, Turn
<1>3. log[now] \in Entry
  BY <1>2 DEF TypeOK
<1> QED
  BY <1>1, <1>2, <1>3 DEF Entry, branch, message

\* Writing down how a turn ended changes nothing else in the log.
LEMMA EndedKeepsLog ==
    ASSUME TypeOK, phase # "idle", NEW end \in End, Ended(end)
    PROVE  /\ log' \in Seq(Entry) /\ now' = now /\ phase' = "idle"
           /\ log'[now].end = end
           /\ \A t \in 1..now : t # now => log'[t] = log[t]
           /\ \A t \in 1..now : /\ log'[t].branch = log[t].branch
                                /\ log'[t].message = log[t].message
                                /\ log'[t].moved = log[t].moved
<1> DEFINE e == [log[now] EXCEPT !.end = end]
<1>1. log \in Seq(Entry) /\ now \in 1..Len(log) /\ log[now] \in Entry
  BY TurnInProgress DEF TypeOK
<1>2. e \in Entry /\ e.end = end /\ e.branch = log[now].branch
      /\ e.message = log[now].message /\ e.moved = log[now].moved
  BY <1>1 DEF Entry
<1>3. log' = [log EXCEPT ![now] = e]
  BY DEF Ended
<1> HIDE DEF e
<1>4. log' \in Seq(Entry) /\ Len(log') = Len(log) /\ log'[now] = e
      /\ \A t \in 1..now : t # now => log'[t] = log[t]
  BY <1>1, <1>2, <1>3 DEF now
<1> QED
  BY <1>2, <1>4 DEF Ended, now

\* Nor does writing down whether it moved the body.
LEMMA MovedKeepsLog ==
    ASSUME TypeOK, phase # "idle", NEW moved \in Moved,
           log' = [log EXCEPT ![now].moved = moved]
    PROVE  /\ log' \in Seq(Entry) /\ now' = now
           /\ \A t \in 1..now : t # now => log'[t] = log[t]
           /\ \A t \in 1..now : /\ log'[t].branch = log[t].branch
                                /\ log'[t].message = log[t].message
                                /\ log'[t].end = log[t].end
<1> DEFINE e == [log[now] EXCEPT !.moved = moved]
<1>1. log \in Seq(Entry) /\ now \in 1..Len(log) /\ log[now] \in Entry
  BY TurnInProgress DEF TypeOK
<1>2. e \in Entry /\ e.end = log[now].end /\ e.branch = log[now].branch
      /\ e.message = log[now].message
  BY <1>1 DEF Entry
<1>3. log' = [log EXCEPT ![now] = e]
  OBVIOUS
<1> HIDE DEF e
<1>4. log' \in Seq(Entry) /\ Len(log') = Len(log) /\ log'[now] = e
      /\ \A t \in 1..now : t # now => log'[t] = log[t]
  BY <1>1, <1>2, <1>3 DEF now
<1> QED
  BY <1>2, <1>4 DEF now

\* Nor does an exception, which may leave a movement cut short behind.
LEMMA RaisesKeepsLog ==
    ASSUME TypeOK, Raises
    PROVE  /\ log' \in Seq(Entry) /\ now' = now /\ phase' = "idle"
           /\ log'[now].end = "error" /\ log'[now].moved \in CutShort
           /\ \A t \in 1..now : t # now => log'[t] = log[t]
           /\ \A t \in 1..now : /\ log'[t].branch = log[t].branch
                                /\ log'[t].message = log[t].message
<1>1. PICK moved \in CutShort :
          log' = [log EXCEPT ![now].end = "error", ![now].moved = moved]
  BY DEF Raises
<1> DEFINE e == [log[now] EXCEPT !.end = "error", !.moved = moved]
<1>2. log \in Seq(Entry) /\ now \in 1..Len(log) /\ log[now] \in Entry
  BY TurnInProgress DEF TypeOK, Raises
<1>3. e \in Entry /\ e.end = "error" /\ e.moved = moved /\ e.branch = log[now].branch
      /\ e.message = log[now].message
  BY <1>2 DEF Entry, End, CutShort, Moved
<1>4. log' = [log EXCEPT ![now] = e]
  BY <1>1, <1>2 DEF Entry
<1> HIDE DEF e
<1>5. log' \in Seq(Entry) /\ Len(log') = Len(log) /\ log'[now] = e
      /\ \A t \in 1..now : t # now => log'[t] = log[t]
  BY <1>2, <1>3, <1>4 DEF now
<1> QED
  BY <1>3, <1>5 DEF Raises, now

\* A new turn is added to the log.
LEMMA RunTurnLog ==
    ASSUME TypeOK, NEW b \in Branch, NEW m \in Message, RunTurn(b, m)
    PROVE  /\ log' \in Seq(Entry) /\ now' = now + 1 /\ now' <= MaxTurns /\ now \in Nat
           /\ \A t \in 1..now : log'[t] = log[t]
           /\ log'[now + 1].branch = b /\ log'[now + 1].message = m
           /\ log'[now + 1].moved = "no"
           /\ \/ phase' \in {"navigate", "generate"} /\ log'[now + 1].end = "none"
              \/ phase' = "idle" /\ log'[now + 1].end = "throttled"
           /\ phase' = "generate" => ~Throttled(b)
           /\ emotion' = Felt(m)
<1> DEFINE e(end) == [branch |-> b, message |-> m, end |-> end, moved |-> "no"]
<1>1. log \in Seq(Entry) /\ now \in Nat /\ now = Len(log) /\ now < MaxTurns /\ MaxTurns \in Nat
  BY NumberAssumption DEF TypeOK, now, RunTurn
<1>2. e("none") \in Entry /\ e("throttled") \in Entry
  BY DEF Entry, End, Moved
<1>3. PICK end \in {"none", "throttled"} :
          /\ log' = Append(log, e(end))
          /\ \/ phase' \in {"navigate", "generate"} /\ end = "none"
             \/ phase' = "idle" /\ end = "throttled"
          /\ phase' = "generate" => ~Throttled(b)
  BY DEF RunTurn
<1>4. e(end) \in Entry /\ e(end).branch = b /\ e(end).message = m /\ e(end).end = end
      /\ e(end).moved = "no"
  BY <1>2, <1>3
<1> HIDE DEF e
<1>5. log' \in Seq(Entry) /\ Len(log') = Len(log) + 1 /\ log'[Len(log) + 1] = e(end)
      /\ \A t \in 1..Len(log) : log'[t] = log[t]
  BY <1>1, <1>3, <1>4
<1> QED
  BY <1>1, <1>3, <1>4, <1>5 DEF now, RunTurn

-----------------------------------------------------------------------------
(***************************************************************************)
(* Types.                                                                  *)
(***************************************************************************)

LEMMA InitIInv == Init => IInv
<1> SUFFICES ASSUME Init PROVE IInv
  OBVIOUS
<1>1. now = 0 /\ phase = "idle" /\ log \in Seq(Entry)
  BY DEF Init, now
<1>2. TypeOK
  BY <1>1, NumberAssumption, PersonaAssumption DEF Init, TypeOK, Mood
<1>3. CountsTurns
  BY <1>1 DEF Init, CountsTurns, Before
<1> QED
  BY <1>2, <1>3 DEF IInv

\* The turn is in the window of its branch.
LEMMA WindowType ==
    ASSUME TypeOK, phase # "idle", windows' = [windows EXCEPT ![branch] = Append(@, now)]
    PROVE  windows' \in [Branch -> Seq(Turn)]
<1>1. branch \in Branch /\ now \in Turn
  BY TurnInProgress
<1>2. windows \in [Branch -> Seq(Turn)]
  BY DEF TypeOK
<1>3. Append(windows[branch], now) \in Seq(Turn)
  BY <1>1, <1>2
<1> QED
  BY <1>1, <1>2, <1>3

\* A turn that ends without being counted.
LEMMA EndedKeepsIInv ==
    ASSUME IInv, phase # "idle", NEW end \in End, Ended(end),
           UNCHANGED <<emotion, tokens_used, turn_count, given, persona_id>>,
           windows' \in [Branch -> Seq(Turn)], episodes' \subseteq Turn,
           last_trigger' \in [Branch -> 0..MaxTurns], declined' \in [Branch -> 0..MaxTurns]
    PROVE  IInv'
<1>1. /\ log' \in Seq(Entry) /\ now' = now /\ phase' = "idle"
      /\ log'[now].end = end /\ end # "none"
  BY EndedKeepsLog DEF IInv, End
<1>2. TypeOK'
  BY <1>1 DEF IInv, TypeOK
<1>3. CountsTurns'
  BY <1>1 DEF IInv, CountsTurns, Before
<1> QED
  BY <1>2, <1>3 DEF IInv

LEMMA RunTurnKeepsIInv ==
    ASSUME IInv, NEW b \in Branch, NEW m \in Message, RunTurn(b, m)
    PROVE  IInv'
<1>1. /\ log' \in Seq(Entry) /\ now' = now + 1 /\ now' <= MaxTurns /\ now \in Nat
      /\ \/ phase' \in {"navigate", "generate"} /\ log'[now + 1].end = "none"
         \/ phase' = "idle" /\ log'[now + 1].end = "throttled"
      /\ emotion' = Felt(m)
  BY RunTurnLog DEF IInv
<1>2. emotion' \in Mood
  BY <1>1, MessageAssumption DEF IInv, TypeOK, Felt
<1>3. UNCHANGED <<tokens_used, windows, episodes, turn_count, last_trigger, declined, given,
                      persona_id>>
  BY DEF RunTurn
<1>4. phase' = "idle" <=> (now' = 0 \/ log'[now'].end # "none")
  BY <1>1
<1>5. TypeOK'
  BY <1>1, <1>2, <1>3, <1>4 DEF IInv, TypeOK
<1>6. CountsTurns'
  <2>1. \A x \in Branch : turn_count[x] \in Int /\ turn_count[x] <= now
    BY DEF IInv, TypeOK, CountsTurns
  <2> QED
    BY <1>1, <1>3, <2>1 DEF CountsTurns
<1> QED
  BY <1>5, <1>6 DEF IInv

\* A step from one call of a turn to the next, before the turn is counted.
LEMMA ForwardKeepsIInv ==
    ASSUME IInv, phase \in Before, phase' \in Before,
           tokens_used' \in [Branch -> Nat],
           UNCHANGED <<emotion, windows, episodes, turn_count, last_trigger, declined, given,
                      persona_id>>,
           \/ UNCHANGED log
           \/ \E moved \in Moved : log' = [log EXCEPT ![now].moved = moved]
    PROVE  IInv'
<1>1. /\ log' \in Seq(Entry) /\ now' = now
      /\ \A t \in 1..now : log'[t].end = log[t].end
  BY MovedKeepsLog DEF IInv, TypeOK, now, Before
<1>2. now \in 1..Len(log) /\ now \in Nat /\ log[now].end = "none"
  BY TurnInProgress DEF IInv, Before
<1>3. log'[now].end = "none" /\ now # 0
  BY <1>1, <1>2 DEF now
<1>4. TypeOK'
  BY <1>1, <1>3 DEF IInv, TypeOK, Before
<1>5. CountsTurns'
  BY <1>1 DEF IInv, CountsTurns
<1> QED
  BY <1>4, <1>5 DEF IInv

LEMMA GenerateKeepsIInv ==
    ASSUME IInv, NEW n \in TurnTokens, Generate(n)
    PROVE  IInv'
<1>1. n \in Nat /\ branch \in Branch
  BY NumberAssumption, TurnInProgress DEF IInv, Generate
<1>2. tokens_used' \in [Branch -> Nat]
  BY <1>1 DEF IInv, TypeOK, Generate
<1> QED
  BY <1>2, ForwardKeepsIInv DEF Generate, Before

LEMMA RememberKeepsIInv ==
    ASSUME IInv, Remember
    PROVE  IInv'
<1>1. windows' \in [Branch -> Seq(Turn)] /\ episodes \subseteq Turn
      /\ last_trigger \in [Branch -> 0..MaxTurns] /\ declined \in [Branch -> 0..MaxTurns]
  BY WindowType DEF IInv, TypeOK, Remember
<1>2. CASE agent = "none"
  <2>1. Ended("reply") /\ UNCHANGED turn_count
    BY <1>2 DEF Remember
  <2> QED
    BY <1>1, <2>1, EndedKeepsIInv DEF Remember, End
<1>3. CASE agent # "none"
  <2>1. /\ turn_count' = [turn_count EXCEPT ![branch] = @ + 1]
        /\ phase' = "schedule" /\ UNCHANGED log /\ now' = now
        /\ UNCHANGED <<emotion, tokens_used, episodes, last_trigger, declined, given, persona_id>>
    BY <1>3 DEF Remember, now
  <2>2. branch \in Branch /\ now \in Turn /\ log[now].end = "none" /\ now # 0
        /\ now \in Nat /\ now <= MaxTurns
    BY TurnInProgress DEF IInv, Remember, TypeOK, Turn
  <2>3. /\ turn_count \in [Branch -> 0..MaxTurns]
        /\ \A b \in Branch : turn_count[b] < now
    BY DEF IInv, TypeOK, CountsTurns, Remember, Before
  <2>4. /\ turn_count' \in [Branch -> 0..MaxTurns]
        /\ \A b \in Branch : turn_count'[b] <= now
    <3>1. \A b \in Branch : turn_count[b] \in 0..MaxTurns
                              /\ turn_count'[b] \in {turn_count[b], turn_count[b] + 1}
      BY <2>1, <2>2, <2>3
    <3>2. \A b \in Branch : turn_count'[b] \in 0..MaxTurns /\ turn_count'[b] <= now
      BY <2>2, <2>3, <3>1, NumberAssumption
    <3> QED
      BY <2>1, <2>3, <3>2
  <2>5. TypeOK'
    BY <1>1, <2>1, <2>2, <2>4 DEF IInv, TypeOK
  <2>6. CountsTurns'
    BY <2>1, <2>4 DEF CountsTurns, Before
  <2> QED
    BY <2>5, <2>6 DEF IInv
<1> QED
  BY <1>2, <1>3

LEMMA StepKeepsIInv == IInv /\ [Next]_vars => IInv'
<1> SUFFICES ASSUME IInv, [Next]_vars PROVE IInv'
  OBVIOUS
<1> USE DEF End
<1>0. /\ windows \in [Branch -> Seq(Turn)] /\ episodes \subseteq Turn
      /\ last_trigger \in [Branch -> 0..MaxTurns] /\ declined \in [Branch -> 0..MaxTurns]
      /\ tokens_used \in [Branch -> Nat]
  BY DEF IInv, TypeOK
<1>1. ASSUME NEW b \in Branch, NEW m \in Message, RunTurn(b, m) PROVE IInv'
  BY <1>1, RunTurnKeepsIInv
<1>2. CASE Navigate
  BY <1>0, <1>2, ForwardKeepsIInv DEF Navigate, Moved, Before
<1>3. CASE Act
  BY <1>0, <1>3, ForwardKeepsIInv DEF Act, Executed, Moved, Before
<1>4. CASE Raises
  <2>1. /\ log' \in Seq(Entry) /\ now' = now /\ phase' = "idle" /\ log'[now].end = "error"
    BY <1>4, RaisesKeepsLog DEF IInv
  <2>2. UNCHANGED <<emotion, tokens_used, windows, episodes, turn_count, last_trigger,
                    declined, given, persona_id>>
    BY <1>4 DEF Raises
  <2>3. TypeOK'
    BY <2>1, <2>2 DEF IInv, TypeOK
  <2>4. CountsTurns'
    BY <2>1, <2>2 DEF IInv, CountsTurns, Before
  <2> QED
    BY <2>3, <2>4 DEF IInv
<1>5. ASSUME NEW n \in TurnTokens, Generate(n) PROVE IInv'
  BY <1>5, GenerateKeepsIInv
<1>6. CASE RememberNavigation
  <2>1. windows' \in [Branch -> Seq(Turn)] /\ now \in Turn
    BY <1>6, WindowType, TurnInProgress DEF IInv, RememberNavigation
  <2>2. episodes' \subseteq Turn
    BY <1>0, <1>6, <2>1 DEF RememberNavigation
  <2> QED
    BY <1>0, <1>6, <2>1, <2>2, EndedKeepsIInv DEF RememberNavigation
<1>7. CASE Remember
  BY <1>7, RememberKeepsIInv
<1>8. CASE RememberRaises
  <2>1. windows' \in [Branch -> Seq(Turn)]
    BY <1>8, WindowType DEF IInv, RememberRaises
  <2> QED
    BY <1>0, <1>8, <2>1, EndedKeepsIInv DEF RememberRaises
<1>9. CASE NotDue
  BY <1>0, <1>9, EndedKeepsIInv DEF NotDue
<1>10. CASE Consolidate
  <2>1. turn_count[branch] \in 0..MaxTurns
    BY <1>10, TurnInProgress DEF IInv, TypeOK, Consolidate
  <2>2. last_trigger' \in [Branch -> 0..MaxTurns]
    BY <1>0, <1>10, <2>1 DEF Consolidate
  <2> QED
    BY <1>0, <1>10, <2>2, EndedKeepsIInv DEF Consolidate
<1>11. CASE Declines
  <2>1. turn_count[branch] \in 0..MaxTurns
    BY <1>11, TurnInProgress DEF IInv, TypeOK, Declines
  <2>2. declined' \in [Branch -> 0..MaxTurns]
    BY <1>0, <1>11, <2>1 DEF Declines
  <2> QED
    BY <1>0, <1>11, <2>2, EndedKeepsIInv DEF Declines
<1>12. ASSUME NEW persona \in Persona, SwitchPersona(persona) PROVE IInv'
  BY <1>12 DEF SwitchPersona, IInv, TypeOK, CountsTurns, now
<1>13. CASE UNCHANGED vars
  BY <1>13 DEF vars, IInv, TypeOK, CountsTurns, now
<1> QED
  BY <1>1, <1>2, <1>3, <1>4, <1>5, <1>6, <1>7, <1>8, <1>9, <1>10, <1>11, <1>12, <1>13
     DEF Next

\* The strengthening the other proofs rest on: types, and counts that never run
\* ahead of the turns there were.
THEOREM InductiveInvariant == Spec => []IInv
<1>1. Init => IInv
  BY InitIInv
<1>2. IInv /\ [Next]_vars => IInv'
  BY StepKeepsIInv
<1> QED
  BY <1>1, <1>2, PTL DEF Spec

\* The variables keep their types whatever call of a turn raises, and run_turn
\* is between calls exactly when its last turn has ended.
THEOREM TypeCorrect == Spec => []TypeOK
<1>1. IInv => TypeOK
  BY DEF IInv
<1> QED
  BY <1>1, InductiveInvariant, PTL

-----------------------------------------------------------------------------
(***************************************************************************)
(* The budget: a branch whose turn is at the model was within it before.   *)
(***************************************************************************)

WithinBudget == phase = "generate" => ~Throttled(branch)

LEMMA StepKeepsBudget ==
    ASSUME IInv, BudgetOvershotOnce, WithinBudget, [Next]_vars
    PROVE  BudgetOvershotOnce' /\ WithinBudget'
<1>1. ASSUME NEW b \in Branch, NEW m \in Message, RunTurn(b, m)
      PROVE  BudgetOvershotOnce' /\ WithinBudget'
  <2>1. /\ now' = now + 1 /\ log'[now + 1].branch = b
        /\ phase' = "generate" => ~Throttled(b)
    BY <1>1, RunTurnLog DEF IInv
  <2>2. UNCHANGED tokens_used
    BY <1>1 DEF RunTurn
  <2> QED
    BY <2>1, <2>2 DEF BudgetOvershotOnce, WithinBudget, Throttled, branch
<1>2. ASSUME NEW n \in TurnTokens, Generate(n)
      PROVE  BudgetOvershotOnce' /\ WithinBudget'
  <2>1. /\ n \in Nat /\ TokenBudget \in Nat /\ branch \in Branch
        /\ tokens_used \in [Branch -> Nat]
    BY <1>2, NumberAssumption, TurnInProgress DEF IInv, TypeOK, Generate
  <2>2. tokens_used[branch] < TokenBudget /\ phase' = "act"
        /\ tokens_used' = [tokens_used EXCEPT ![branch] = @ + n]
    BY <1>2, <2>1 DEF Generate, WithinBudget, Throttled
  <2>3. tokens_used'[branch] < TokenBudget + n
    BY <2>1, <2>2
  <2>4. \A b \in Branch : b # branch => tokens_used'[b] = tokens_used[b]
    BY <2>1, <2>2
  <2> QED
    BY <2>2, <2>3, <2>4 DEF BudgetOvershotOnce, WithinBudget
<1>3. ASSUME UNCHANGED tokens_used, phase' # "generate"
      PROVE  BudgetOvershotOnce' /\ WithinBudget'
  BY <1>3 DEF BudgetOvershotOnce, WithinBudget
<1>4. CASE UNCHANGED vars
  BY <1>4 DEF vars, BudgetOvershotOnce, WithinBudget, Throttled, branch, now
<1> QED
  BY <1>1, <1>2, <1>3, <1>4
     DEF Next, Navigate, Act, Raises, RememberNavigation, Remember, RememberRaises,
         NotDue, Consolidate, Declines, SwitchPersona, Ended

\* No branch overspends its budget by more than one turn: run_turn checks the
\* budget before the model is called and adds the cost after.
THEOREM BudgetHolds == Spec => []BudgetOvershotOnce
<1>1. Init => BudgetOvershotOnce /\ WithinBudget
  BY DEF Init, BudgetOvershotOnce, WithinBudget
<1>2. IInv /\ BudgetOvershotOnce /\ WithinBudget /\ [Next]_vars
        => (BudgetOvershotOnce /\ WithinBudget)'
  BY StepKeepsBudget
<1> QED
  BY <1>1, <1>2, InductiveInvariant, PTL DEF Spec

-----------------------------------------------------------------------------
(***************************************************************************)
(* The scheduler: only the branch whose turn was just counted may be due.  *)
(***************************************************************************)

Waiting(b) == turn_count[b] - last_trigger[b]

\* The branch is within its round, or its agent was asked at its last turn.
Served(b) ==
    /\ Waiting(b) < TriggerRounds \/ declined[b] = turn_count[b]
    /\ agent = "SimpleInsightEngine" =>
            Waiting(b) < TriggerRounds \/ Waiting(b) < EngineRounds

NobodyWaits == \A b \in Branch : phase # "schedule" \/ b # branch => Served(b)

LEMMA StepKeepsWaits ==
    ASSUME IInv, NobodyWaits, [Next]_vars
    PROVE  NobodyWaits'
<1>0. /\ TriggerRounds \in Nat /\ TriggerRounds > 0 /\ EngineRounds \in Nat
      /\ turn_count \in [Branch -> 0..MaxTurns] /\ last_trigger \in [Branch -> 0..MaxTurns]
      /\ declined \in [Branch -> 0..MaxTurns]
      /\ \A b \in Branch : turn_count[b] \in Int /\ last_trigger[b] \in Int
  BY NumberAssumption DEF IInv, TypeOK
<1>1. ASSUME phase # "schedule", phase' # "schedule",
             UNCHANGED <<turn_count, last_trigger, declined, agent>>
      PROVE  NobodyWaits'
  BY <1>1 DEF NobodyWaits, Served, Waiting
<1>2. CASE Remember /\ agent # "none"
  <2>1. /\ turn_count' = [turn_count EXCEPT ![branch] = @ + 1]
        /\ branch' = branch /\ branch \in Branch /\ phase' = "schedule"
        /\ UNCHANGED <<last_trigger, declined, agent>>
    BY <1>2, TurnInProgress DEF Remember, IInv, branch, now
  <2>2. \A b \in Branch : b # branch => turn_count'[b] = turn_count[b]
    BY <1>0, <2>1
  <2>3. ASSUME NEW b \in Branch, b # branch PROVE Served(b)'
    BY <1>2, <2>1, <2>2, <2>3 DEF NobodyWaits, Served, Waiting, Remember
  <2> QED
    BY <2>1, <2>3 DEF NobodyWaits
<1>4. phase = "schedule" => branch \in Branch
  BY TurnInProgress DEF IInv
<1>5. CASE NotDue
  <2>1. turn_count[branch] - last_trigger[branch] < TriggerRounds
    BY <1>0, <1>4, <1>5 DEF NotDue, Due
  <2>2. /\ phase' = "idle"
        /\ UNCHANGED <<turn_count, last_trigger, declined, agent>>
    BY <1>5 DEF NotDue, Ended
  <2>3. ASSUME NEW b \in Branch PROVE Served(b)'
    <3>1. CASE b = branch
      <4>1. turn_count[b] - last_trigger[b] < TriggerRounds
        BY <2>1, <3>1
      <4> QED
        BY <2>2, <4>1 DEF Served, Waiting
    <3>2. CASE b # branch
      BY <2>2, <3>2 DEF NobodyWaits, Served, Waiting
    <3> QED
      BY <3>1, <3>2
  <2> QED
    BY <2>3 DEF NobodyWaits
<1>6. CASE Consolidate
  <2>1. /\ last_trigger' = [last_trigger EXCEPT ![branch] = turn_count[branch]]
        /\ branch \in Branch /\ phase = "schedule" /\ phase' = "idle"
        /\ UNCHANGED <<turn_count, agent, declined>>
    BY <1>4, <1>6 DEF Consolidate, Ended
  <2>2. \A b \in Branch :
          /\ b = branch => last_trigger'[b] = turn_count[b]
          /\ b # branch => last_trigger'[b] = last_trigger[b]
    BY <1>0, <2>1
  <2>3. turn_count'[branch] - last_trigger'[branch] < TriggerRounds
    BY <1>0, <2>1, <2>2
  <2>4. \A b \in Branch : b = branch => turn_count'[b] - last_trigger'[b] < TriggerRounds
    BY <2>3
  <2>5. ASSUME NEW b \in Branch PROVE Served(b)'
    BY <2>1, <2>2, <2>4 DEF NobodyWaits, Served, Waiting
  <2> QED
    BY <2>5 DEF NobodyWaits
<1>7. CASE Declines
  <2>1. /\ declined' = [declined EXCEPT ![branch] = turn_count[branch]]
        /\ branch \in Branch /\ phase = "schedule" /\ phase' = "idle"
        /\ UNCHANGED <<turn_count, agent, last_trigger>>
    BY <1>4, <1>7 DEF Declines, Ended
  <2>2. \A b \in Branch :
          /\ b = branch => declined'[b] = turn_count[b]
          /\ b # branch => declined'[b] = declined[b]
    BY <1>0, <2>1
  <2>3. agent = "SimpleInsightEngine" =>
            turn_count[branch] - last_trigger[branch] < EngineRounds
    <3>1. agent = "SimpleInsightEngine" =>
            ~(turn_count[branch] - last_trigger[branch] >= EngineRounds)
      BY <1>7 DEF Declines, Answers
    <3> QED
      BY <1>0, <2>1, <3>1
  <2>4. ASSUME NEW b \in Branch PROVE Served(b)'
    <3>1. CASE b = branch
      BY <2>1, <2>2, <2>3, <3>1 DEF Served, Waiting
    <3>2. CASE b # branch
      BY <2>1, <2>2, <3>2 DEF NobodyWaits, Served, Waiting
    <3> QED
      BY <3>1, <3>2
  <2> QED
    BY <2>4 DEF NobodyWaits
<1>8. CASE UNCHANGED vars
  BY <1>8 DEF vars, NobodyWaits, Served, Waiting, branch, now
<1>9. ASSUME NEW b \in Branch, NEW m \in Message, RunTurn(b, m) PROVE NobodyWaits'
  BY <1>1, <1>9 DEF RunTurn
<1>10. CASE \/ Navigate \/ Act \/ Raises \/ RememberNavigation \/ RememberRaises
            \/ \E n \in TurnTokens : Generate(n)
            \/ \E persona \in Persona : SwitchPersona(persona)
  BY <1>1, <1>10 DEF Navigate, Act, Raises, RememberNavigation, RememberRaises,
                     Generate, SwitchPersona, Ended
<1>11. CASE Remember /\ agent = "none"
  BY <1>1, <1>11 DEF Remember, Ended
<1> QED
  BY <1>2, <1>5, <1>6, <1>7, <1>8, <1>9, <1>10, <1>11 DEF Next

\* No branch waits for a consolidation longer than a round without its agent being
\* asked at every turn from then on, and SimpleInsightEngine agrees when both
\* thresholds are reached, whatever maybe_trigger finds between the turns of other
\* branches.
THEOREM ConsolidationComes == Spec => []ConsolidatedInTime
<1>1. Init => NobodyWaits
  BY NumberAssumption DEF Init, NobodyWaits, Served, Waiting
<1>2. IInv /\ NobodyWaits /\ [Next]_vars => NobodyWaits'
  BY StepKeepsWaits
<1>3. NobodyWaits => ConsolidatedInTime
  BY DEF NobodyWaits, Served, Waiting, ConsolidatedInTime
<1> QED
  BY <1>1, <1>2, <1>3, InductiveInvariant, PTL DEF Spec

-----------------------------------------------------------------------------
(***************************************************************************)
(* The mood.  A turn in progress writes in its own entry of the log only,  *)
(* and there neither branch nor message.                                   *)
(***************************************************************************)

LEMMA OtherStepsLog ==
    ASSUME IInv, [Next]_vars, ~\E b \in Branch, m \in Message : RunTurn(b, m)
    PROVE  /\ now' = now /\ emotion' = emotion
           /\ \A t \in 1..now : /\ log'[t].branch = log[t].branch
                                /\ log'[t].message = log[t].message
                                /\ t # now => log'[t] = log[t]
<1>0. CASE Raises
  BY <1>0, RaisesKeepsLog DEF IInv, Raises
<1>1. CASE \/ RememberNavigation \/ RememberRaises \/ NotDue
           \/ Consolidate \/ Declines
  <2>1. phase # "idle" /\ emotion' = emotion /\ \E end \in End : Ended(end)
    BY <1>1 DEF RememberNavigation, RememberRaises, NotDue, Consolidate,
                Declines, End
  <2> QED
    BY <2>1, EndedKeepsLog DEF IInv
<1>2. CASE Navigate \/ Act
  <2>1. /\ phase # "idle" /\ emotion' = emotion
        /\ \E moved \in Moved : log' = [log EXCEPT ![now].moved = moved]
    BY <1>2 DEF Navigate, Act, Executed, Moved
  <2> QED
    BY <2>1, MovedKeepsLog DEF IInv
<1>3. CASE Remember
  <2>1. CASE agent = "none"
    <3>1. Ended("reply") /\ phase # "idle" /\ emotion' = emotion
      BY <1>3, <2>1 DEF Remember
    <3> QED
      BY <3>1, EndedKeepsLog DEF IInv, End
  <2>2. CASE agent # "none"
    BY <1>3, <2>2 DEF Remember, now
  <2> QED
    BY <2>1, <2>2
<1>4. CASE \/ UNCHANGED vars
           \/ \E n \in TurnTokens : Generate(n)
           \/ \E persona \in Persona : SwitchPersona(persona)
  BY <1>4 DEF vars, Generate, SwitchPersona, now
<1> QED
  BY <1>0, <1>1, <1>2, <1>3, <1>4 DEF Next

LEMMA StepKeepsMood ==
    ASSUME IInv, MoodIsRecent, [Next]_vars
    PROVE  MoodIsRecent'
<1> SUFFICES ASSUME emotion' # "NEUTRAL"
             PROVE  \E t \in 1..now' :
                      /\ log'[t].message.mood = emotion'
                      /\ \A u \in (t + 1)..now' :
                            /\ log'[u].message.mood = "NEUTRAL"
                            /\ log'[u].message.blank \/ log'[u].message.command
  BY DEF MoodIsRecent
<1>0. now \in Nat
  BY DEF IInv, TypeOK, now
<1>1. CASE \E b \in Branch, m \in Message : RunTurn(b, m)
  <2>1. PICK b \in Branch, m \in Message : RunTurn(b, m)
    BY <1>1
  <2>2. /\ now' = now + 1 /\ log'[now + 1].message = m /\ emotion' = Felt(m)
        /\ \A t \in 1..now : log'[t] = log[t]
    BY <2>1, RunTurnLog DEF IInv
  <2>3. CASE m.mood = emotion'
    BY <1>0, <2>2, <2>3
  <2>4. CASE m.mood # emotion'
    <3>1. /\ emotion' = emotion /\ m.mood = "NEUTRAL"
          /\ m.blank \/ m.command
      BY <2>2, <2>4 DEF Felt
    <3>2. PICK t \in 1..now :
            /\ log[t].message.mood = emotion
            /\ \A u \in (t + 1)..now :
                  /\ log[u].message.mood = "NEUTRAL"
                  /\ log[u].message.blank \/ log[u].message.command
      BY <3>1 DEF MoodIsRecent
    <3>3. ASSUME NEW u \in (t + 1)..(now + 1)
          PROVE  /\ log'[u].message.mood = "NEUTRAL"
                 /\ log'[u].message.blank \/ log'[u].message.command
      <4>1. CASE u = now + 1
        BY <2>2, <3>1, <4>1
      <4>2. CASE u # now + 1
        BY <1>0, <2>2, <3>2, <3>3, <4>2
      <4> QED
        BY <4>1, <4>2
    <3>4. t \in 1..(now + 1) /\ log'[t].message.mood = emotion'
      BY <1>0, <2>2, <3>1, <3>2
    <3> QED
      BY <2>2, <3>3, <3>4
  <2> QED
    BY <2>3, <2>4
<1>2. CASE ~\E b \in Branch, m \in Message : RunTurn(b, m)
  <2>1. /\ now' = now /\ emotion' = emotion
        /\ \A t \in 1..now : log'[t].message = log[t].message
    BY <1>2, OtherStepsLog
  <2>2. PICK t \in 1..now :
          /\ log[t].message.mood = emotion
          /\ \A u \in (t + 1)..now :
                /\ log[u].message.mood = "NEUTRAL"
                /\ log[u].message.blank \/ log[u].message.command
    BY <2>1 DEF MoodIsRecent
  <2>3. \A u \in (t + 1)..now : u \in 1..now
    BY <1>0, <2>2
  <2> QED
    BY <2>1, <2>2, <2>3
<1> QED
  BY <1>1, <1>2

\* The mood run_turn keeps is the last one a message has shown, and only blank
\* messages and commands carry it on.
THEOREM MoodFollowsMessages == Spec => []MoodIsRecent
<1>1. Init => MoodIsRecent
  BY DEF Init, MoodIsRecent
<1> QED
  BY <1>1, StepKeepsMood, InductiveInvariant, PTL DEF Spec

-----------------------------------------------------------------------------
(***************************************************************************)
(* Memory.  Only the turn in progress may be missing from its window, and  *)
(* until it is there no step before has moved the body without going on.   *)
(***************************************************************************)

WindowsInOrder ==
    \A b \in Branch :
        /\ \A i, j \in DOMAIN windows[b] : i < j => windows[b][i] < windows[b][j]
        /\ \A t \in Range(windows[b]) : t \in 1..now /\ log[t].branch = b
        /\ b = branch /\ phase \in Before => now \notin Range(windows[b])

Told(t) ==
    \/ t \in Range(windows[log[t].branch])
    \/ log[t].end = "throttled"
    \/ log[t].end = "error" /\ log[t].moved # "yes"

OthersTold ==
    /\ \A t \in 1..now : (t = now /\ phase # "idle") \/ Told(t)
    /\ phase \in Before \ {"remember"} => log[now].moved = "no"
    /\ phase = "schedule" => now \in Range(windows[branch])

EpisodesHeld == episodes \subseteq UNION {Range(windows[b]) : b \in Branch}

Remembered == WindowsInOrder /\ OthersTold /\ EpisodesHeld

LEMMA RangeOfAppend ==
    ASSUME NEW S, NEW s \in Seq(S), NEW x \in S
    PROVE  Range(Append(s, x)) = Range(s) \union {x}
<1>1. /\ Append(s, x) \in Seq(S) /\ Len(Append(s, x)) = Len(s) + 1
      /\ Append(s, x)[Len(s) + 1] = x
      /\ \A i \in 1..Len(s) : Append(s, x)[i] = s[i]
  OBVIOUS
<1>2. DOMAIN s = 1..Len(s) /\ DOMAIN Append(s, x) = 1..(Len(s) + 1) /\ Len(s) \in Nat
  BY <1>1
<1>3. 1..(Len(s) + 1) = 1..Len(s) \union {Len(s) + 1}
  BY <1>2
<1> QED
  BY <1>1, <1>2, <1>3 DEF Range

LEMMA RunTurnRemembers ==
    ASSUME IInv, Remembered, NEW b \in Branch, NEW m \in Message, RunTurn(b, m)
    PROVE  Remembered'
<1>1. /\ now' = now + 1 /\ now \in Nat /\ \A t \in 1..now : log'[t] = log[t]
      /\ log'[now + 1].branch = b /\ log'[now + 1].moved = "no"
      /\ \/ phase' \in {"navigate", "generate"} /\ log'[now + 1].end = "none"
         \/ phase' = "idle" /\ log'[now + 1].end = "throttled"
  BY RunTurnLog DEF IInv
<1>2. phase = "idle" /\ UNCHANGED <<windows, episodes>>
  BY DEF RunTurn
<1>3. \A x \in Branch : \A t \in Range(windows[x]) :
          t \in 1..now /\ t # now + 1 /\ t \in 1..(now + 1) /\ log'[t].branch = x
  BY <1>1 DEF Remembered, WindowsInOrder
<1>4. WindowsInOrder'
  BY <1>1, <1>2, <1>3 DEF Remembered, WindowsInOrder
<1>5. OthersTold'
  <2>1. \A t \in 1..now : Told(t)'
    BY <1>1, <1>2 DEF Remembered, OthersTold, Told
  <2>2. \A t \in 1..now' : t = now + 1 => (t = now' /\ phase' # "idle") \/ Told(t)'
    BY <1>1 DEF Told
  <2>3. \A t \in 1..now' : t \in 1..now \/ t = now + 1
    BY <1>1
  <2> QED
    BY <1>1, <2>1, <2>2, <2>3 DEF OthersTold, Told
<1>6. EpisodesHeld'
  BY <1>2 DEF Remembered, EpisodesHeld
<1> QED
  BY <1>4, <1>5, <1>6 DEF Remembered

\* A step of a turn that does not touch the window: the turn goes on, or ends
\* where it has moved nothing or is in the window.
LEMMA OthersRemember ==
    ASSUME IInv, Remembered, UNCHANGED <<windows, episodes>>,
           phase # "idle", now' = now,
           \A t \in 1..now : /\ log'[t].branch = log[t].branch
                             /\ t # now => log'[t] = log[t],
           phase' \in Before => phase \in Before,
           phase' \in Before \ {"remember"} => log'[now].moved = "no",
           phase' # "schedule",
           phase' = "idle" => Told(now)'
    PROVE  Remembered'
<1>1. now \in 1..now /\ now \in Nat
  BY TurnInProgress DEF IInv, now
<1>2. WindowsInOrder'
  BY <1>1 DEF Remembered, WindowsInOrder, branch
<1>3. OthersTold'
  <2>1. \A t \in 1..now : t # now => Told(t)'
    BY DEF Remembered, OthersTold, Told
  <2> QED
    BY <1>1, <2>1 DEF OthersTold
<1>4. EpisodesHeld'
  BY DEF Remembered, EpisodesHeld
<1> QED
  BY <1>2, <1>3, <1>4 DEF Remembered

\* A step that adds the turn to the window, whatever comes of it.
LEMMA AddingRemembers ==
    ASSUME IInv, Remembered, phase = "remember", phase' \in {"idle", "schedule"},
           windows' = [windows EXCEPT ![branch] = Append(@, now)],
           episodes' \subseteq episodes \union {now}, now' = now,
           \A t \in 1..now : /\ log'[t].branch = log[t].branch
                             /\ t # now => log'[t] = log[t]
    PROVE  Remembered'
<1>1. /\ branch \in Branch /\ now \in 1..now /\ now \in Nat /\ now \in Turn
      /\ windows \in [Branch -> Seq(Turn)] /\ branch' = branch
  BY TurnInProgress DEF IInv, TypeOK, branch, now
<1>2. /\ windows'[branch] = Append(windows[branch], now)
      /\ windows[branch] \in Seq(Turn)
      /\ \A b \in Branch : b # branch => windows'[b] = windows[b]
  BY <1>1
<1>3. Range(windows'[branch]) = Range(windows[branch]) \union {now}
  BY <1>1, <1>2, RangeOfAppend
<1>4. \A b \in Branch : Range(windows[b]) \subseteq Range(windows'[b])
  BY <1>2, <1>3
<1>5. \A i, j \in DOMAIN windows'[branch] :
          i < j => windows'[branch][i] < windows'[branch][j]
  <2>1. \A i \in DOMAIN windows[branch] : windows[branch][i] < now
    <3>1. \A t \in Range(windows[branch]) : t \in 1..now /\ t # now
      BY <1>1 DEF Remembered, WindowsInOrder, Before
    <3>2. \A i \in DOMAIN windows[branch] : windows[branch][i] \in Range(windows[branch])
      BY DEF Range
    <3>3. \A i \in DOMAIN windows[branch] :
              windows[branch][i] \in 1..now /\ windows[branch][i] # now
      BY <3>1, <3>2
    <3> QED
      BY <1>1, <3>3
  <2>2. /\ DOMAIN windows[branch] = 1..Len(windows[branch]) /\ Len(windows[branch]) \in Nat
        /\ DOMAIN windows'[branch] = 1..(Len(windows[branch]) + 1)
        /\ windows'[branch][Len(windows[branch]) + 1] = now
        /\ \A i \in 1..Len(windows[branch]) : windows'[branch][i] = windows[branch][i]
    BY <1>1, <1>2
  <2>3. \A i, j \in DOMAIN windows[branch] : i < j => windows[branch][i] < windows[branch][j]
    BY <1>1 DEF Remembered, WindowsInOrder
  <2> SUFFICES ASSUME NEW i \in DOMAIN windows'[branch], NEW j \in DOMAIN windows'[branch], i < j
               PROVE  windows'[branch][i] < windows'[branch][j]
    OBVIOUS
  <2>4. i \in 1..Len(windows[branch]) /\ i \in DOMAIN windows[branch]
    BY <2>2
  <2>5. CASE j = Len(windows[branch]) + 1
    BY <2>1, <2>2, <2>4, <2>5
  <2>6. CASE j # Len(windows[branch]) + 1
    <3>1. j \in DOMAIN windows[branch] /\ j \in 1..Len(windows[branch])
      BY <2>2, <2>6
    <3> QED
      BY <2>2, <2>3, <2>4, <3>1
  <2> QED
    BY <2>5, <2>6
<1>6. \A b \in Branch : \A t \in Range(windows'[b]) : t \in 1..now /\ log'[t].branch = b
  <2> SUFFICES ASSUME NEW b \in Branch, NEW t \in Range(windows'[b])
               PROVE  t \in 1..now /\ log'[t].branch = b
    OBVIOUS
  <2>1. CASE t \in Range(windows[b])
    BY <2>1 DEF Remembered, WindowsInOrder
  <2>2. CASE b = branch /\ t = now
    BY <1>1, <2>2 DEF branch
  <2> QED
    BY <1>2, <1>3, <2>1, <2>2
<1>7. WindowsInOrder'
  <2>1. \A b \in Branch : b # branch =>
          \A i, j \in DOMAIN windows'[b] : i < j => windows'[b][i] < windows'[b][j]
    BY <1>2 DEF Remembered, WindowsInOrder
  <2> QED
    BY <1>5, <1>6, <2>1 DEF WindowsInOrder, Before
<1>8. OthersTold'
  <2>1. \A t \in 1..now : t # now => Told(t)'
    <3> SUFFICES ASSUME NEW t \in 1..now, t # now PROVE Told(t)'
      OBVIOUS
    <3>1. Told(t) /\ log'[t] = log[t]
      BY DEF Remembered, OthersTold
    <3>2. log[t] \in Entry
      BY <1>1 DEF IInv, TypeOK, now
    <3>3. log[t].branch \in Branch
      BY <3>2 DEF Entry
    <3> QED
      BY <1>4, <3>1, <3>3 DEF Told
  <2>2. Told(now)'
    BY <1>1, <1>3 DEF Told, branch
  <2> QED
    BY <1>1, <1>3, <2>1, <2>2 DEF OthersTold, Before
<1>9. EpisodesHeld'
  <2>1. episodes \subseteq UNION {Range(windows'[b]) : b \in Branch}
    BY <1>4 DEF Remembered, EpisodesHeld
  <2>2. now \in UNION {Range(windows'[b]) : b \in Branch}
    BY <1>1, <1>3
  <2> QED
    BY <2>1, <2>2 DEF EpisodesHeld
<1> QED
  BY <1>7, <1>8, <1>9 DEF Remembered

LEMMA StepRemembers ==
    ASSUME IInv, Remembered, [Next]_vars
    PROVE  Remembered'
<1>1. ASSUME NEW b \in Branch, NEW m \in Message, RunTurn(b, m) PROVE Remembered'
  BY <1>1, RunTurnRemembers
<1>2. CASE Navigate \/ Act
  <2>1. /\ phase \in Before \ {"remember"} /\ phase' = "remember"
        /\ \E moved \in Moved : log' = [log EXCEPT ![now].moved = moved]
        /\ UNCHANGED <<windows, episodes>>
    BY <1>2 DEF Navigate, Act, Executed, Moved, Before
  <2> QED
    BY <2>1, MovedKeepsLog, OthersRemember DEF IInv, Before
<1>3. CASE \E n \in TurnTokens : Generate(n)
  <2>1. /\ phase = "generate" /\ phase' = "act" /\ log' = log /\ now' = now
        /\ UNCHANGED <<windows, episodes>>
    BY <1>3 DEF Generate, now
  <2>2. log'[now].moved = "no"
    BY <2>1 DEF Remembered, OthersTold, Before
  <2> QED
    BY <2>1, <2>2, OthersRemember DEF Before
<1>4. CASE Raises
  <2>1. phase # "idle" /\ phase \in Before /\ UNCHANGED <<windows, episodes>>
    BY <1>4 DEF Raises, Before
  <2>2. /\ now' = now /\ phase' = "idle" /\ log'[now].end = "error"
        /\ log'[now].moved # "yes"
        /\ \A t \in 1..now : /\ log'[t].branch = log[t].branch
                             /\ t # now => log'[t] = log[t]
    BY <1>4, RaisesKeepsLog DEF IInv, CutShort
  <2>3. Told(now)'
    BY <2>2 DEF Told
  <2> QED
    BY <2>1, <2>2, <2>3, OthersRemember DEF Before
<1>5. CASE NotDue \/ Consolidate \/ Declines
  <2>1. /\ phase = "schedule" /\ UNCHANGED <<windows, episodes>>
        /\ \E end \in End : Ended(end)
    BY <1>5 DEF NotDue, Consolidate, Declines, End
  <2>2. /\ now' = now /\ phase' = "idle" /\ now \in 1..now
        /\ \A t \in 1..now : /\ log'[t].branch = log[t].branch
                             /\ t # now => log'[t] = log[t]
    BY <2>1, EndedKeepsLog, TurnInProgress DEF IInv, now
  <2>3. now \in Range(windows[branch])
    BY <2>1 DEF Remembered, OthersTold
  <2>4. Told(now)'
    BY <2>1, <2>2, <2>3 DEF Told, branch
  <2> QED
    BY <2>1, <2>2, <2>4, OthersRemember DEF Before
<1>6. CASE RememberNavigation \/ RememberRaises
  <2>1. /\ phase = "remember" /\ \E end \in End : Ended(end)
        /\ windows' = [windows EXCEPT ![branch] = Append(@, now)]
        /\ episodes' \subseteq episodes \union {now}
    BY <1>6 DEF RememberNavigation, RememberRaises, End
  <2> QED
    BY <2>1, EndedKeepsLog, AddingRemembers DEF IInv
<1>7. CASE Remember
  <2>1. /\ phase = "remember" /\ phase' \in {"idle", "schedule"}
        /\ windows' = [windows EXCEPT ![branch] = Append(@, now)]
        /\ episodes' = episodes
        /\ Ended("reply") \/ log' = log
    BY <1>7 DEF Remember, Ended
  <2>2. /\ now' = now
        /\ \A t \in 1..now : /\ log'[t].branch = log[t].branch
                             /\ t # now => log'[t] = log[t]
    BY <2>1, EndedKeepsLog DEF IInv, End, now
  <2>3. episodes' \subseteq episodes \union {now}
    BY <2>1
  <2>4. /\ phase = "remember" /\ phase' \in {"idle", "schedule"}
        /\ windows' = [windows EXCEPT ![branch] = Append(@, now)]
    BY <2>1
  <2> QED
    BY <2>2, <2>3, <2>4, AddingRemembers
<1>8. CASE UNCHANGED vars \/ \E persona \in Persona : SwitchPersona(persona)
  BY <1>8 DEF vars, SwitchPersona, Remembered, WindowsInOrder, OthersTold, Told,
              EpisodesHeld, branch, now
<1> QED
  BY <1>1, <1>2, <1>3, <1>4, <1>5, <1>6, <1>7, <1>8 DEF Next

\* Whatever a turn has told the user, and every movement of the body the adapter has
\* answered for, is in the window of its branch, once and in order, and no episode is
\* known that is not there: no exception between the calls of run_turn separates doing
\* from remembering.  (One within a call of the adapter does.)
THEOREM NothingDoneIsForgotten == Spec => []ToldAndDoneIsRemembered
<1>1. Init => Remembered
  <2>1. ASSUME Init PROVE now = 0 /\ \A b \in Branch : windows[b] = << >>
    BY <2>1 DEF Init, now
  <2>2. Range(<< >>) = {}
    BY DEF Range
  <2> QED
    BY <2>1, <2>2 DEF Init, Remembered, WindowsInOrder, OthersTold, EpisodesHeld, Before
<1>2. IInv /\ Remembered /\ [Next]_vars => Remembered'
  BY StepRemembers
<1>3. Remembered => ToldAndDoneIsRemembered
  BY DEF Remembered, WindowsInOrder, OthersTold, Told, EpisodesHeld, ToldAndDoneIsRemembered
<1> QED
  BY <1>1, <1>2, <1>3, InductiveInvariant, PTL DEF Spec

=============================================================================
