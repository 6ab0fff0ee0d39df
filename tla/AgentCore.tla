----------------------------- MODULE AgentCore -----------------------------
(***************************************************************************)
(* StateMachineAgentCore.run_turn (agent_core/state_machine.py) on the     *)
(* branches of one agent.  Turns do not overlap: the gateway calls run_turn *)
(* synchronously.  But a turn is a chain of calls to other components, any *)
(* of which may raise and end the turn where it is.  Messages are reduced  *)
(* to what the rules see in them, replies to the turn they answer, and the *)
(* L1 window of a branch to the turns it was given (WorkingMemory shows    *)
(* that it forgets none of them, and that add_turn raises after appending).*)
(***************************************************************************)
EXTENDS Integers, Sequences, FiniteSets, SequencesExt

CONSTANTS
    Branch,
    Message,        \* the messages a user may send
    TurnTokens,     \* tokens a model call may cost
    TokenBudget,    \* _token_budget, per branch
    TriggerRounds,  \* _trigger_rounds of the InsightScheduler
    EngineRounds,   \* the rounds SimpleInsightEngine.should_trigger asks for
    Agents,         \* the consolidation agents it may have been given
    Persona,        \* the persona ids of the callers
    NoId,           \* the empty persona id
    Injector,       \* whether there is a _persona_injector
    MaxTurns        \* bound: turns of all branches together

Mood == {"NEUTRAL", "CONCERNED", "EMPATHETIC"}

\* mood: by the word lists; command: it has an action keyword; goal: it names a
\* navigation target; blank: nothing but white space.
ASSUME MessageAssumption ==
    \A m \in Message :
        /\ m \in [mood : Mood, command : BOOLEAN, goal : BOOLEAN, blank : BOOLEAN]
        /\ m.blank => m.mood = "NEUTRAL" /\ ~m.command /\ ~m.goal

\* "any" takes the calls the scheduler makes, as the tests' agents do, and may
\* answer and raise what it likes; "SimpleInsightEngine" has a threshold of its own
\* and no consolidate; "ConsolidationAgent" has a should_trigger that takes no
\* count; "none" stands for an agent core without a scheduler.
ASSUME AgentAssumption ==
    Agents \subseteq {"any", "SimpleInsightEngine", "ConsolidationAgent", "none"}
ASSUME NumberAssumption ==
    /\ TurnTokens \subseteq Nat /\ TokenBudget \in Nat
    /\ TriggerRounds \in Nat \ {0} /\ EngineRounds \in Nat /\ MaxTurns \in Nat

ASSUME PersonaAssumption == "default" \in Persona /\ Injector \in BOOLEAN

VARIABLES
    emotion,        \* _emotion_state, shared by all branches
    tokens_used,    \* _tokens_used
    windows,        \* _working_windows: the turns given to add_turn, in order
    episodes,       \* L2: the turns stored as navigation memories
    turn_count,     \* _turn_count
    last_trigger,   \* _last_trigger_turn of the scheduler
    declined,       \* ghost: _turn_count of the branch when its agent was last asked
                    \* and did not agree
    agent,          \* its _agent, given once and for all
    embodied,       \* whether there is an _embodied_adapter
    persona_id,     \* _persona_id
    phase,          \* where run_turn is, "idle" between turns
    log             \* history: for each turn its branch, message and end

given == <<agent, embodied>>

vars == <<emotion, tokens_used, windows, episodes, turn_count, last_trigger, declined,
          given, persona_id, phase, log>>

\* The actions ActionPlanner finds by its patterns, and "idle" where none matches.
Token == {"approach_gently", "retreat_slowly", "turn_to_user", "interact",
          "look_around", "navigate_to_object", "idle"}

\* moved: "yes" if the adapter has moved the body and answered, "cut" if it raised
\* after some steps.
Turn == 1..MaxTurns
End == {"reply", "throttled", "error"}
Moved == {"no", "yes", "cut"}
Entry == [branch : Branch, message : Message, end : End \union {"none"},
          moved : Moved]

now == Len(log)             \* the current turn, or the last one
branch == log[now].branch
message == log[now].message
-----------------------------------------------------------------------------
Init ==
    /\ emotion = "NEUTRAL"
    /\ tokens_used = [b \in Branch |-> 0]
    /\ windows = [b \in Branch |-> <<>>]
    /\ episodes = {}
    /\ turn_count = [b \in Branch |-> 0]
    /\ last_trigger = [b \in Branch |-> 0]
    /\ declined = [b \in Branch |-> 0]
    /\ agent \in Agents
    /\ embodied \in BOOLEAN
    /\ persona_id = "default"
    /\ phase = "idle"
    /\ log = <<>>

\* Seeded faults (Faulty...): bugs the code could have; no specification uses
\* them.  Here: a command keeps the mood whatever it says.
FaultyFelt(m) ==
    IF emotion # "NEUTRAL" /\ (m.blank \/ m.command) THEN emotion ELSE m.mood

\* _update_emotion: a message without a mood leaves the last one in place if it
\* is blank or a command, and ends it otherwise.
Felt(m) ==
    IF m.mood = "NEUTRAL" /\ emotion # "NEUTRAL" /\ (m.blank \/ m.command)
    THEN emotion ELSE m.mood

\* Fault: the budget has to be exceeded, not just used up.
FaultyThrottled(b) == tokens_used[b] > TokenBudget
Throttled(b) == tokens_used[b] >= TokenBudget

Ended(end) ==
    /\ phase' = "idle"
    /\ log' = [log EXCEPT ![now].end = end]

\* A goal is navigated to if there is an adapter; it is a message like others if not.
Navigates(m) == m.goal /\ embodied

\* run_turn: the mood is updated, then the message is a navigation goal, or
\* refused because the budget is used up, or goes to the model.
RunTurn(b, m) ==
    /\ phase = "idle" /\ now < MaxTurns
    /\ emotion' = Felt(m)
    /\ LET begun(end) == Append(log, [branch |-> b, message |-> m, end |-> end,
                                      moved |-> "no"])
       IN  \/ Navigates(m) /\ phase' = "navigate" /\ log' = begun("none")
           \/ ~Navigates(m) /\ Throttled(b) /\ phase' = "idle" /\ log' = begun("throttled")
           \/ ~Navigates(m) /\ ~Throttled(b) /\ phase' = "generate" /\ log' = begun("none")
    /\ UNCHANGED <<tokens_used, windows, episodes, turn_count, last_trigger, declined,
                   given, persona_id>>

\* What the body has done when the call of this phase raises: HabitatAdapter steps
\* the simulator many times in a call, and each step may raise.
CutShort == IF embodied /\ phase \in {"navigate", "act"} THEN {"no", "cut"} ELSE {"no"}

\* A call that run_turn makes in this phase raises what it does not catch.
Raises ==
    /\ phase \in {"navigate", "generate", "act"}
    /\ \E moved \in CutShort :
          log' = [log EXCEPT ![now].end = "error", ![now].moved = moved]
    /\ phase' = "idle"
    /\ UNCHANGED <<emotion, tokens_used, windows, episodes, turn_count, last_trigger,
                   declined, given, persona_id>>

\* navigate_to_object reaches the goal, gives up on the way, or does not find it.
Navigate ==
    /\ phase = "navigate"
    /\ \E moved \in {"no", "yes"} : log' = [log EXCEPT ![now].moved = moved]
    /\ phase' = "remember"
    /\ UNCHANGED <<emotion, tokens_used, windows, episodes, turn_count, last_trigger,
                   declined, given, persona_id>>

\* The model has answered at the cost of n tokens.
Generate(n) ==
    /\ phase = "generate"
    /\ tokens_used' = [tokens_used EXCEPT ![branch] = @ + n]
    /\ phase' = "act"
    /\ UNCHANGED <<emotion, windows, episodes, turn_count, last_trigger, declined,
                   given, persona_id, log>>

\* What is planned: what the reply says, or what the user said if the reply has no
\* action in it (a blank message has none either); nothing if the planner raises,
\* which is caught, or if there is none.
Planned ==
    LET said == IF message.blank THEN {"idle"} ELSE Token
    IN  {"nothing"} \union (Token \ {"idle"}) \union said

\* _execute_action_plan: what the adapter, if there is one, may make of a plan.
\* HabitatAdapter steps forward also for "idle".
Executed(plan) == IF plan = "nothing" \/ ~embodied THEN {"no"} ELSE {"no", "yes"}

\* The reply is planned and the plan is executed.
Act ==
    /\ phase = "act"
    /\ \E plan \in Planned : \E moved \in Executed(plan) :
          log' = [log EXCEPT ![now].moved = moved]
    /\ phase' = "remember"
    /\ UNCHANGED <<emotion, tokens_used, windows, episodes, turn_count, last_trigger,
                   declined, given, persona_id>>

\* Fault: the window compresses before it appends, so a failure loses the turn.
FaultyRememberRaises ==
    /\ phase = "remember"
    /\ Ended("error")
    /\ UNCHANGED <<emotion, tokens_used, windows, episodes, turn_count, last_trigger,
                   declined, given, persona_id>>

\* add_turn appends the turn and then raises, the compressor having failed.
RememberRaises ==
    /\ phase = "remember"
    /\ windows' = [windows EXCEPT ![branch] = Append(@, now)]
    /\ Ended("error")
    /\ UNCHANGED <<emotion, tokens_used, episodes, turn_count, last_trigger, declined,
                   given, persona_id>>

\* A navigation turn is added to L1 and, unless the store refuses it, to L2.
RememberNavigation ==
    /\ phase = "remember" /\ Navigates(message)
    /\ windows' = [windows EXCEPT ![branch] = Append(@, now)]
    /\ \E stored \in BOOLEAN :
          episodes' = IF stored THEN episodes \union {now} ELSE episodes
    /\ Ended("reply")
    /\ UNCHANGED <<emotion, tokens_used, turn_count, last_trigger, declined, given,
                   persona_id>>

\* Any other turn is added to L1 and, if there is a scheduler, counted for it.
Remember ==
    /\ phase = "remember" /\ ~Navigates(message)
    /\ windows' = [windows EXCEPT ![branch] = Append(@, now)]
    /\ \/ agent = "none" /\ Ended("reply") /\ UNCHANGED turn_count
       \/ /\ agent # "none"
          /\ turn_count' = [turn_count EXCEPT ![branch] = @ + 1]
          /\ phase' = "schedule" /\ UNCHANGED log
    /\ UNCHANGED <<emotion, tokens_used, episodes, last_trigger, declined, given,
                   persona_id>>

\* Fault: the round is counted from one turn too late.
FaultyDue == turn_count[branch] - last_trigger[branch] > TriggerRounds
Due == turn_count[branch] - last_trigger[branch] >= TriggerRounds

\* maybe_trigger has nothing to do.
NotDue ==
    /\ phase = "schedule" /\ ~Due
    /\ Ended("reply")
    /\ UNCHANGED <<emotion, tokens_used, windows, episodes, turn_count, last_trigger,
                   declined, given, persona_id>>

\* What the agent's should_trigger may answer.
Answers ==
    CASE agent = "any" -> BOOLEAN
      [] agent = "SimpleInsightEngine" ->
            {turn_count[branch] - last_trigger[branch] >= EngineRounds}
      [] OTHER -> {}

\* maybe_trigger: the agent agrees, the round is taken note of and consolidated.
\* SimpleInsightEngine has no consolidate (AttributeError); run_turn catches only
\* ValueError and RuntimeError of another agent.
Consolidate ==
    /\ phase = "schedule" /\ Due /\ TRUE \in Answers
    /\ last_trigger' = [last_trigger EXCEPT ![branch] = turn_count[branch]]
    /\ \E end \in {"reply", "error"} : (agent = "any" \/ end = "error") /\ Ended(end)
    /\ UNCHANGED <<emotion, tokens_used, windows, episodes, turn_count, declined, given,
                   persona_id>>

\* The agent does not agree, or should_trigger raises, as that of
\* ConsolidationAgent does for the argument it does not have (TypeError).
Declines ==
    /\ phase = "schedule" /\ Due
    /\ \/ FALSE \in Answers /\ Ended("reply")
       \/ agent \in {"any", "ConsolidationAgent"} /\ Ended("error")
    /\ declined' = [declined EXCEPT ![branch] = turn_count[branch]]
    /\ UNCHANGED <<emotion, tokens_used, windows, episodes, turn_count, last_trigger,
                   given, persona_id>>

\* eject of the PersonaInjector, which only looks at the ids.
Ejects == ~Injector \/ persona_id # NoId

\* switch_persona, between turns.  It does not matter here that inject raises for
\* an empty id: the persona has been set by then, and the agent core has no
\* update method for an inject that does not raise.  If eject or the commit of
\* the version manager raises, nothing has changed.
SwitchPersona(persona) ==
    /\ phase = "idle" /\ Ejects
    /\ persona_id' = persona
    /\ UNCHANGED <<emotion, tokens_used, windows, episodes, turn_count, last_trigger,
                   declined, given, phase, log>>

Next ==
    \/ \E b \in Branch, m \in Message : RunTurn(b, m)
    \/ \E persona \in Persona : SwitchPersona(persona)
    \/ Navigate \/ Act \/ Raises
    \/ \E n \in TurnTokens : Generate(n)
    \/ RememberNavigation \/ Remember \/ RememberRaises
    \/ NotDue \/ Consolidate \/ Declines

Spec == Init /\ [][Next]_vars
-----------------------------------------------------------------------------
\* The types of the variables.
TypeOK ==
    /\ emotion \in Mood
    /\ tokens_used \in [Branch -> Nat]
    /\ windows \in [Branch -> Seq(Turn)]
    /\ episodes \subseteq Turn
    /\ turn_count \in [Branch -> 0..MaxTurns]
    /\ last_trigger \in [Branch -> 0..MaxTurns]
    /\ declined \in [Branch -> 0..MaxTurns]
    /\ agent \in Agents /\ embodied \in BOOLEAN
    /\ persona_id \in Persona
    /\ phase \in {"idle", "navigate", "generate", "act", "remember", "schedule"}
    /\ log \in Seq(Entry) /\ now <= MaxTurns
    /\ phase = "idle" <=> (now = 0 \/ log[now].end # "none")

\* A branch never spends more than its budget and one turn: no sequence of
\* turns, failed ones included, overshoots by the cost of two.
BudgetOvershotOnce ==
    \A b \in Branch :
        tokens_used[b] = 0 \/ \E c \in TurnTokens : tokens_used[b] < TokenBudget + c

\* Whatever the user was told, and every movement the adapter answered for, is
\* remembered: a turn that was answered is in the window of its branch, and so is
\* a turn that moved the body and then went on, although it may have ended in an
\* error; each once and in order.
ToldAndDoneIsRemembered ==
    /\ phase = "idle" => \A t \in 1..now :
        \/ t \in Range(windows[log[t].branch])
        \/ log[t].end = "throttled"
        \/ log[t].end = "error" /\ log[t].moved # "yes"
    /\ \A b \in Branch :
        /\ \A i, j \in DOMAIN windows[b] : i < j => windows[b][i] < windows[b][j]
        /\ \A t \in Range(windows[b]) : log[t].branch = b
    /\ episodes \subseteq UNION {Range(windows[b]) : b \in Branch}

\* More than the code keeps: a movement cut short by an exception is in no window.
EveryStepIsRemembered ==
    phase = "idle" => \A t \in 1..now :
        log[t].moved # "no" => t \in Range(windows[log[t].branch])

\* The mood is the last one a message has shown, in whichever branch, and lasts
\* through blank messages and commands only.
MoodIsRecent ==
    emotion # "NEUTRAL" => \E t \in 1..now :
        /\ log[t].message.mood = emotion
        /\ \A u \in (t + 1)..now :
            LET m == log[u].message
            IN  m.mood = "NEUTRAL" /\ (m.blank \/ m.command)

\* No branch waits for a consolidation longer than a round of the turns that
\* reached its window by way of the model, unless the agent was asked at the last
\* of these turns and did not agree; and SimpleInsightEngine agrees when both
\* thresholds are reached, however turns of other branches, navigation and failures
\* come between.
ConsolidatedInTime ==
    phase = "idle" => \A b \in Branch :
        LET waiting == turn_count[b] - last_trigger[b]
        IN  /\ waiting < TriggerRounds \/ declined[b] = turn_count[b]
            /\ agent = "SimpleInsightEngine" =>
                    waiting < TriggerRounds \/ waiting < EngineRounds

\* abstract_agent_core.py:57: switch_persona raises ValueError if the persona id is
\* empty.  So the persona in place is always one that eject accepts, and a switch
\* that has failed does not make the next one fail.
ActivePersonaCanLeave == Ejects

\* The project's introduction, line 814: after a switch L1 is empty.  What was said to
\* one persona is not in the window, and so not in the prompt, of the next.
SwitchClearsWindow ==
    [][persona_id' # persona_id => \E b \in Branch : windows'[b] = <<>>]_vars
=============================================================================
