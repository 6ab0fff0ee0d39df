---------------------------- MODULE MCAgentCore ----------------------------
(***************************************************************************)
(* AgentCore on small instances.  The messages are one of each way through *)
(* the rules: a mood, a goal with a mood, plain text, a command, a blank.  *)
(***************************************************************************)
EXTENDS AgentCore, TLC

Says(mood, command, goal) ==
    [mood |-> mood, command |-> command, goal |-> goal, blank |-> FALSE]

Messages ==
    {Says("CONCERNED", FALSE, FALSE), Says("EMPATHETIC", TRUE, TRUE),
     Says("NEUTRAL", FALSE, FALSE), Says("NEUTRAL", TRUE, FALSE),
     [mood |-> "NEUTRAL", command |-> FALSE, goal |-> FALSE, blank |-> TRUE]}

BranchSymmetry == Permutations(Branch)
=============================================================================
