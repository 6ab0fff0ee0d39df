----------------------------- MODULE MCLWWMap -----------------------------
(***************************************************************************)
(* LWWMap on small instances: the constants are given in the .cfg files.   *)
(***************************************************************************)
EXTENDS LWWMap, TLC

\* Keys are interchangeable; devices are not, their order breaks ties.
KeySymmetry == Permutations(Key)

\* Three devices, of which one takes checkpoints: a checkpoint concerns its own
\* device only.
OneSaves == Init /\ [][Synchronise \/ Checkpoint(1)]_vars
=============================================================================
