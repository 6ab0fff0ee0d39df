------------------------------ MODULE MCL0Sync ------------------------------
(***************************************************************************)
(* L0Sync on small instances: the constants are given in the .cfg files.   *)
(***************************************************************************)
EXTENDS L0Sync, TLC

ValueSymmetry == Permutations(Value)
=============================================================================
