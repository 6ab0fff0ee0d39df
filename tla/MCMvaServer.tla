---------------------------- MODULE MCMvaServer ----------------------------
(***************************************************************************)
(* MvaServer on small instances: the constants are given in the .cfg files.*)
(***************************************************************************)
EXTENDS MvaServer, TLC

ClientSymmetry == Permutations(Client)
=============================================================================
