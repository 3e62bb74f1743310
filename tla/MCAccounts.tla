---------------------------- MODULE MCAccounts ------------------------------
(***************************************************************************)
(* Instances of Accounts for TLC.  Requests are interchangeable: no action *)
(* distinguishes one from another.                                         *)
(***************************************************************************)
EXTENDS Accounts, TLC

CONSTANTS r1, r2

MCRequests == {r1, r2}
RequestSymmetry == Permutations(MCRequests)
=============================================================================
