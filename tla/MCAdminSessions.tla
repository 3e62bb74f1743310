-------------------------- MODULE MCAdminSessions ---------------------------
(***************************************************************************)
(* Instances of AdminSessions for TLC.  Requests are interchangeable.      *)
(***************************************************************************)
EXTENDS AdminSessions, TLC

CONSTANTS r1, r2

MCRequests == {r1, r2}
RequestSymmetry == Permutations(MCRequests)
=============================================================================
