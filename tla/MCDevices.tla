----------------------------- MODULE MCDevices ------------------------------
(***************************************************************************)
(* Instances of Devices for TLC.  No action distinguishes one user, client *)
(* device, fid or request from another.                                    *)
(***************************************************************************)
EXTENDS Devices, TLC

CONSTANTS r1, r2, u1, u2, d1, d2, f1

MCRequests == {r1, r2}
MCUsers == {u1, u2}
MCDeviceIds == {d1, d2}
MCFids == {f1}
Symmetry == Permutations(MCRequests) \union Permutations(MCUsers)
            \union Permutations(MCDeviceIds)
=============================================================================
