----------------------------- MODULE MCRateLimits ----------------------------
(***************************************************************************)
(* An instance of RateLimits for TLC.  No action distinguishes one request *)
(* slot from another, nor one IP from another.                             *)
(***************************************************************************)
EXTENDS RateLimits

CONSTANTS r1, r2, ip1

MCRequests == {r1, r2}
MCIps == {ip1}
MCWindow == [l \in Limiters |-> IF l = "forgot" THEN 3 ELSE 2]
MCLimit == [l \in Limiters |-> IF l \in {"verify", "ip"} THEN 2 ELSE 1]
Symmetry == Permutations(MCRequests)
=============================================================================
