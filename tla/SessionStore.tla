---------------------------- MODULE SessionStore ----------------------------
(***************************************************************************)
(* What the account component promises about sessions, without rows,       *)
(* requests or races.  A session is opened for an address that has been    *)
(* proven, or as the successor of a session that is closed; sessions are   *)
(* closed, all at once for one owner if need be, and stay closed.          *)
(***************************************************************************)
EXTENDS Integers, Sequences

CONSTANT Users

VARIABLES
  sessions,  \* every session ever opened, in order
  proven     \* addresses whose ownership has been confirmed

Init ==
  /\ sessions = <<>>
  /\ proven = {}

\* An OTP or Google confirms who owns the address.
Prove(u) ==
  /\ proven' = proven \union {u}
  /\ UNCHANGED sessions

Open(u) ==
  /\ u \in proven
  /\ sessions' = Append(sessions, [owner |-> u, parent |-> 0, open |-> TRUE])
  /\ UNCHANGED proven

Rotate(s) ==
  /\ ~sessions[s].open
  /\ sessions' = Append(sessions, [owner |-> sessions[s].owner,
                                   parent |-> s, open |-> TRUE])
  /\ UNCHANGED proven

Close(u, S) ==
  /\ \A s \in S : sessions[s].owner = u
  /\ sessions' = [s \in DOMAIN sessions |->
                    IF s \in S THEN [sessions[s] EXCEPT !.open = FALSE]
                               ELSE sessions[s]]
  /\ UNCHANGED proven

Next ==
  \/ \E u \in Users : Prove(u) \/ Open(u)
  \/ \E s \in DOMAIN sessions : Rotate(s)
  \/ \E u \in Users : \E S \in SUBSET (DOMAIN sessions) : Close(u, S)

Spec == Init /\ [][Next]_<<sessions, proven>>
=============================================================================
