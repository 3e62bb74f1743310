---------------------------- MODULE AdminSessions ---------------------------
(***************************************************************************)
(* Sessions of platform admins: refresh tokens are JWTs that no table      *)
(* records; logout and rotation put a token on a revocation list in Redis, *)
(* for as long as the JWT would still verify.                              *)
(*                                                                         *)
(* Time passes in seconds, the resolution of a JWT's "iat" and "exp".  The *)
(* payload of a refresh token is the admin and those two, so it is         *)
(* determined by the admin and the second in which it was signed.  Between *)
(* two awaits of a request any other request may run, and time may pass.   *)
(***************************************************************************)
EXTENDS Integers

CONSTANTS
  Admins,      \* rows of platform_admins (no use case adds or removes one)
  Requests,    \* slots for HTTP requests in flight at the same time
  Lifetime,    \* config.jwt.refresh.expiresIn
  Week,        \* the time to live used when the token has none left
  MaxTime      \* bound: seconds that pass

ASSUME AdminAssumption ==
  /\ Lifetime \in Nat \ {0}
  /\ Week \in Nat \ {0}
  /\ MaxTime \in Nat

Seconds == 0..MaxTime
Token == [sub : Admins, iat : Seconds]

VARIABLES
  now,        \* the clock of the service and of Redis
  until,      \* until[t]: when the entry of t leaves Redis, 0 if never set
  req,        \* req[r]: what request r remembers between its awaits
  \* History variables: no code reads them.
  signed,     \* refresh tokens handed out
  revoked,    \* tokens that were ever put on the list
  rotated     \* tokens that a refresh has replaced

history == <<signed, revoked, rotated>>
vars == <<now, until, req, history>>

\* A request between two awaits; "fresh" (a history field) says that the
\* token had never been revoked when the request looked.
Idle      == [pc : {"idle"}]
Checked   == [pc : {"verify", "find", "sign"}, token : Token, fresh : BOOLEAN]
Revoking  == [pc : {"revoke"}, token : Token, ttl : Nat, fresh : BOOLEAN]
LoggedOut == [pc : {"logout"}, token : Token, ttl : Nat]

Request == Idle \union Checked \union Revoking \union LoggedOut

TypeOK ==
  /\ now \in Seconds
  /\ until \in [Token -> Nat]
  /\ req \in [Requests -> Request]
  /\ signed \subseteq Token
  /\ revoked \subseteq Token
  /\ rotated \subseteq Token

Init ==
  /\ now = 0
  /\ until = [t \in Token |-> 0]
  /\ req = [r \in Requests |-> [pc |-> "idle"]]
  /\ signed = {} /\ revoked = {} /\ rotated = {}

-----------------------------------------------------------------------------
(* Helpers. *)

Goto(r, next) == req' = [req EXCEPT ![r] = next]
Done(r) == Goto(r, [pc |-> "idle"])

\* "exp" of the JWT, and whether jwt.verify accepts it.
Exp(t) == t.iat + Lifetime
Verifies(t) == now < Exp(t)

\* getTokenTTL: the seconds left, at least 0; the first form counts a
\* second too few, the second forgets the lower bound.
TokenTTLMutant(t) == IF Verifies(t) THEN Exp(t) - now - 1 ELSE 0
TokenTTLUnbounded(t) == Exp(t) - now
TokenTTL(t) == IF Verifies(t) THEN Exp(t) - now ELSE 0

\* How long a rotated token stays on the list: a week if it has no time left.
\* The first form leaves that out.
RotatedTTLMutant(t) == TokenTTL(t)
RotatedTTL(t) == IF TokenTTL(t) = 0 THEN Week ELSE TokenTTL(t)

\* EXISTS on the list.  The key may outlast its second by a fraction, when
\* the JWT has expired; no one can tell.
IsRevoked(t) == now < until[t]

\* SET ... EX ttl on the list.
Revoke(t, ttl) ==
  /\ until' = [until EXCEPT ![t] = now + ttl]
  /\ revoked' = revoked \union {t}

\* jwt.sign: the token of this admin and this second.
Signed(a) == [sub |-> a, iat |-> now]
HandOut(t) == signed' = signed \union {t}

-----------------------------------------------------------------------------

\* AdminLoginUseCase: reads the admin, checks the password, signs.
Login(a) ==
  /\ HandOut(Signed(a))
  /\ UNCHANGED <<now, until, req, revoked, rotated>>

\* AdminRefreshTokenUseCase: the token must not be on the list,
RefreshCheck(r, t) ==
  /\ req[r].pc = "idle"
  /\ ~IsRevoked(t)
  /\ Goto(r, [pc |-> "verify", token |-> t, fresh |-> t \notin revoked])
  /\ UNCHANGED <<now, until, history>>

\* and its signature and expiry must hold when EXISTS has answered (the
\* first form leaves that check out); then the admin is looked up.
RefreshVerifyMutant(r) ==
  /\ req[r].pc = "verify"
  /\ Goto(r, [req[r] EXCEPT !.pc = "find"])
  /\ UNCHANGED <<now, until, history>>
RefreshVerify(r) ==
  /\ req[r].pc = "verify"
  /\ Verifies(req[r].token)
  /\ Goto(r, [req[r] EXCEPT !.pc = "find"])
  /\ UNCHANGED <<now, until, history>>

\* The admin is found, and the time that the revocation is to last is fixed.
RefreshTTL(r) ==
  LET t == req[r].token
  IN  /\ req[r].pc = "find"
      /\ Goto(r, [pc |-> "revoke", token |-> t, fresh |-> req[r].fresh,
                  ttl |-> RotatedTTL(t)])
      /\ UNCHANGED <<now, until, history>>

\* The old token goes on the list, if that is for any time at all,
RefreshRevoke(r) ==
  LET q == req[r]
  IN  /\ q.pc = "revoke"
      /\ IF q.ttl > 0 THEN Revoke(q.token, q.ttl)
         ELSE UNCHANGED <<until, revoked>>
      /\ Goto(r, [pc |-> "sign", token |-> q.token, fresh |-> q.fresh])
      /\ UNCHANGED <<now, signed, rotated>>

\* and a new one is signed.
RefreshSign(r) ==
  LET t == req[r].token
  IN  /\ req[r].pc = "sign"
      /\ HandOut(Signed(t.sub))
      /\ rotated' = rotated \union {t}
      /\ Done(r)
      /\ UNCHANGED <<now, until, revoked>>

\* AdminLogoutUseCase: a token with no time left needs no revocation.
LogoutTTL(r, t) ==
  /\ req[r].pc = "idle"
  /\ TokenTTL(t) > 0
  /\ Goto(r, [pc |-> "logout", token |-> t, ttl |-> TokenTTL(t)])
  /\ UNCHANGED <<now, until, history>>

LogoutRevoke(r) ==
  /\ req[r].pc = "logout"
  /\ Revoke(req[r].token, req[r].ttl)
  /\ Done(r)
  /\ UNCHANGED <<now, signed, rotated>>

Tick ==
  /\ now < MaxTime
  /\ now' = now + 1
  /\ UNCHANGED <<until, req, history>>

\* Redis or the database fails, or the process dies.
Fail(r) ==
  /\ req[r].pc # "idle"
  /\ Done(r)
  /\ UNCHANGED <<now, until, history>>

Step(r) ==
  \/ \E t \in signed : RefreshCheck(r, t) \/ LogoutTTL(r, t)
  \/ RefreshVerify(r) \/ RefreshTTL(r) \/ RefreshRevoke(r) \/ RefreshSign(r)
  \/ LogoutRevoke(r) \/ Fail(r)

Next ==
  \/ Tick
  \/ \E a \in Admins : Login(a)
  \/ \E r \in Requests : Step(r)

Spec == Init /\ [][Next]_vars

-----------------------------------------------------------------------------
(* Properties. *)

\* The list forgets a token only when the JWT has expired, whatever delay
\* lies between computing the time to live and setting it, and whichever of
\* several revocations of one token comes last.
RevocationOutlivesToken ==
  \A t \in revoked : Verifies(t) => IsRevoked(t)

\* A refresh that passed both checks had found a token that was never
\* revoked before: a logged-out or rotated token works again neither before
\* nor after its entry leaves the list.
RevokedIsRefused ==
  \A r \in Requests : req[r].pc \in {"find", "revoke", "sign"} => req[r].fresh

\* A successor is signed only after the old token is on the list, also when
\* the old token has no time left.
RotatedIsRevoked == rotated \subseteq revoked

\* admin.refresh-token.test.ts: "should refresh admin token successfully and
\* rotate refresh token": the token a refresh hands out is another one.
RotationRenews ==
  [][\A r \in Requests :
       RefreshSign(r) => Signed(req[r].token.sub) # req[r].token]_vars
=============================================================================
