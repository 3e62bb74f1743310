---------------------------- MODULE AdminProofs -----------------------------
(***************************************************************************)
(* The safety properties of AdminSessions as theorems, for any admins,     *)
(* requests, lifetimes and moments.                                        *)
(***************************************************************************)
EXTENDS AdminSessions, TLAPS

(***************************************************************************)
(* What a request holds, by the call it makes next.                        *)
(***************************************************************************)
LEMMA RequestFields ==
  ASSUME NEW q \in Request
  PROVE  /\ q.pc \in {"verify", "find", "sign"} =>
              q.token \in Token /\ q.fresh \in BOOLEAN
         /\ q.pc = "revoke" =>
              q.token \in Token /\ q.ttl \in Nat /\ q.fresh \in BOOLEAN
         /\ q.pc = "logout" => q.token \in Token /\ q.ttl \in Nat
BY DEF Request, Idle, Checked, Revoking, LoggedOut

LEMMA RequestTypes ==
  /\ [pc |-> "idle"] \in Request
  /\ \A t \in Token, f \in BOOLEAN, pc \in {"verify", "find", "sign"} :
       [pc |-> pc, token |-> t, fresh |-> f] \in Request
  /\ \A t \in Token, f \in BOOLEAN, n \in Nat :
       [pc |-> "revoke", token |-> t, fresh |-> f, ttl |-> n] \in Request
  /\ \A t \in Token, n \in Nat :
       [pc |-> "logout", token |-> t, ttl |-> n] \in Request
BY DEF Request, Idle, Checked, Revoking, LoggedOut

LEMMA VerifyingFacts ==
  ASSUME NEW q \in Request, q.pc = "verify"
  PROVE  LET next == [q EXCEPT !.pc = "find"]
         IN  /\ next \in Request
             /\ next.pc = "find"
             /\ next.token = q.token
             /\ next.fresh = q.fresh
BY DEF Request, Idle, Checked, Revoking, LoggedOut

LEMMA GotoFacts ==
  ASSUME TypeOK, NEW r \in Requests, NEW next \in Request, Goto(r, next)
  PROVE  /\ req' \in [Requests -> Request]
         /\ req'[r] = next
         /\ \A q \in Requests : q # r => req'[q] = req[q]
BY DEF TypeOK, Goto

(***************************************************************************)
(* Tokens and their times.                                                 *)
(***************************************************************************)
LEMMA TokenTimes ==
  ASSUME NEW t \in Token
  PROVE  t.sub \in Admins /\ t.iat \in Seconds /\ Exp(t) \in Nat
BY AdminAssumption DEF Token, Seconds, Exp

LEMMA NowFacts == TypeOK => now \in Nat
BY AdminAssumption DEF TypeOK, Seconds

\* The time to live reaches the expiry, whenever it is counted from.
LEMMA TTLFacts ==
  ASSUME TypeOK, NEW t \in Token
  PROVE  TokenTTL(t) \in Nat /\ now + TokenTTL(t) >= Exp(t)
BY NowFacts, TokenTimes DEF TokenTTL, Verifies

LEMMA SignedType ==
  ASSUME TypeOK, NEW a \in Admins
  PROVE  Signed(a) \in Token
BY DEF Signed, Token, TypeOK

LEMMA RevokeFacts ==
  ASSUME TypeOK, NEW t \in Token, NEW ttl \in Nat, Revoke(t, ttl)
  PROVE  /\ until' \in [Token -> Nat]
         /\ until'[t] = now + ttl
         /\ \A s \in Token : s # t => until'[s] = until[s]
         /\ revoked' = revoked \union {t}
BY NowFacts DEF Revoke, TypeOK

(***************************************************************************)
(* The invariant: an entry lasts at least as long as its token, and so     *)
(* will the entry a request is about to write; a request that has found a  *)
(* revoked token is left with an expired one.                              *)
(***************************************************************************)
ListInv == \A t \in revoked : until[t] >= Exp(t)

RequestInv(q, time, list) ==
  /\ q.pc \in {"revoke", "logout"} => time + q.ttl >= Exp(q.token)
  /\ q.pc = "revoke" => q.ttl > 0
  /\ q.pc = "verify" /\ ~q.fresh => time >= Exp(q.token)
  /\ q.pc \in {"find", "revoke", "sign"} => q.fresh
  /\ q.pc = "sign" => q.token \in list

RequestsInv == \A r \in Requests : RequestInv(req[r], now, revoked)

AdminInv == TypeOK /\ ListInv /\ RequestsInv /\ RotatedIsRevoked

(***************************************************************************)
(* The tables do not shrink and the clock does not run backwards, so what  *)
(* holds of a request that does not move goes on holding.                  *)
(***************************************************************************)
LEMMA RequestStays ==
  ASSUME TypeOK, NEW q \in Request, RequestInv(q, now, revoked),
         now' \in Nat, now' >= now, revoked \subseteq revoked'
  PROVE  RequestInv(q, now', revoked')
<1>1. now \in Nat
  BY NowFacts
<1>2. ASSUME q.pc \in {"revoke", "logout"}
      PROVE  now' + q.ttl >= Exp(q.token)
  BY <1>1, <1>2, RequestFields, TokenTimes DEF RequestInv
<1>3. ASSUME q.pc = "verify", ~q.fresh
      PROVE  now' >= Exp(q.token)
  BY <1>1, <1>3, RequestFields, TokenTimes DEF RequestInv
<1> QED BY <1>2, <1>3 DEF RequestInv

LEMMA RequestMoves ==
  ASSUME AdminInv, NEW r \in Requests, NEW next \in Request, Goto(r, next),
         RequestInv(next, now', revoked'), now' = now, revoked \subseteq revoked'
  PROVE  req' \in [Requests -> Request] /\ RequestsInv'
<1>1. TypeOK /\ now' \in Nat /\ now' >= now
  BY NowFacts DEF AdminInv
<1>2. /\ req' \in [Requests -> Request]
      /\ req'[r] = next
      /\ \A q \in Requests : q # r => req'[q] = req[q]
  BY <1>1, GotoFacts
<1>3. ASSUME NEW q \in Requests
      PROVE  RequestInv(req'[q], now', revoked')
  <2>1. CASE q = r
    BY <1>2, <2>1
  <2>2. CASE q # r
    <3>1. req[q] \in Request /\ RequestInv(req[q], now, revoked)
      BY DEF AdminInv, TypeOK, RequestsInv
    <3> QED BY <1>1, <1>2, <2>2, <3>1, RequestStays
  <2> QED BY <2>1, <2>2
<1> QED BY <1>2, <1>3 DEF RequestsInv

LEMMA RequestKept ==
  ASSUME AdminInv, UNCHANGED req, now' \in Nat, now' >= now,
         revoked \subseteq revoked'
  PROVE  req' \in [Requests -> Request] /\ RequestsInv'
<1>1. TypeOK
  BY DEF AdminInv
<1>2. ASSUME NEW q \in Requests
      PROVE  RequestInv(req'[q], now', revoked')
  <2>1. req[q] \in Request /\ RequestInv(req[q], now, revoked)
    BY DEF AdminInv, TypeOK, RequestsInv
  <2> QED BY <1>1, <2>1, RequestStays
<1> QED BY <1>1, <1>2 DEF TypeOK, RequestsInv

(***************************************************************************)
(* A revocation that reaches the expiry keeps the list's promise.          *)
(***************************************************************************)
LEMMA ListGrows ==
  ASSUME AdminInv, NEW t \in Token, NEW ttl \in Nat, Revoke(t, ttl),
         now + ttl >= Exp(t)
  PROVE  until' \in [Token -> Nat] /\ ListInv' /\ revoked' \subseteq Token
<1>1. TypeOK /\ revoked \subseteq Token
  BY DEF AdminInv, TypeOK
<1>2. /\ until' \in [Token -> Nat]
      /\ until'[t] = now + ttl
      /\ \A s \in Token : s # t => until'[s] = until[s]
      /\ revoked' = revoked \union {t}
  BY <1>1, RevokeFacts
<1>3. ASSUME NEW s \in revoked'
      PROVE  until'[s] >= Exp(s)
  <2>1. CASE s = t
    BY <1>2, <2>1
  <2>2. CASE s # t
    BY <1>1, <1>2, <2>2 DEF AdminInv, ListInv
  <2> QED BY <2>1, <2>2
<1> QED BY <1>1, <1>2, <1>3 DEF ListInv, Exp

LEMMA InitAdmin == Init => AdminInv
<1> SUFFICES ASSUME Init PROVE AdminInv
  OBVIOUS
<1>1. TypeOK
  BY AdminAssumption, RequestTypes DEF Init, TypeOK, Seconds
<1>2. RequestsInv
  BY DEF Init, RequestsInv, RequestInv
<1> QED BY <1>1, <1>2 DEF Init, AdminInv, ListInv, RotatedIsRevoked

LEMMA AdminStep == AdminInv /\ [Next]_vars => AdminInv'
<1> SUFFICES ASSUME AdminInv, [Next]_vars PROVE AdminInv'
  OBVIOUS
<1>0. /\ TypeOK /\ now \in Nat
      /\ \A r \in Requests : req[r] \in Request /\ RequestInv(req[r], now, revoked)
  BY NowFacts DEF AdminInv, TypeOK, RequestsInv
<1>a. ASSUME UNCHANGED <<now, until, history>>,
             req' \in [Requests -> Request], RequestsInv'
      PROVE  AdminInv'
  BY <1>a DEF AdminInv, TypeOK, ListInv, RotatedIsRevoked, history, Exp
<1>b. ASSUME UNCHANGED <<until, revoked>>
      PROVE  ListInv'
  BY <1>b DEF AdminInv, ListInv, Exp
<1>1. ASSUME NEW a \in Admins, Login(a)
      PROVE  AdminInv'
  <2>1. Signed(a) \in Token
    BY <1>0, SignedType
  <2>2. req' \in [Requests -> Request] /\ RequestsInv'
    BY <1>0, <1>1, RequestKept DEF Login
  <2> QED BY <1>1, <2>1, <2>2, <1>b
          DEF Login, HandOut, AdminInv, TypeOK, RotatedIsRevoked
<1>2. ASSUME NEW r \in Requests, NEW t \in signed, RefreshCheck(r, t)
      PROVE  AdminInv'
  <2> DEFINE next == [pc |-> "verify", token |-> t, fresh |-> t \notin revoked]
  <2>1. t \in Token /\ next \in Request
    BY <1>0, RequestTypes DEF TypeOK
  <2>2. t \in revoked => now >= Exp(t)
    BY <1>0, <1>2, <2>1, TokenTimes
       DEF RefreshCheck, IsRevoked, AdminInv, ListInv, TypeOK
  <2>3. RequestInv(next, now', revoked')
    BY <1>2, <2>2 DEF RefreshCheck, RequestInv, history
  <2>4. Goto(r, next) /\ UNCHANGED <<now, until, history>>
    BY <1>2 DEF RefreshCheck
  <2> HIDE DEF next
  <2> QED BY <1>a, <2>1, <2>3, <2>4, RequestMoves DEF history
<1>3. ASSUME NEW r \in Requests, RefreshVerify(r)
      PROVE  AdminInv'
  <2> DEFINE next == [req[r] EXCEPT !.pc = "find"]
  <2>1. /\ next \in Request /\ next.pc = "find"
        /\ next.token = req[r].token /\ next.fresh = req[r].fresh
    BY <1>0, <1>3, VerifyingFacts DEF RefreshVerify
  <2>2. Goto(r, next) /\ UNCHANGED <<now, until, history>>
    BY <1>3 DEF RefreshVerify
  <2>3. req[r].fresh
    BY <1>0, <1>3, RequestFields, TokenTimes
       DEF RefreshVerify, RequestInv, Verifies
  <2> HIDE DEF next
  <2>4. RequestInv(next, now', revoked')
    BY <2>1, <2>3 DEF RequestInv
  <2> QED BY <1>a, <2>1, <2>2, <2>4, RequestMoves DEF history
<1>4. ASSUME NEW r \in Requests, RefreshTTL(r)
      PROVE  AdminInv'
  <2> DEFINE t == req[r].token
             ttl == RotatedTTL(t)
             next == [pc |-> "revoke", token |-> t, fresh |-> req[r].fresh,
                      ttl |-> ttl]
  <2>1. t \in Token /\ req[r].fresh /\ req[r].fresh \in BOOLEAN
    BY <1>0, <1>4, RequestFields DEF RefreshTTL, RequestInv
  <2>2. ttl \in Nat /\ ttl > 0 /\ now + ttl >= Exp(t)
    BY <1>0, <2>1, TTLFacts, TokenTimes, NowFacts, AdminAssumption
       DEF RotatedTTL
  <2>3. Goto(r, next) /\ UNCHANGED <<now, until, history>>
    BY <1>4 DEF RefreshTTL
  <2> HIDE DEF t, ttl
  <2>4. next \in Request
    BY <2>1, <2>2, RequestTypes
  <2>5. RequestInv(next, now', revoked')
    BY <2>1, <2>2, <2>3 DEF RequestInv
  <2> QED BY <1>a, <2>3, <2>4, <2>5, RequestMoves DEF history
<1>5. ASSUME NEW r \in Requests, RefreshRevoke(r)
      PROVE  AdminInv'
  <2> DEFINE q == req[r]
             next == [pc |-> "sign", token |-> q.token, fresh |-> q.fresh]
  <2>1. /\ q.token \in Token /\ q.ttl \in Nat
        /\ q.fresh /\ q.fresh \in BOOLEAN
        /\ now + q.ttl >= Exp(q.token) /\ q.ttl > 0
    BY <1>0, <1>5, RequestFields DEF RefreshRevoke, RequestInv
  <2>2. /\ Revoke(q.token, q.ttl) /\ Goto(r, next)
        /\ UNCHANGED <<now, signed, rotated>>
    BY <1>5, <2>1 DEF RefreshRevoke
  <2>3. until' \in [Token -> Nat] /\ ListInv' /\ revoked' \subseteq Token
    BY <2>1, <2>2, ListGrows
  <2>4. revoked' = revoked \union {q.token}
    BY <2>2 DEF Revoke
  <2>5. next \in Request
    BY <2>1, RequestTypes
  <2>6. RequestInv(next, now', revoked')
    BY <2>1, <2>4 DEF RequestInv
  <2>7. req' \in [Requests -> Request] /\ RequestsInv'
    BY <2>2, <2>4, <2>5, <2>6, RequestMoves
  <2> QED BY <2>2, <2>3, <2>4, <2>7 DEF AdminInv, TypeOK, RotatedIsRevoked
<1>6. ASSUME NEW r \in Requests, RefreshSign(r)
      PROVE  AdminInv'
  <2> DEFINE t == req[r].token
  <2>1. t \in Token /\ t \in revoked
    BY <1>0, <1>6, RequestFields DEF RefreshSign, RequestInv
  <2>2. /\ signed' = signed \union {Signed(t.sub)}
        /\ rotated' = rotated \union {t}
        /\ UNCHANGED <<now, until, revoked>>
        /\ Goto(r, [pc |-> "idle"])
    BY <1>6 DEF RefreshSign, HandOut, Done
  <2>3. Signed(t.sub) \in Token
    BY <1>0, <2>1, TokenTimes, SignedType
  <2>4. RequestInv([pc |-> "idle"], now', revoked')
    BY DEF RequestInv
  <2>5. req' \in [Requests -> Request] /\ RequestsInv'
    BY <2>2, <2>4, RequestTypes, RequestMoves
  <2>6. TypeOK'
    BY <2>1, <2>2, <2>3, <2>5 DEF AdminInv, TypeOK
  <2>7. RotatedIsRevoked'
    BY <2>1, <2>2 DEF AdminInv, RotatedIsRevoked
  <2> QED BY <2>2, <2>5, <2>6, <2>7, <1>b DEF AdminInv
<1>7. ASSUME NEW r \in Requests, NEW t \in signed, LogoutTTL(r, t)
      PROVE  AdminInv'
  <2> DEFINE next == [pc |-> "logout", token |-> t, ttl |-> TokenTTL(t)]
  <2>1. t \in Token /\ TokenTTL(t) \in Nat /\ now + TokenTTL(t) >= Exp(t)
    BY <1>0, TTLFacts DEF TypeOK
  <2>2. Goto(r, next) /\ UNCHANGED <<now, until, history>>
    BY <1>7 DEF LogoutTTL
  <2>3. next \in Request
    BY <2>1, RequestTypes
  <2>4. RequestInv(next, now', revoked')
    BY <2>1, <2>2 DEF RequestInv
  <2> QED BY <1>a, <2>2, <2>3, <2>4, RequestMoves DEF history
<1>8. ASSUME NEW r \in Requests, LogoutRevoke(r)
      PROVE  AdminInv'
  <2> DEFINE q == req[r]
  <2>1. /\ q.token \in Token /\ q.ttl \in Nat
        /\ now + q.ttl >= Exp(q.token)
    BY <1>0, <1>8, RequestFields DEF LogoutRevoke, RequestInv
  <2>2. /\ Revoke(q.token, q.ttl) /\ Goto(r, [pc |-> "idle"])
        /\ UNCHANGED <<now, signed, rotated>>
    BY <1>8 DEF LogoutRevoke, Done
  <2>3. until' \in [Token -> Nat] /\ ListInv' /\ revoked' \subseteq Token
    BY <2>1, <2>2, ListGrows
  <2>4. revoked' = revoked \union {q.token}
    BY <2>2 DEF Revoke
  <2>5. RequestInv([pc |-> "idle"], now', revoked')
    BY DEF RequestInv
  <2>6. req' \in [Requests -> Request] /\ RequestsInv'
    BY <2>2, <2>4, <2>5, RequestTypes, RequestMoves
  <2> QED BY <2>2, <2>3, <2>4, <2>6 DEF AdminInv, TypeOK, RotatedIsRevoked
<1>9. ASSUME Tick
      PROVE  AdminInv'
  <2>1. now' \in Seconds /\ now' \in Nat /\ now' >= now
    BY <1>0, <1>9, AdminAssumption DEF Tick, Seconds
  <2>2. req' \in [Requests -> Request] /\ RequestsInv'
    BY <1>9, <2>1, RequestKept DEF Tick, history
  <2> QED BY <1>9, <2>1, <2>2, <1>b
          DEF Tick, history, AdminInv, TypeOK, RotatedIsRevoked
<1>10. ASSUME NEW r \in Requests, Fail(r)
       PROVE  AdminInv'
  <2>1. Goto(r, [pc |-> "idle"]) /\ UNCHANGED <<now, until, history>>
    BY <1>10 DEF Fail, Done
  <2>2. RequestInv([pc |-> "idle"], now', revoked')
    BY DEF RequestInv
  <2> QED BY <1>a, <2>1, <2>2, RequestTypes, RequestMoves DEF history
<1>11. CASE UNCHANGED vars
  <2>1. req' \in [Requests -> Request] /\ RequestsInv'
    BY <1>0, <1>11, RequestKept DEF vars, history
  <2> QED BY <1>11, <2>1, <1>a DEF vars
<1> QED BY <1>1, <1>2, <1>3, <1>4, <1>5, <1>6, <1>7, <1>8, <1>9, <1>10,
           <1>11
        DEF Next, Step

LEMMA AdminInvariant == Spec => []AdminInv
BY InitAdmin, AdminStep, PTL DEF Spec

\* Every reachable state is well typed; in particular every entry of the
\* revocation list has a time to live that Redis accepts.
THEOREM AdminTypeCorrect == Spec => []TypeOK
BY AdminInvariant, PTL DEF AdminInv

\* The list forgets a token only when the JWT no longer verifies, for every
\* lifetime and however long a request takes between its calls.
THEOREM ListOutlivesTokens == Spec => []RevocationOutlivesToken
<1>1. AdminInv => RevocationOutlivesToken
  <2> SUFFICES ASSUME AdminInv, NEW t \in revoked, Verifies(t)
               PROVE  IsRevoked(t)
    BY DEF RevocationOutlivesToken
  <2>1. t \in Token /\ now \in Nat /\ until[t] \in Nat
    BY NowFacts DEF AdminInv, TypeOK
  <2> QED BY <2>1, TokenTimes DEF AdminInv, ListInv, Verifies, IsRevoked
<1> QED BY <1>1, AdminInvariant, PTL

\* A refresh gets past its checks only with a token that was never revoked.
THEOREM RevokedRefused == Spec => []RevokedIsRefused
<1>1. AdminInv => RevokedIsRefused
  BY DEF AdminInv, RequestsInv, RequestInv, RevokedIsRefused
<1> QED BY <1>1, AdminInvariant, PTL

\* No successor is signed before the old token is on the list.
THEOREM AdminRotationRevokes == Spec => []RotatedIsRevoked
BY AdminInvariant, PTL DEF AdminInv
=============================================================================
