----------------------------- MODULE OtpProofs ------------------------------
(***************************************************************************)
(* The safety properties of OtpStore as theorems, for any number of        *)
(* requests, codes and attempts.                                           *)
(***************************************************************************)
EXTENDS OtpStore, TLAPS

(***************************************************************************)
(* What a request holds, by the command it sends next.                     *)
(***************************************************************************)
LEMMA RequestFields ==
  ASSUME NEW q \in Request
  PROVE  /\ q.pc = "expire" => q.code \in Codes
         /\ q.pc = "count" => /\ q.input \in Codes \union {0}
                              /\ q.seen \in Codes /\ q.newest \in Codes
                              /\ q.attempts \in Nat
         /\ q.pc = "consume" => q.code \in Codes /\ q.newest \in Codes
BY DEF Request, Idle, Expiring, Counting, Dropping, Consuming

LEMMA RequestTypes ==
  /\ [pc |-> "idle"] \in Request
  /\ [pc |-> "drop"] \in Request
  /\ \A n \in Codes : [pc |-> "expire", code |-> n] \in Request
  /\ \A n, m \in Codes :
       [pc |-> "consume", code |-> n, newest |-> m] \in Request
  /\ \A i \in Codes \union {0}, n, m \in Codes, k \in Nat :
       [pc |-> "count", input |-> i, seen |-> n, attempts |-> k,
        newest |-> m] \in Request
BY DEF Request, Idle, Expiring, Counting, Dropping, Consuming

LEMMA CodeFacts ==
  /\ Codes \subseteq Nat /\ 0 \notin Codes
  /\ \A n \in Codes \union {0} : n < MaxIssues => n + 1 \in Codes
  /\ \A n \in Codes \union {0} : \A i \in 0..n : i \in Codes \union {0}
BY OtpAssumption DEF Codes

LEMMA GotoFacts ==
  ASSUME TypeOK, NEW r \in Requests, NEW next \in Request, Goto(r, next)
  PROVE  /\ req' \in [Requests -> Request]
         /\ req'[r] = next
         /\ \A q \in Requests : q # r => req'[q] = req[q]
BY DEF TypeOK, Goto

LEMMA JudgeFacts ==
  ASSUME TypeOK, NEW n \in Codes, Judge(n)
  PROVE  /\ judged' \in [Codes -> Nat]
         /\ judged'[n] = IF judged[n] > MaxAttempts THEN judged[n]
                         ELSE judged[n] + 1
         /\ \A m \in Codes : m # n => judged'[m] = judged[m]
BY DEF TypeOK, Judge

(***************************************************************************)
(* The key holds the newest code or none; what requests remember of codes  *)
(* is no newer; nothing that was accepted is in the key.                   *)
(***************************************************************************)
KnownCodes(q, n) ==
  /\ q.pc = "expire" => q.code <= n
  /\ q.pc = "count" => q.seen = q.newest /\ q.newest <= n
  /\ q.pc = "consume" => q.code = q.newest /\ q.newest <= n

CodesInv ==
  /\ hash \in {0, issued}
  /\ UsedCodeIsGone
  /\ \A n \in used : n <= issued
  /\ \A r \in Requests : KnownCodes(req[r], issued)

StoreInv == TypeOK /\ CodesInv

(***************************************************************************)
(* The moves of one request, with the codes issued meanwhile.              *)
(***************************************************************************)
LEMMA KnownStays ==
  ASSUME NEW q \in Request, NEW n \in Nat, NEW m \in Nat, n <= m,
         KnownCodes(q, n)
  PROVE  KnownCodes(q, m)
<1>1. CASE q.pc = "expire"
  <2>1. q.code \in Nat /\ q.code <= n
    BY <1>1, RequestFields, CodeFacts DEF KnownCodes
  <2>2. q.code <= m
    BY <2>1
  <2> QED BY <1>1, <2>2 DEF KnownCodes
<1>2. CASE q.pc = "count"
  <2>1. q.newest \in Nat /\ q.newest <= n
    BY <1>2, RequestFields, CodeFacts DEF KnownCodes
  <2>2. q.newest <= m
    BY <2>1
  <2> QED BY <1>2, <2>2 DEF KnownCodes
<1>3. CASE q.pc = "consume"
  <2>1. q.newest \in Nat /\ q.newest <= n
    BY <1>3, RequestFields, CodeFacts DEF KnownCodes
  <2>2. q.newest <= m
    BY <2>1
  <2> QED BY <1>3, <2>2 DEF KnownCodes
<1> QED BY <1>1, <1>2, <1>3 DEF KnownCodes

LEMMA MoveKnown ==
  ASSUME StoreInv, NEW r \in Requests, NEW next \in Request, Goto(r, next),
         issued' \in Nat, issued <= issued', KnownCodes(next, issued')
  PROVE  /\ req' \in [Requests -> Request]
         /\ \A q \in Requests : KnownCodes(req'[q], issued')
<1>1. TypeOK /\ issued \in Nat
  BY CodeFacts DEF StoreInv, TypeOK
<1>2. /\ req' \in [Requests -> Request]
      /\ req'[r] = next
      /\ \A q \in Requests : q # r => req'[q] = req[q]
  BY <1>1, GotoFacts
<1>3. \A q \in Requests : req[q] \in Request /\ KnownCodes(req[q], issued)
  BY DEF StoreInv, TypeOK, CodesInv
<1>4. \A q \in Requests : KnownCodes(req[q], issued')
  BY <1>1, <1>3, KnownStays
<1> QED BY <1>2, <1>4

LEMMA StoreStep == StoreInv /\ [Next]_vars => StoreInv'
<1> SUFFICES ASSUME StoreInv, [Next]_vars PROVE StoreInv'
  OBVIOUS
<1>0. /\ TypeOK /\ CodesInv
      /\ issued \in Nat /\ issued <= issued
      /\ \A r \in Requests : req[r] \in Request /\ KnownCodes(req[r], issued)
  BY CodeFacts DEF StoreInv, TypeOK, CodesInv
\* A step that moves one request and issues no code.
<1>a. ASSUME NEW r \in Requests, NEW next \in Request, Goto(r, next),
             KnownCodes(next, issued), issued' = issued
      PROVE  /\ req' \in [Requests -> Request]
             /\ \A q \in Requests : KnownCodes(req'[q], issued')
  BY <1>0, <1>a, MoveKnown
<1>b. ASSUME NEW r \in Requests, Done(r), issued' = issued
      PROVE  /\ req' \in [Requests -> Request]
             /\ \A q \in Requests : KnownCodes(req'[q], issued')
  BY <1>a, <1>b, RequestTypes DEF Done, KnownCodes
<1>1. ASSUME NEW r \in Requests, StoreCode(r), attempts' \in Nat
      PROVE  StoreInv'
  <2> DEFINE next == [pc |-> "expire", code |-> issued + 1]
  <2>1. /\ issued + 1 \in Codes /\ issued' = issued + 1 /\ hash' = issued + 1
        /\ Goto(r, next)
    BY <1>0, <1>1, CodeFacts DEF StoreCode, TypeOK
  <2>2. next \in Request /\ KnownCodes(next, issued')
    BY <1>0, <2>1, RequestTypes DEF KnownCodes
  <2>3. issued' \in Nat /\ issued <= issued'
    BY <1>0, <2>1
  <2> HIDE DEF next
  <2>4. /\ req' \in [Requests -> Request]
        /\ \A q \in Requests : KnownCodes(req'[q], issued')
    BY <2>1, <2>2, <2>3, MoveKnown
  <2>5. raced' \subseteq Codes
    BY <1>0, <1>1, <2>1 DEF StoreCode, Raced, TypeOK
  <2>6. TypeOK'
    BY <1>0, <1>1, <2>1, <2>4, <2>5 DEF StoreCode, TypeOK
  <2>7. /\ \A n \in used' : n <= issued'
        /\ hash' \notin used'
    BY <1>0, <1>1, <2>1, CodeFacts DEF StoreCode, CodesInv, TypeOK
  <2> QED BY <2>1, <2>4, <2>6, <2>7 DEF StoreInv, CodesInv, UsedCodeIsGone
<1>2. ASSUME NEW r \in Requests, SetExpiry(r)
      PROVE  StoreInv'
  <2>1. UNCHANGED <<hash, attempts, history>>
    BY <1>2 DEF SetExpiry
  <2>2. expiring' \in BOOLEAN
    BY <1>2 DEF SetExpiry, KeyExists
  <2>3. /\ req' \in [Requests -> Request]
        /\ \A q \in Requests : KnownCodes(req'[q], issued')
    BY <1>2, <1>b, <2>1 DEF SetExpiry, history
  <2> QED BY <1>0, <2>1, <2>2, <2>3
          DEF StoreInv, TypeOK, CodesInv, UsedCodeIsGone, history
<1>3. ASSUME NEW r \in Requests, NEW i \in 0..issued, ReadCode(r, i)
      PROVE  StoreInv'
  <2>0. UNCHANGED <<key, issued, used, reused, judged, unsealed>>
    BY <1>3 DEF ReadCode
  <2>1. /\ req' \in [Requests -> Request]
        /\ \A q \in Requests : KnownCodes(req'[q], issued')
    <3>1. CASE hash = 0
      BY <1>0, <1>3, <3>1 DEF ReadCode, TypeOK
    <3>2. CASE hash # 0
      <4> DEFINE next == [pc |-> "count", input |-> i, seen |-> hash,
                          attempts |-> attempts + 1, newest |-> issued]
      <4>1. /\ hash = issued /\ issued \in Codes /\ attempts + 1 \in Nat
            /\ i \in Codes \union {0}
        BY <1>0, <3>2, CodeFacts DEF CodesInv, TypeOK
      <4>2. Goto(r, next) /\ issued' = issued
        BY <1>3, <3>2 DEF ReadCode
      <4>3. next \in Request
        BY <4>1, RequestTypes
      <4>4. KnownCodes(next, issued)
        BY <1>0, <4>1 DEF KnownCodes
      <4> HIDE DEF next
      <4> QED BY <1>a, <4>2, <4>3, <4>4
    <3> QED BY <3>1, <3>2
  <2>2. raced' \subseteq Codes
    BY <1>0, <1>3 DEF ReadCode, Raced, TypeOK
  <2> QED BY <1>0, <2>0, <2>1, <2>2
          DEF StoreInv, TypeOK, CodesInv, UsedCodeIsGone, key
<1>4. ASSUME NEW r \in Requests, CountAttempt(r)
      PROVE  StoreInv'
  <2>0. /\ req[r].pc = "count" /\ req[r].seen \in Codes
        /\ req[r].newest \in Codes /\ req[r].attempts \in Nat
        /\ req[r].seen = req[r].newest /\ req[r].newest <= issued
        /\ attempts' = req[r].attempts
        /\ UNCHANGED <<hash, expiring, issued, used, reused, raced, unsealed>>
        /\ Decide(r)
    BY <1>0, <1>4, RequestFields DEF CountAttempt, KnownCodes
  <2>1. /\ req' \in [Requests -> Request]
        /\ \A q \in Requests : KnownCodes(req'[q], issued')
    <3>1. CASE Goto(r, [pc |-> "drop"])
      BY <1>a, <2>0, <3>1, RequestTypes DEF KnownCodes
    <3>2. CASE Done(r)
      BY <1>b, <2>0, <3>2
    <3>3. CASE Goto(r, [pc |-> "consume", code |-> req[r].seen,
                        newest |-> req[r].newest])
      <4> DEFINE next == [pc |-> "consume", code |-> req[r].seen,
                          newest |-> req[r].newest]
      <4>1. next \in Request /\ KnownCodes(next, issued)
        BY <2>0, RequestTypes DEF KnownCodes
      <4> HIDE DEF next
      <4> QED BY <1>a, <2>0, <3>3, <4>1 DEF next
    <3> QED BY <2>0, <3>1, <3>2, <3>3 DEF Decide
  <2>2. judged' \in [Codes -> Nat]
    BY <1>0, <2>0, JudgeFacts DEF Decide, TypeOK
  <2> QED BY <1>0, <2>0, <2>1, <2>2
          DEF StoreInv, TypeOK, CodesInv, UsedCodeIsGone
<1>5. ASSUME NEW r \in Requests, DropCode(r)
      PROVE  StoreInv'
  <2>1. /\ req' \in [Requests -> Request]
        /\ \A q \in Requests : KnownCodes(req'[q], issued')
    BY <1>5, <1>b DEF DropCode, history
  <2> QED BY <1>0, <1>5, <2>1
          DEF DropCode, DeleteKey, StoreInv, TypeOK, CodesInv, UsedCodeIsGone,
              history
<1>6. ASSUME NEW r \in Requests, NEW i \in 0..issued, ReadResetCode(r, i)
      PROVE  StoreInv'
  <2>0. UNCHANGED <<key, history>>
    BY <1>6 DEF ReadResetCode
  <2>1. /\ req' \in [Requests -> Request]
        /\ \A q \in Requests : KnownCodes(req'[q], issued')
    <3>1. CASE UNCHANGED req
      BY <1>0, <2>0, <3>1 DEF TypeOK, history
    <3>2. CASE hash # 0 /\ Goto(r, [pc |-> "consume", code |-> hash,
                                    newest |-> issued])
      <4> DEFINE next == [pc |-> "consume", code |-> hash, newest |-> issued]
      <4>1. hash = issued /\ issued \in Codes
        BY <1>0, <3>2 DEF CodesInv, TypeOK
      <4>2. next \in Request /\ KnownCodes(next, issued)
        BY <1>0, <4>1, RequestTypes DEF KnownCodes
      <4>3. Goto(r, next) /\ issued' = issued
        BY <2>0, <3>2 DEF history
      <4> HIDE DEF next
      <4> QED BY <1>a, <4>2, <4>3
    <3> QED BY <1>6, <3>1, <3>2 DEF ReadResetCode
  <2> QED BY <1>0, <2>0, <2>1
          DEF StoreInv, TypeOK, CodesInv, UsedCodeIsGone, key, history
<1>7. ASSUME NEW r \in Requests, ConsumeCode(r)
      PROVE  StoreInv'
  <2>0. /\ req[r].code \in Codes /\ req[r].code <= issued
        /\ used' = used \union {req[r].code}
        /\ reused' \subseteq reused \union {req[r].code}
        /\ UNCHANGED <<issued, judged, raced, unsealed>>
        /\ DeleteKey
    BY <1>0, <1>7, RequestFields DEF ConsumeCode, KnownCodes
  <2>1. /\ req' \in [Requests -> Request]
        /\ \A q \in Requests : KnownCodes(req'[q], issued')
    BY <1>7, <1>b, <2>0 DEF ConsumeCode
  <2> QED BY <1>0, <2>0, <2>1
          DEF DeleteKey, StoreInv, TypeOK, CodesInv, UsedCodeIsGone
<1>8. ASSUME KeyExpires
      PROVE  StoreInv'
  BY <1>0, <1>8 DEF KeyExpires, DeleteKey, StoreInv, TypeOK, CodesInv,
                    UsedCodeIsGone, history
<1>9. ASSUME NEW r \in Requests, Fail(r)
      PROVE  StoreInv'
  <2>0. /\ unsealed' \subseteq Codes
        /\ UNCHANGED <<key, issued, used, reused, judged, raced>>
    BY <1>0, <1>9, RequestFields DEF Fail, TypeOK
  <2>1. /\ req' \in [Requests -> Request]
        /\ \A q \in Requests : KnownCodes(req'[q], issued')
    BY <1>9, <1>b, <2>0 DEF Fail
  <2> QED BY <1>0, <2>0, <2>1
          DEF StoreInv, TypeOK, CodesInv, UsedCodeIsGone, key
<1>10. CASE UNCHANGED vars
  BY <1>0, <1>10 DEF vars, key, history, StoreInv, TypeOK, CodesInv,
                     UsedCodeIsGone
<1>11. ASSUME NEW r \in Requests,
              StoreVerificationCode(r) \/ StoreResetCode(r)
       PROVE  StoreInv'
  BY <1>0, <1>1, <1>11 DEF StoreVerificationCode, StoreResetCode, TypeOK
<1> QED BY <1>2, <1>3, <1>4, <1>5, <1>6, <1>7, <1>8, <1>9, <1>10, <1>11
        DEF Next, Step

LEMMA InitStore == Init => StoreInv
<1> SUFFICES ASSUME Init PROVE StoreInv
  OBVIOUS
<1>1. req \in [Requests -> Request] /\ \A r \in Requests : req[r].pc = "idle"
  BY RequestTypes DEF Init
<1>2. TypeOK
  BY <1>1 DEF Init, TypeOK
<1>3. CodesInv
  BY <1>1 DEF Init, CodesInv, UsedCodeIsGone, KnownCodes
<1> QED BY <1>2, <1>3 DEF StoreInv

LEMMA StoreInvariant == Spec => []StoreInv
BY InitStore, StoreStep, PTL DEF Spec

\* Every reachable state is well typed.
THEOREM OtpTypeCorrect == Spec => []TypeOK
BY StoreInvariant, PTL DEF StoreInv

\* A code that was accepted is never in the key again, whatever is in flight.
THEOREM UsedCodesAreGone == Spec => []UsedCodeIsGone
BY StoreInvariant, PTL DEF StoreInv, CodesInv

\* A code about to be accepted was the newest when the verification began.
THEOREM AcceptedIsNewest == Spec => []AcceptedWasNewest
<1>1. StoreInv => AcceptedWasNewest
  BY DEF StoreInv, CodesInv, KnownCodes, AcceptedWasNewest
<1> QED BY <1>1, StoreInvariant, PTL

(***************************************************************************)
(* A stored code has a time to live unless its request still owes it, or   *)
(* failed: inductive on the well-typed states.                             *)
(***************************************************************************)
LEMMA ExpiryStep == StoreInv /\ CodesExpire /\ [Next]_vars => CodesExpire'
<1> SUFFICES ASSUME StoreInv, CodesExpire, [Next]_vars, hash' # 0, ~expiring'
             PROVE  \/ hash' \in unsealed'
                    \/ \E q \in Requests : /\ req'[q].pc = "expire"
                                          /\ req'[q].code = hash'
  BY DEF CodesExpire
<1>0. TypeOK /\ expiring \in BOOLEAN
  BY DEF StoreInv, TypeOK
\* A request that owed no expiry moves, and nothing else changes.
<1>a. ASSUME NEW r \in Requests, req[r].pc # "expire",
             \A q \in Requests : q # r => req'[q] = req[q],
             hash' = hash, expiring' = expiring, unsealed' = unsealed
      PROVE  \/ hash' \in unsealed'
             \/ \E q \in Requests : /\ req'[q].pc = "expire"
                                   /\ req'[q].code = hash'
  <2>1. CASE hash \in unsealed
    BY <1>a, <2>1
  <2>2. CASE hash \notin unsealed
    <3>1. PICK q \in Requests : req[q].pc = "expire" /\ req[q].code = hash
      BY <1>a, <2>2 DEF CodesExpire
    <3> QED BY <1>a, <3>1
  <2> QED BY <2>1, <2>2
<1>b. ASSUME NEW r \in Requests, NEW next, Goto(r, next)
      PROVE  /\ req'[r] = next
             /\ \A q \in Requests : q # r => req'[q] = req[q]
  BY <1>0, <1>b DEF Goto, TypeOK
<1>1. ASSUME NEW r \in Requests, StoreCode(r)
      PROVE  req'[r].pc = "expire" /\ req'[r].code = hash'
  BY <1>1, <1>b DEF StoreCode
<1>2. ASSUME NEW r \in Requests, SetExpiry(r)
      PROVE  FALSE
  BY <1>2 DEF SetExpiry, KeyExists
<1>3. ASSUME NEW r \in Requests, NEW i \in 0..issued,
             ReadCode(r, i) \/ ReadResetCode(r, i)
      PROVE  UNCHANGED req \/ \E next : req[r].pc = "idle" /\ Goto(r, next)
  BY <1>3 DEF ReadCode, ReadResetCode
<1>4. ASSUME NEW r \in Requests, CountAttempt(r)
      PROVE  \E next : Goto(r, next)
  BY <1>4 DEF CountAttempt, Decide, Done
<1>5. ASSUME NEW r \in Requests, Fail(r), req[r].pc = "expire"
      PROVE  \/ hash' \in unsealed'
             \/ \E q \in Requests : /\ req'[q].pc = "expire"
                                   /\ req'[q].code = hash'
  <2>1. /\ \A q \in Requests : q # r => req'[q] = req[q]
        /\ hash' = hash /\ expiring' = expiring
        /\ unsealed' = unsealed \union {req[r].code}
    BY <1>5, <1>b DEF Fail, Done, key
  <2>2. CASE hash \in unsealed'
    BY <2>1, <2>2
  <2>3. CASE hash \notin unsealed'
    <3>1. PICK q \in Requests : req[q].pc = "expire" /\ req[q].code = hash
      BY <2>1, <2>3 DEF CodesExpire
    <3> QED BY <2>1, <2>3, <3>1
  <2> QED BY <2>2, <2>3
<1>6. ASSUME NEW r \in Requests, DropCode(r) \/ ConsumeCode(r)
      PROVE  FALSE
  BY <1>6 DEF DropCode, ConsumeCode, DeleteKey
<1>7. ASSUME NEW r \in Requests, NEW i \in 0..issued,
             ReadCode(r, i) \/ ReadResetCode(r, i)
      PROVE  \/ hash' \in unsealed'
             \/ \E q \in Requests : /\ req'[q].pc = "expire"
                                   /\ req'[q].code = hash'
  <2>1. hash' = hash /\ expiring' = expiring /\ unsealed' = unsealed
    BY <1>7 DEF ReadCode, ReadResetCode, key, history
  <2>2. CASE UNCHANGED req
    BY <2>1, <2>2 DEF CodesExpire
  <2>3. CASE \E next : req[r].pc = "idle" /\ Goto(r, next)
    BY <1>a, <1>b, <2>1, <2>3
  <2> QED BY <1>3, <1>7, <2>2, <2>3
<1>8. ASSUME NEW r \in Requests, CountAttempt(r)
      PROVE  \/ hash' \in unsealed'
             \/ \E q \in Requests : /\ req'[q].pc = "expire"
                                   /\ req'[q].code = hash'
  BY <1>a, <1>b, <1>4, <1>8 DEF CountAttempt
<1>9. ASSUME NEW r \in Requests, Fail(r), req[r].pc # "expire"
      PROVE  \/ hash' \in unsealed'
             \/ \E q \in Requests : /\ req'[q].pc = "expire"
                                   /\ req'[q].code = hash'
  BY <1>a, <1>b, <1>9 DEF Fail, Done, key
<1>10. CASE UNCHANGED vars
  BY <1>10 DEF vars, key, history, CodesExpire
<1>11. CASE KeyExpires
  BY <1>11 DEF KeyExpires, DeleteKey
<1> QED BY <1>1, <1>2, <1>5, <1>6, <1>7, <1>8, <1>9, <1>10, <1>11
        DEF Next, Step, StoreVerificationCode, StoreResetCode

\* A stored code has a time to live unless the request that stored it has
\* still to set it, or failed before it could.
THEOREM EveryCodeExpires == Spec => []CodesExpire
<1>1. Init => CodesExpire
  BY DEF Init, CodesExpire
<1> QED BY <1>1, ExpiryStep, StoreInvariant, PTL DEF Spec

(***************************************************************************)
(* The attempt limit.  A code that no late count has touched is not in     *)
(* "raced": at most one request is about to count a guess at it, with a    *)
(* count that exceeds the guesses compared so far.                         *)
(***************************************************************************)
CountingAt(r, n) == req[r].pc = "count" /\ req[r].seen = n

OneCounts ==
  \A n \in Codes \ raced : \A r, q \in Requests :
    CountingAt(r, n) /\ CountingAt(q, n) => r = q

CountsAhead ==
  \A n \in Codes \ raced : \A r \in Requests :
    CountingAt(r, n) => judged[n] < req[r].attempts

StoreCounts ==
  hash # 0 /\ hash \notin raced =>
    /\ judged[hash] <= attempts
    /\ \A r \in Requests :
         req[r].pc = "count" =>
           req[r].seen = hash /\ req[r].attempts = attempts + 1

CountInv ==
  /\ \A n \in Codes : n > issued => judged[n] = 0
  /\ AttemptLimit
  /\ OneCounts
  /\ CountsAhead
  /\ StoreCounts

LEMMA CountStep == StoreInv /\ CountInv /\ [Next]_vars => CountInv'
<1> SUFFICES ASSUME StoreInv, CountInv, [Next]_vars PROVE CountInv'
  OBVIOUS
<1>0. /\ TypeOK /\ CodesInv
      /\ issued \in Nat /\ attempts \in Nat /\ MaxAttempts \in Nat
      /\ judged \in [Codes -> Nat]
      /\ \A n \in Codes : n \in Nat /\ judged[n] \in Nat
      /\ \A r \in Requests : /\ req[r] \in Request
                             /\ KnownCodes(req[r], issued)
                             /\ req[r].pc = "count" =>
                                  /\ req[r].seen \in Codes
                                  /\ req[r].attempts \in Nat
  BY CodeFacts, RequestFields, OtpAssumption
     DEF StoreInv, TypeOK, CodesInv
\* A step after which fewer requests count, of the same guesses.
<1>a. ASSUME NEW r \in Requests, NEW next, Goto(r, next), next.pc # "count",
             UNCHANGED <<issued, judged, raced>>,
             hash' = 0 \/ (hash' = hash /\ attempts' = attempts)
      PROVE  CountInv'
  <2>1. \A q \in Requests : req'[q].pc = "count" => req'[q] = req[q]
    BY <1>0, <1>a DEF Goto, TypeOK
  <2>2. \A n \in Codes : n > issued' => judged'[n] = 0
    BY <1>a DEF CountInv
  <2>3. AttemptLimit'
    BY <1>a DEF CountInv, AttemptLimit
  <2>4. OneCounts'
    BY <1>a, <2>1 DEF CountInv, OneCounts, CountingAt
  <2>5. CountsAhead'
    BY <1>a, <2>1 DEF CountInv, CountsAhead, CountingAt
  <2>6. StoreCounts'
    BY <1>a, <2>1 DEF CountInv, StoreCounts
  <2> QED BY <2>2, <2>3, <2>4, <2>5, <2>6 DEF CountInv
\* A step of the store alone.
<1>b. ASSUME UNCHANGED <<req, issued, judged, raced>>,
             hash' = 0 \/ (hash' = hash /\ attempts' = attempts)
      PROVE  CountInv'
  BY <1>b DEF CountInv, AttemptLimit, OneCounts, CountsAhead, StoreCounts,
              CountingAt
<1>1. ASSUME NEW r \in Requests, StoreCode(r), attempts' \in Nat
      PROVE  CountInv'
  <2>1. /\ issued + 1 \in Codes /\ issued' = issued + 1 /\ hash' = issued + 1
        /\ UNCHANGED judged
        /\ raced' = IF CountDue(r) THEN raced \union {issued + 1} ELSE raced
    BY <1>0, <1>1, CodeFacts DEF StoreCode, TypeOK, Raced
  <2>2. /\ req'[r].pc = "expire"
        /\ \A q \in Requests : q # r => req'[q] = req[q]
    BY <1>0, <1>1 DEF StoreCode, Goto, TypeOK
  <2>3. \A n \in Codes : n > issued' => judged'[n] = 0
    BY <1>0, <2>1 DEF CountInv
  <2>4. AttemptLimit'
    BY <2>1 DEF CountInv, AttemptLimit
  <2>5. OneCounts'
    BY <2>1, <2>2 DEF CountInv, OneCounts, CountingAt
  <2>6. CountsAhead'
    BY <2>1, <2>2 DEF CountInv, CountsAhead, CountingAt
  <2>7. StoreCounts'
    <3>1. ASSUME hash' \notin raced'
          PROVE  \A q \in Requests : req'[q].pc # "count"
      BY <2>1, <2>2, <3>1 DEF CountDue
    <3>2. judged'[hash'] <= attempts'
      BY <1>0, <1>1, <2>1 DEF CountInv
    <3> QED BY <3>1, <3>2 DEF StoreCounts
  <2> QED BY <2>3, <2>4, <2>5, <2>6, <2>7 DEF CountInv
<1>2. ASSUME NEW r \in Requests, SetExpiry(r)
      PROVE  CountInv'
  BY <1>2, <1>a DEF SetExpiry, Done, history
<1>3. ASSUME NEW r \in Requests, NEW i \in 0..issued, ReadCode(r, i)
      PROVE  CountInv'
  <2>1. UNCHANGED <<hash, attempts, issued, judged>>
    BY <1>3 DEF ReadCode, key
  <2>2. CASE hash = 0
    BY <1>b, <1>3, <2>1, <2>2 DEF ReadCode
  <2>3. CASE hash # 0
    <3>1. /\ hash \in Codes
          /\ raced' = IF CountDue(r) THEN raced \union {hash} ELSE raced
          /\ req[r].pc = "idle"
      BY <1>0, <1>3, <2>3 DEF ReadCode, Raced, TypeOK
    <3>2. /\ req'[r].pc = "count" /\ req'[r].seen = hash
          /\ req'[r].attempts = attempts + 1
          /\ \A q \in Requests : q # r => req'[q] = req[q]
      BY <1>0, <1>3, <2>3 DEF ReadCode, Goto, TypeOK
    <3>3. hash \notin raced' => \A q \in Requests \ {r} : req[q].pc # "count"
      BY <3>1 DEF CountDue
    <3>4. \A n \in Codes : n > issued' => judged'[n] = 0
      BY <2>1 DEF CountInv
    <3>5. AttemptLimit'
      BY <2>1, <3>1 DEF CountInv, AttemptLimit
    <3>6. OneCounts'
      BY <3>1, <3>2, <3>3 DEF CountInv, OneCounts, CountingAt
    <3>7. hash \notin raced' => judged[hash] <= attempts
      BY <2>3, <3>1 DEF CountInv, StoreCounts
    <3>8. CountsAhead'
      <4> SUFFICES ASSUME NEW n \in Codes \ raced', NEW q \in Requests,
                          req'[q].pc = "count", req'[q].seen = n
                   PROVE  judged'[n] < req'[q].attempts
        BY DEF CountsAhead, CountingAt
      <4>1. CASE q = r
        BY <1>0, <2>1, <3>1, <3>2, <3>7, <4>1
      <4>2. CASE q # r
        BY <2>1, <3>1, <3>2, <4>2 DEF CountInv, CountsAhead, CountingAt
      <4> QED BY <4>1, <4>2
    <3>9. StoreCounts'
      BY <2>1, <3>2, <3>3, <3>7 DEF StoreCounts
    <3> QED BY <3>4, <3>5, <3>6, <3>8, <3>9 DEF CountInv
  <2> QED BY <2>2, <2>3
<1>4. ASSUME NEW r \in Requests, CountAttempt(r)
      PROVE  CountInv'
  <2> DEFINE n == req[r].seen
             k == req[r].attempts
  <2>1. /\ n \in Codes /\ n <= issued /\ k \in Nat /\ attempts' = k
        /\ req[r].pc = "count" /\ CountingAt(r, n)
        /\ UNCHANGED <<hash, issued, raced>>
    BY <1>0, <1>4 DEF CountAttempt, KnownCodes, CountingAt
  <2>2. \/ k > MaxAttempts /\ UNCHANGED judged
        \/ k <= MaxAttempts /\ Judge(n)
    BY <1>4 DEF CountAttempt, Decide
  <2>3. \E next : Goto(r, next) /\ next.pc # "count"
    BY <1>4 DEF CountAttempt, Decide, Done
  <2>4. /\ req'[r].pc # "count"
        /\ \A q \in Requests : q # r => req'[q] = req[q]
    BY <1>0, <2>3 DEF Goto, TypeOK
  <2>5. /\ \A m \in Codes : m # n => judged'[m] = judged[m]
        /\ judged'[n] \in Nat /\ judged'[n] <= judged[n] + 1
        /\ k > MaxAttempts => judged'[n] = judged[n]
    BY <1>0, <2>1, <2>2, JudgeFacts
  <2>6. n \notin raced => judged[n] < k
    BY <2>1 DEF CountInv, CountsAhead
  <2> HIDE DEF n, k
  <2>7. \A m \in Codes : m > issued' => judged'[m] = 0
    BY <1>0, <2>1, <2>5 DEF CountInv
  <2>8. AttemptLimit'
    <3> SUFFICES ASSUME NEW m \in Codes, m \notin raced'
                 PROVE  judged'[m] <= MaxAttempts
      BY DEF AttemptLimit
    <3>1. m \notin raced /\ judged[m] <= MaxAttempts
      BY <2>1 DEF CountInv, AttemptLimit
    <3>2. CASE m # n
      BY <2>5, <3>1, <3>2
    <3>3. CASE m = n /\ k > MaxAttempts
      BY <2>5, <3>1, <3>3
    <3>4. CASE m = n /\ k <= MaxAttempts
      BY <1>0, <2>1, <2>5, <2>6, <3>1, <3>4
    <3> QED BY <1>0, <2>1, <3>2, <3>3, <3>4
  <2>9. OneCounts'
    BY <2>1, <2>4 DEF CountInv, OneCounts, CountingAt
  <2>10. CountsAhead'
    <3> SUFFICES ASSUME NEW m \in Codes \ raced', NEW q \in Requests,
                        req'[q].pc = "count", req'[q].seen = m
                 PROVE  judged'[m] < req'[q].attempts
      BY DEF CountsAhead, CountingAt
    <3>1. q # r /\ req'[q] = req[q] /\ CountingAt(q, m) /\ m \notin raced
      BY <2>1, <2>4 DEF CountingAt
    <3>2. m # n
      BY <2>1, <3>1 DEF CountInv, OneCounts
    <3> QED BY <2>5, <3>1, <3>2 DEF CountInv, CountsAhead
  <2>11. StoreCounts'
    <3> SUFFICES ASSUME hash # 0, hash \notin raced
                 PROVE  /\ judged'[hash] <= attempts'
                        /\ \A q \in Requests : req'[q].pc # "count"
      BY <2>1 DEF StoreCounts
    <3>1. hash = n /\ \A q \in Requests : req[q].pc = "count"
                                              => CountingAt(q, n)
      BY <2>1 DEF CountInv, StoreCounts, CountingAt
    <3>2. \A q \in Requests : req[q].pc = "count" => q = r
      BY <2>1, <3>1 DEF CountInv, OneCounts
    <3>3. judged'[n] <= k
      BY <1>0, <2>1, <2>5, <2>6, <3>1
    <3> QED BY <2>1, <2>4, <3>1, <3>2, <3>3
  <2> QED BY <2>7, <2>8, <2>9, <2>10, <2>11 DEF CountInv
<1>5. ASSUME NEW r \in Requests, DropCode(r)
      PROVE  CountInv'
  BY <1>5, <1>a DEF DropCode, DeleteKey, Done, history
<1>6. ASSUME NEW r \in Requests, NEW i \in 0..issued, ReadResetCode(r, i)
      PROVE  CountInv'
  <2>1. UNCHANGED <<hash, attempts, issued, judged, raced>>
    BY <1>6 DEF ReadResetCode, key, history
  <2>2. CASE UNCHANGED req
    BY <1>b, <2>1, <2>2
  <2>3. CASE Goto(r, [pc |-> "consume", code |-> hash, newest |-> issued])
    BY <1>a, <2>1, <2>3
  <2> QED BY <1>6, <2>2, <2>3 DEF ReadResetCode
<1>7. ASSUME NEW r \in Requests, ConsumeCode(r)
      PROVE  CountInv'
  BY <1>7, <1>a DEF ConsumeCode, DeleteKey, Done
<1>8. CASE KeyExpires
  BY <1>8, <1>b DEF KeyExpires, DeleteKey, history
<1>9. ASSUME NEW r \in Requests, Fail(r)
      PROVE  CountInv'
  BY <1>9, <1>a DEF Fail, Done, key
<1>10. CASE UNCHANGED vars
  BY <1>10, <1>b DEF vars, key, history
<1>11. ASSUME NEW r \in Requests,
              StoreVerificationCode(r) \/ StoreResetCode(r)
       PROVE  CountInv'
  BY <1>0, <1>1, <1>11 DEF StoreVerificationCode, StoreResetCode
<1> QED BY <1>2, <1>3, <1>4, <1>5, <1>6, <1>7, <1>8, <1>9, <1>10, <1>11
        DEF Next, Step

\* The verification service compares at most MaxAttempts guesses with a code
\* that no late count has touched, however requests interleave and fail.
THEOREM AttemptsAreLimited == Spec => []AttemptLimit
<1>1. Init => CountInv
  BY OtpAssumption
     DEF Init, CountInv, AttemptLimit, OneCounts, CountsAhead, StoreCounts,
         CountingAt
<1>2. CountInv => AttemptLimit
  BY DEF CountInv
<1> QED BY <1>1, <1>2, CountStep, StoreInvariant, PTL DEF Spec
=============================================================================
