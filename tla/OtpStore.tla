------------------------------ MODULE OtpStore ------------------------------
(***************************************************************************)
(* One-time codes of one e-mail address: the Redis hash "otp:email:<addr>" *)
(* and the two services that share it.                                     *)
(*                                                                         *)
(*   - the verification service (redis-otp.service.ts) is used by sign-up, *)
(*     resend and verify-email, and counts attempts;                       *)
(*   - the reset service (redis.otp.ts) is used by the forgot-password     *)
(*     flows of customers and admins, and does not.                        *)
(*                                                                         *)
(* Every Redis command is a step, so the commands of requests in flight    *)
(* interleave.  The n-th code ever stored is the number n; 0 stands for no *)
(* code (and for a guess that matches none).  Keys of different addresses  *)
(* do not interact: the module is about one.                               *)
(***************************************************************************)
EXTENDS Integers

CONSTANTS
  Requests,     \* slots for HTTP requests in flight at the same time
  MaxAttempts,  \* config.otp.maxAttempts
  MaxIssues     \* bound: codes ever stored

\* Bound: counts past the limit that are told apart.
MaxCount == MaxAttempts + 1

ASSUME OtpAssumption == MaxAttempts \in Nat \ {0} /\ MaxIssues \in Nat

VARIABLES
  hash,      \* field "hash" of the key: the code stored, 0 if there is none
  attempts,  \* field "attempts", 0 if it is missing (the code reads it so)
  expiring,  \* the key has a time to live
  req,       \* req[r]: what request r remembers between its commands
  \* History variables: no code reads them.
  issued,    \* codes stored so far
  used,      \* codes that a verification has accepted
  reused,    \* codes accepted more than once
  judged,    \* judged[n]: guesses the verification service compared with n
  raced,     \* codes stored or read while another request's count was due
  unsealed   \* codes whose request failed before it could set the expiry

key == <<hash, attempts, expiring>>
history == <<issued, used, reused, judged, raced, unsealed>>
vars == <<key, req, history>>

Codes == 1..MaxIssues

\* A request between two of its commands, named after the next one; "newest"
\* is a history field: the newest code when the request read the key.
Idle      == [pc : {"idle"}]
Expiring  == [pc : {"expire"}, code : Codes]
Counting  == [pc : {"count"}, input : Codes \union {0}, seen : Codes,
              attempts : Nat, newest : Codes]
Dropping  == [pc : {"drop"}]
Consuming == [pc : {"consume"}, code : Codes, newest : Codes]

Request == Idle \union Expiring \union Counting \union Dropping
           \union Consuming

TypeOK ==
  /\ hash \in Codes \union {0}
  /\ attempts \in Nat
  /\ expiring \in BOOLEAN
  /\ req \in [Requests -> Request]
  /\ issued \in Codes \union {0}
  /\ used \subseteq Codes
  /\ reused \subseteq used
  /\ judged \in [Codes -> Nat]
  /\ raced \subseteq Codes
  /\ unsealed \subseteq Codes

Init ==
  /\ hash = 0 /\ attempts = 0 /\ expiring = FALSE
  /\ req = [r \in Requests |-> [pc |-> "idle"]]
  /\ issued = 0
  /\ used = {} /\ reused = {}
  /\ judged = [n \in Codes |-> 0]
  /\ raced = {} /\ unsealed = {}

-----------------------------------------------------------------------------
(* Helpers. *)

Goto(r, next) == req' = [req EXCEPT ![r] = next]
Done(r) == Goto(r, [pc |-> "idle"])

KeyExists == hash # 0 \/ attempts # 0

\* DEL; the first form resets the attempts instead.
DeleteKeyMutant == attempts' = 0 /\ UNCHANGED <<hash, expiring>>
DeleteKey == hash' = 0 /\ attempts' = 0 /\ expiring' = FALSE

\* Another request has read the key and not yet written its count.
CountDue(r) == \E q \in Requests \ {r} : req[q].pc = "count"
Raced(r, n) == raced' = IF CountDue(r) THEN raced \union {n} ELSE raced

\* A guess is compared with code n.  Counting stops one past the limit.
Judge(n) ==
  judged' = [judged EXCEPT ![n] = IF @ > MaxAttempts THEN @ ELSE @ + 1]

-----------------------------------------------------------------------------
(* Storing a code. *)

\* HSET of a new code, which creates the key or overwrites the field.
StoreCode(r) ==
  /\ req[r].pc = "idle"
  /\ issued < MaxIssues
  /\ issued' = issued + 1
  /\ hash' = issued + 1
  /\ Raced(r, issued + 1)
  /\ Goto(r, [pc |-> "expire", code |-> issued + 1])
  /\ UNCHANGED <<expiring, used, reused, judged, unsealed>>

\* generateAndStoreOtp of the verification service: HSET hash, attempts 0.
StoreVerificationCode(r) == StoreCode(r) /\ attempts' = 0

\* generateAndStoreOtp of the reset service: HSET hash alone; the attempts
\* of an earlier code stay.
StoreResetCode(r) == StoreCode(r) /\ UNCHANGED attempts

\* EXPIRE: sets the time to live of the key if there is one.  The first
\* form sets it only when the key has none of the previous code's attempts.
SetExpiryMutant(r) ==
  /\ req[r].pc = "expire"
  /\ expiring' = IF attempts = 0 THEN KeyExists ELSE expiring
  /\ Done(r)
  /\ UNCHANGED <<hash, attempts, history>>
SetExpiry(r) ==
  /\ req[r].pc = "expire"
  /\ expiring' = KeyExists
  /\ Done(r)
  /\ UNCHANGED <<hash, attempts, history>>

-----------------------------------------------------------------------------
(* Verifying a code. *)

\* verifyOtp of the verification service, HGETALL: without a code the
\* request is refused, else the incremented count is written next.  The
\* first form takes the absence of a code for a code.
ReadCodeMutant(r, input) ==
  /\ req[r].pc = "idle"
  /\ attempts < MaxCount
  /\ Goto(r, [pc |-> "count", input |-> input, seen |-> hash,
              attempts |-> attempts + 1, newest |-> issued])
  /\ Raced(r, hash)
  /\ UNCHANGED <<key, issued, used, reused, judged, unsealed>>
ReadCode(r, input) ==
  /\ req[r].pc = "idle"
  /\ IF hash = 0 THEN UNCHANGED <<req, raced>>
     ELSE /\ attempts < MaxCount
          /\ Goto(r, [pc |-> "count", input |-> input, seen |-> hash,
                      attempts |-> attempts + 1, newest |-> issued])
          /\ Raced(r, hash)
  /\ UNCHANGED <<key, issued, used, reused, judged, unsealed>>

\* What verifyOtp decides from the values it has read: too many attempts, a
\* match, the last wrong guess allowed, or a wrong guess.  The first form
\* forgets the first case.
DecideMutant(r) ==
  LET q == req[r]
  IN  /\ Judge(q.seen)
      /\ \/ /\ q.input = q.seen
            /\ Goto(r, [pc |-> "consume", code |-> q.seen,
                        newest |-> q.newest])
         \/ /\ q.input # q.seen
            /\ IF q.attempts = MaxAttempts THEN Goto(r, [pc |-> "drop"])
               ELSE Done(r)
Decide(r) ==
  LET q == req[r]
      remove == Goto(r, [pc |-> "drop"])
  IN  \/ /\ q.attempts > MaxAttempts
         /\ remove
         /\ UNCHANGED judged
      \/ /\ q.attempts <= MaxAttempts
         /\ Judge(q.seen)
         /\ \/ /\ q.input = q.seen
               /\ Goto(r, [pc |-> "consume", code |-> q.seen,
                           newest |-> q.newest])
            \/ q.input # q.seen /\ q.attempts = MaxAttempts /\ remove
            \/ q.input # q.seen /\ q.attempts < MaxAttempts /\ Done(r)

\* HSET attempts.  On a key that is gone meanwhile it creates a new one,
\* which has no code and never expires.  The first form rewrites the hash
\* as well.
CountAttemptMutant(r) ==
  /\ req[r].pc = "count"
  /\ hash' = req[r].seen
  /\ attempts' = req[r].attempts
  /\ Decide(r)
  /\ UNCHANGED <<expiring, issued, used, reused, raced, unsealed>>
CountAttempt(r) ==
  /\ req[r].pc = "count"
  /\ attempts' = req[r].attempts
  /\ Decide(r)
  /\ UNCHANGED <<hash, expiring, issued, used, reused, raced, unsealed>>

\* DEL after too many attempts: it removes whatever the key holds by now.
DropCode(r) ==
  /\ req[r].pc = "drop"
  /\ DeleteKey
  /\ Done(r)
  /\ UNCHANGED history

\* verifyOtp of the reset service, HGETALL: without a code, or with a guess
\* that does not match, the request is refused and nothing counted.
ReadResetCode(r, input) ==
  /\ req[r].pc = "idle"
  /\ IF hash # 0 /\ input = hash
     THEN Goto(r, [pc |-> "consume", code |-> hash, newest |-> issued])
     ELSE UNCHANGED req
  /\ UNCHANGED <<key, history>>

\* DEL after a match, which ends both services' verifyOtp: success.
ConsumeCode(r) ==
  LET n == req[r].code
  IN  /\ req[r].pc = "consume"
      /\ DeleteKey
      /\ used' = used \union {n}
      /\ reused' = IF n \in used THEN reused \union {n} ELSE reused
      /\ Done(r)
      /\ UNCHANGED <<issued, judged, raced, unsealed>>

-----------------------------------------------------------------------------

\* Redis removes a key whose time to live has elapsed.
KeyExpires ==
  /\ expiring
  /\ DeleteKey
  /\ UNCHANGED <<req, history>>

\* A command fails, or the process dies, between two commands of a request.
Fail(r) ==
  /\ req[r].pc # "idle"
  /\ unsealed' = IF req[r].pc = "expire" THEN unsealed \union {req[r].code}
                 ELSE unsealed
  /\ Done(r)
  /\ UNCHANGED <<key, issued, used, reused, judged, raced>>

Step(r) ==
  \/ StoreVerificationCode(r) \/ StoreResetCode(r) \/ SetExpiry(r)
  \/ \E input \in 0..issued : ReadCode(r, input) \/ ReadResetCode(r, input)
  \/ CountAttempt(r) \/ DropCode(r) \/ ConsumeCode(r) \/ Fail(r)

Next == KeyExpires \/ \E r \in Requests : Step(r)

Spec == Init /\ [][Next]_vars

\* Node runs the continuation of a command that has answered, and Redis
\* removes expired keys; nothing makes a client send another request.
FairSpec ==
  /\ Spec
  /\ WF_vars(KeyExpires)
  /\ \A r \in Requests : WF_vars(SetExpiry(r))

-----------------------------------------------------------------------------
(* Properties. *)

\* A code that a verification is about to accept was the newest when the
\* verification began: storing a new code ends the life of the old one,
\* except for verifications already past their read.
AcceptedWasNewest ==
  \A r \in Requests : req[r].pc = "consume" => req[r].code = req[r].newest

\* A code that was accepted is not in the store any more, and nothing that
\* is still in flight brings it back: it can be accepted a second time only
\* by a verification that had read it before the first one's DEL.
UsedCodeIsGone == hash # 0 => hash \notin used

\* The verification service compares at most MaxAttempts guesses with a
\* code, also when requests fail between the count and the DEL.  Only a
\* count written late, over a count or a code it had not seen, can allow
\* more.
AttemptLimit == \A n \in Codes : n \notin raced => judged[n] <= MaxAttempts

\* A stored code has a time to live, unless the request that stored it has
\* still to set it, or failed before it could.
CodesExpire ==
  hash # 0 /\ ~expiring =>
    \/ hash \in unsealed
    \/ \E r \in Requests : req[r].pc = "expire" /\ req[r].code = hash

\* No code stays redeemable for ever, but for those whose request failed
\* between the HSET and the EXPIRE.
EveryCodeDies ==
  \A n \in Codes : hash = n ~> hash # n \/ n \in unsealed

\* redis-otp.service.ts and redis.otp.ts: "Invalidate OTP immediately upon
\* successful verification (single-use)".
SingleUse == reused = {}

\* resend-email-otp.use-case.ts: "Generate new OTP (this resets attempt
\* count and invalidates previous OTP)": a guess at the previous code is not
\* charged to the new one.
GuessChargesItsCode ==
  [][\A r \in Requests :
       CountAttempt(r) /\ hash # 0 => hash = req[r].seen]_vars
=============================================================================
