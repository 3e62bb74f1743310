------------------------------ MODULE RateLimits -----------------------------
(***************************************************************************)
(* The rate limits in front of the routes that mail a code to an address   *)
(* or check one, for one address.  A limiter is a counter in Redis with a  *)
(* fixed window: the first hit opens it, every request counts, and those   *)
(* after the limit's are refused until it has passed.  Customers and       *)
(* admins share the limiters, whose keys name the address, and the code,   *)
(* which has one key for an address.  The check of a reset code counts no  *)
(* attempts, so its limiter is all that bounds the guesses.                *)
(*                                                                         *)
(* Time is counted in ticks, and everything is kept relative to now.  The  *)
(* limiter library and its Redis script are external.                      *)
(***************************************************************************)
EXTENDS Integers, SequencesExt

CONSTANTS
  Requests,   \* slots for HTTP requests in flight at the same time
  Ips,
  Routes,     \* those the clients use
  Window,     \* Window[l]: the ticks of limiter l's window
  Limit,      \* Limit[l]: the requests it admits in a window
  CodeTtl,    \* the code's time to live, in ticks: 300 s in redis.otp.ts
  MaxPeriods  \* bound: for how many windows of guesses a code's age counts

Limiters == {"forgot", "resend", "verify", "email", "ip"}

\* Windows and limits are configured apart from each other and from the time
\* that a code lives.
ASSUME RateLimitsAssumption ==
  /\ Routes \subseteq Limiters \ {"ip"}
  /\ Limit \in [Limiters -> Nat \ {0}]
  /\ Window \in [Limiters -> Nat \ {0}]
  /\ CodeTtl \in Nat \ {0}
  /\ MaxPeriods \in Nat \ {0}
  /\ IsFiniteSet(Requests)
  /\ Ips \intersect Limiters = {}

\* The keys of the counters: the limiters of the address, each named after
\* its route, and the IPs.
Keys == Routes \union Ips
LimiterOf(k) == IF k \in Ips THEN "ip" ELSE k

VARIABLES
  counter,   \* counter[k]: the hits of the open window, and its ticks left
  code,      \* the ticks that the address's code has left; NoCode, NoExpiry
  req,       \* req[r]: what request r does next
  \* History variables: no code reads them.
  admitted,  \* admitted[k][i]: those k let through in i ticks and this one
  guessed,   \* the wrong guesses at the code, admitted since it was stored
  age        \* the ticks since the code was stored

vars == <<counter, code, req, admitted, guessed, age>>

NoCode == 0
NoExpiry == CodeTtl + 1
\* Bounds: how far hits, guesses and ticks are counted.
MaxHits(k) == Limit[LimiterOf(k)] + 1
MaxGuesses == (MaxPeriods + 1) * Limit["verify"] + 1
MaxAge == MaxPeriods * Window["verify"] + 1

Ticks(k) == 0..(Window[LimiterOf(k)] - 1)
Idle == [pc |-> "idle"]

Init ==
  /\ counter = [k \in Keys |-> [hits |-> 0, left |-> 0]]
  /\ code = NoCode
  /\ req = [r \in Requests |-> Idle]
  /\ admitted = [k \in Keys |-> [i \in Ticks(k) |-> 0]]
  /\ guessed = 0
  /\ age = 0

-----------------------------------------------------------------------------
(* Helpers. *)

\* The limiters of a route, in the order the router lists them.  The first
\* form asks the address's before the IP's.
ChainMutant(route, ip) ==
  IF route = "email" THEN <<"email", ip>> ELSE <<route>>
Chain(route, ip) == IF route = "email" THEN <<ip, "email">> ELSE <<route>>

\* A hit: the script counts it, and sets the expiry of a key that has none.
Hit(c, w) == [hits |-> c.hits + 1, left |-> IF c.left = 0 THEN w ELSE c.left]

\* The first form admits one request too many.
OverMutant(hits, limit) == hits > limit + 1
Over(hits, limit) == hits > limit

Goto(r, next) == req' = [req EXCEPT ![r] = next]
Done(r) == Goto(r, Idle)

\* k's limiter counts a hit of r.
Count(k) ==
  LET c == Hit(counter[k], Window[LimiterOf(k)])
  IN  counter' = [counter EXCEPT
                    ![k] = [c EXCEPT !.hits = Min({@, MaxHits(k)})]]
Refused(k) == Over(counter'[k].hits, Limit[LimiterOf(k)])

\* The keys that have let r through once it passes its next limiter: an
\* address is charged for what reaches the handler.
Charged(r) ==
  LET q == req[r]
  IN  ({q.chain[q.at]} \intersect Ips)
        \union (IF q.at = Len(q.chain) THEN Range(q.chain) \ Ips ELSE {})
Admit(keys) ==
  admitted' = [k \in Keys |-> IF k \in keys
                             THEN [i \in Ticks(k) |-> admitted[k][i] + 1]
                             ELSE admitted[k]]

\* What the handler of a route does first.
Handler(route) ==
  IF route = "verify" THEN [pc |-> "guess", stale |-> FALSE]
  ELSE [pc |-> "store"]

\* Where a request goes that its limiter lets through.
Onward(q) ==
  IF q.at < Len(q.chain) THEN [q EXCEPT !.at = @ + 1] ELSE Handler(q.route)

\* The code is in the key no more.
NoCodeLeft == code' = NoCode /\ guessed' = 0 /\ age' = 0

-----------------------------------------------------------------------------
(* Requests. *)

Arrive(r, route, ip) ==
  /\ req[r].pc = "idle"
  /\ Goto(r, [pc |-> "limit", route |-> route, chain |-> Chain(route, ip),
              at |-> 1])
  /\ UNCHANGED <<counter, code, admitted, guessed, age>>

\* The next limiter lets the request through ...
Pass(r) ==
  LET q == req[r]
  IN  /\ q.pc = "limit"
      /\ Count(q.chain[q.at])
      /\ ~Refused(q.chain[q.at])
      /\ Admit(Charged(r))
      /\ Goto(r, Onward(q))
      /\ UNCHANGED <<code, guessed, age>>

\* ... or answers 429.
Refuse(r) ==
  LET q == req[r]
  IN  /\ q.pc = "limit"
      /\ Count(q.chain[q.at])
      /\ Refused(q.chain[q.at])
      /\ Done(r)
      /\ UNCHANGED <<code, admitted, guessed, age>>

\* Redis does not answer, whether or not it has counted the hit: 500.  The
\* first form lets the request through instead.
LimiterFailsMutant(r) ==
  /\ req[r].pc = "limit"
  /\ Goto(r, Onward(req[r]))
  /\ UNCHANGED <<counter, code, admitted, guessed, age>>
LimiterFails(r) ==
  LET k == req[r].chain[req[r].at]
  IN  /\ req[r].pc = "limit"
      /\ \/ Count(k) /\ IF Refused(k) THEN UNCHANGED admitted ELSE Admit({k})
         \/ UNCHANGED <<counter, admitted>>
      /\ Done(r)
      /\ UNCHANGED <<code, guessed, age>>

\* generateAndStoreOtp: hSet keeps the expiry of a key that exists, ...
StoreCode(r) ==
  /\ req[r].pc = "store"
  /\ code' = IF code = NoCode THEN NoExpiry ELSE code
  /\ guessed' = 0 /\ age' = 0
  /\ req' = [s \in Requests |->
               IF s = r THEN [pc |-> "expire"]
               ELSE IF req[s].pc = "guess" THEN [req[s] EXCEPT !.stale = TRUE]
               ELSE req[s]]
  /\ UNCHANGED <<counter, admitted>>

\* ... and expire sets it anew.  The first form passes it milliseconds.
SetExpiryMutant(r) ==
  /\ req[r].pc = "expire"
  /\ code' = IF code = NoCode THEN NoCode ELSE 1000 * CodeTtl
  /\ Done(r)
  /\ UNCHANGED <<counter, admitted, guessed, age>>
SetExpiry(r) ==
  /\ req[r].pc = "expire"
  /\ code' = IF code = NoCode THEN NoCode ELSE CodeTtl
  /\ Done(r)
  /\ UNCHANGED <<counter, admitted, guessed, age>>

\* verifyOtp of a reset code: a wrong guess leaves the code as it is, the
\* right one deletes it.
Guess(r, right) ==
  /\ req[r].pc = "guess"
  /\ IF right THEN NoCodeLeft
     ELSE /\ guessed' = IF code = NoCode \/ req[r].stale THEN guessed
                        ELSE Min({guessed + 1, MaxGuesses})
          /\ UNCHANGED <<code, age>>
  /\ Done(r)
  /\ UNCHANGED <<counter, admitted>>

\* The lookup of the address finds nobody, or a statement throws: what is
\* left to do is not done.
HandlerFails(r) ==
  /\ req[r].pc \in {"store", "expire", "guess"}
  /\ Done(r)
  /\ UNCHANGED <<counter, code, admitted, guessed, age>>

\* verify-email, which has no limiter, uses the code up or deletes it after
\* too many attempts.
UsedElsewhere ==
  /\ code # NoCode
  /\ NoCodeLeft
  /\ UNCHANGED <<counter, req, admitted>>

\* A tick: it may pass between any two commands of a request.
Tick ==
  /\ counter' = [k \in Keys |->
                   IF counter[k].left <= 1 THEN [hits |-> 0, left |-> 0]
                   ELSE [counter[k] EXCEPT !.left = @ - 1]]
  /\ IF code \in {NoCode, 1} THEN NoCodeLeft
     ELSE /\ code' = IF code = NoExpiry THEN code ELSE code - 1
          /\ age' = Min({age + 1, MaxAge})
          /\ UNCHANGED guessed
  /\ admitted' = [k \in Keys |-> [i \in Ticks(k) |->
                    IF i = 0 THEN 0 ELSE admitted[k][i - 1]]]
  /\ UNCHANGED req

Next ==
  \/ \E r \in Requests :
       \/ \E route \in Routes, ip \in Ips : Arrive(r, route, ip)
       \/ Pass(r) \/ Refuse(r) \/ LimiterFails(r)
       \/ StoreCode(r) \/ SetExpiry(r) \/ HandlerFails(r)
       \/ \E right \in BOOLEAN : Guess(r, right)
  \/ UsedElsewhere \/ Tick

Spec == Init /\ [][Next]_vars

-----------------------------------------------------------------------------
(* Properties. *)

\* The requests k has let through in the last stretch as long as a window.
Passed(k) == admitted[k][Window[LimiterOf(k)] - 1]

TypeOK ==
  /\ counter \in [Keys -> [hits : Nat, left : Nat]]
  /\ \A k \in Keys : /\ counter[k].hits <= MaxHits(k)
                     /\ counter[k].left <= Window[LimiterOf(k)]
  /\ code \in 0..NoExpiry
  /\ guessed \in 0..MaxGuesses /\ age \in 0..MaxAge
  /\ \A r \in Requests :
       req[r].pc \in {"idle", "limit", "store", "expire", "guess"}

\* However the windows fall, no stretch of time as long as one lets more than
\* two windows' worth of requests through: a fixed window is that far from
\* the limit it names.
LimitHolds == \A k \in Keys : Passed(k) <= 2 * Limit[LimiterOf(k)]

\* Nobody is refused without Limit requests having been let through within
\* the last window, or counted while their answer was lost: refused requests
\* prolong nothing, and those that the limiter of an IP turns away are not
\* counted against the address.
RefusalIsEarned ==
  [][\A r \in Requests :
       Refuse(r) => LET k == req[r].chain[req[r].at]
                    IN  Passed(k) >= Limit[LimiterOf(k)]]_vars

\* However long a reset code lives, and whether or not it ever got its expiry,
\* it meets no more wrong guesses, of those admitted since it was stored, than
\* its limiter lets through in the windows that its age can touch: within n
\* windows' time, n + 1 windows' worth.
GuessesAreBounded ==
  \A n \in 0..MaxPeriods :
    guessed > (n + 1) * Limit["verify"] => age > n * Window["verify"]
=============================================================================
