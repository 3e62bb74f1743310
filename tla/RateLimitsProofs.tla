--------------------------- MODULE RateLimitsProofs -------------------------
(***************************************************************************)
(* Proofs about RateLimits, for any number of requests, limiters in use,   *)
(* windows and limits.                                                     *)
(*                                                                         *)
(* Everything follows from what a limiter's counter says about the         *)
(* requests it has let through (KeyInv): in an open window as many as it   *)
(* has counted, up to the limit, and in the windows before it that still   *)
(* reach into the last stretch of a window's length, no more than the      *)
(* limit.  The bound on guesses counts the windows that a code's age can   *)
(* have touched (GuessInv), and the guesses admitted and not made yet.     *)
(***************************************************************************)
EXTENDS RateLimits, FiniteSetTheorems, TLAPS

Span(k) == Window[LimiterOf(k)]
Most(k) == Limit[LimiterOf(k)]

LEMMA KeyFacts ==
  ASSUME NEW k \in Keys
  PROVE  /\ LimiterOf(k) \in Limiters
         /\ Span(k) \in Nat \ {0}
         /\ Most(k) \in Nat \ {0}
         /\ MaxHits(k) = Most(k) + 1
         /\ Ticks(k) = 0..(Span(k) - 1)
<1>1. LimiterOf(k) \in Limiters
  BY RateLimitsAssumption DEF Keys, LimiterOf, Limiters
<1> QED BY <1>1, RateLimitsAssumption DEF Span, Most, MaxHits, Ticks

LEMMA MinOfTwo ==
  ASSUME NEW a \in Nat, NEW b \in Nat
  PROVE  Min({a, b}) = IF a <= b THEN a ELSE b
<1> DEFINE m == IF a <= b THEN a ELSE b
<1>1. m \in {a, b} /\ \A y \in {a, b} : m <= y
  OBVIOUS
<1>2. \A x \in {a, b} : (\A y \in {a, b} : x <= y) => x = m
  OBVIOUS
<1> HIDE DEF m
<1>3. Min({a, b}) = m
  BY <1>1, <1>2 DEF Min
<1> QED BY <1>3 DEF m

(***************************************************************************)
(* What requests hold.  A request that a limiter has yet to judge is at    *)
(* one of the limiters of its route; nobody guesses unless the route that  *)
(* takes guesses is in use.                                                *)
(***************************************************************************)
AtLimiter(route, ip, i) ==
  [pc |-> "limit", route |-> route, chain |-> Chain(route, ip), at |-> i]

Waits(q) ==
  \E route \in Routes, ip \in Ips, i \in {1, 2} :
    q = AtLimiter(route, ip, i) /\ i <= Len(Chain(route, ip))

Guesses(q) ==
  /\ "verify" \in Routes
  /\ q \in [pc : {"guess"}, stale : BOOLEAN]

IsRequest(q) ==
  \/ q = Idle \/ q = [pc |-> "store"] \/ q = [pc |-> "expire"]
  \/ Waits(q) \/ Guesses(q)

IsTable(f) == f = [k \in Keys |-> f[k]]

Types ==
  /\ DOMAIN req = Requests
  /\ \A r \in Requests : IsRequest(req[r])
  /\ IsTable(counter)
  /\ \A k \in Keys :
       \E h \in 0..MaxHits(k), n \in 0..Span(k) :
         counter[k] = [hits |-> h, left |-> n]
  /\ DOMAIN admitted = Keys
  /\ \A k \in Keys : admitted[k] \in [Ticks(k) -> Nat]
  /\ code \in 0..NoExpiry
  /\ guessed \in 0..MaxGuesses
  /\ age \in 0..MaxAge

(***************************************************************************)
(* The limiter a waiting request is at, and whom it charges: itself.  The  *)
(* address is last in every chain.                                         *)
(***************************************************************************)
LEMMA ChainFacts ==
  ASSUME NEW route \in Routes, NEW ip \in Ips
  PROVE  /\ route = "email" => /\ Len(Chain(route, ip)) = 2
                               /\ Chain(route, ip)[1] = ip
                               /\ Chain(route, ip)[2] = "email"
                               /\ Range(Chain(route, ip)) = {ip, "email"}
         /\ route # "email" => /\ Len(Chain(route, ip)) = 1
                               /\ Chain(route, ip)[1] = route
                               /\ Range(Chain(route, ip)) = {route}
         /\ ip \in Keys /\ route \in Keys
         /\ route \notin Ips
<1>1. ip \in Keys /\ route \in Keys /\ route \notin Ips
  BY RateLimitsAssumption DEF Keys
<1>2. CASE route = "email"
  BY <1>1, <1>2 DEF Chain, Range
<1>3. CASE route # "email"
  BY <1>1, <1>3 DEF Chain, Range
<1> QED BY <1>1, <1>2, <1>3

LEMMA WaitingFacts ==
  ASSUME Types, NEW r \in Requests, req[r].pc = "limit"
  PROVE  /\ Waits(req[r])
         /\ req[r].chain[req[r].at] \in Keys
         /\ Charged(r) = {req[r].chain[req[r].at]}
         /\ req[r].at < Len(req[r].chain) =>
              Waits([req[r] EXCEPT !.at = @ + 1])
         /\ ~(req[r].at < Len(req[r].chain)) =>
              req[r].route \in Routes /\ req[r].chain[req[r].at] = req[r].route
<1>1. Waits(req[r])
  BY DEF Types, IsRequest, Idle, Guesses
<1>2. PICK route \in Routes, ip \in Ips, i \in {1, 2} :
        req[r] = AtLimiter(route, ip, i) /\ i <= Len(Chain(route, ip))
  BY <1>1 DEF Waits
<1> DEFINE c == Chain(route, ip)
<1>3. /\ req[r].pc = "limit" /\ req[r].route = route
      /\ req[r].chain = c /\ req[r].at = i
      /\ [req[r] EXCEPT !.at = @ + 1] = AtLimiter(route, ip, i + 1)
  BY <1>2 DEF AtLimiter
<1>4. CASE route = "email" /\ i = 1
  <2>1. /\ Len(c) = 2 /\ c[i] = ip /\ Range(c) = {ip, "email"}
        /\ ip \in Keys
    BY <1>4, ChainFacts
  <2>2. Charged(r) = {ip}
    BY <1>3, <1>4, <2>1 DEF Charged
  <2>3. Waits(AtLimiter(route, ip, i + 1))
    BY <1>4, <2>1 DEF Waits
  <2> QED BY <1>1, <1>3, <1>4, <2>1, <2>2, <2>3
<1>5. CASE route = "email" /\ i = 2
  <2>1. /\ Len(c) = 2 /\ c[i] = "email" /\ Range(c) = {ip, "email"}
        /\ "email" \in Keys /\ "email" \notin Ips
    BY <1>5, ChainFacts
  <2>2. Charged(r) = {"email"}
    BY <1>3, <1>5, <2>1 DEF Charged
  <2> HIDE DEF c
  <2>3. /\ req[r].at = 2 /\ Len(req[r].chain) = 2
        /\ req[r].chain[req[r].at] = "email"
        /\ req[r].route = "email" /\ "email" \in Routes
    BY <1>3, <1>5, <2>1
  <2> QED BY <1>1, <2>1, <2>2, <2>3
<1>6. CASE route # "email"
  <2>1. /\ Len(c) = 1 /\ i = 1 /\ c[i] = route /\ Range(c) = {route}
        /\ route \in Keys /\ route \notin Ips
    <3>1. /\ Len(c) = 1 /\ c[1] = route /\ Range(c) = {route}
          /\ route \in Keys /\ route \notin Ips
      BY <1>6, ChainFacts
    <3>2. i = 1
      BY <1>2, <3>1
    <3> QED BY <3>1, <3>2
  <2>2. Charged(r) = {route}
    BY <1>3, <2>1 DEF Charged
  <2> QED BY <1>1, <1>3, <2>1, <2>2
<1> QED BY <1>4, <1>5, <1>6

(***************************************************************************)
(* A hit of a limiter.                                                     *)
(***************************************************************************)
LEMMA CountFacts ==
  ASSUME Types, NEW k \in Keys, Count(k)
  PROVE  /\ IsTable(counter')
         /\ \A l \in Keys : l # k => counter'[l] = counter[l]
         /\ counter'[k] =
              [hits |-> IF counter[k].hits <= Most(k)
                        THEN counter[k].hits + 1 ELSE Most(k) + 1,
               left |-> IF counter[k].left = 0 THEN Span(k)
                        ELSE counter[k].left]
         /\ Refused(k) <=> counter[k].hits >= Most(k)
<1>1. PICK h \in 0..MaxHits(k), n \in 0..Span(k) :
        counter[k] = [hits |-> h, left |-> n]
  BY DEF Types
<1>2. /\ Most(k) \in Nat /\ MaxHits(k) = Most(k) + 1
      /\ h \in Nat
  BY KeyFacts
<1>3. Hit(counter[k], Span(k)) =
        [hits |-> h + 1, left |-> IF n = 0 THEN Span(k) ELSE n]
  BY <1>1 DEF Hit
<1>4. Min({h + 1, MaxHits(k)}) = IF h <= Most(k) THEN h + 1 ELSE Most(k) + 1
  BY <1>2, MinOfTwo
<1>5. counter' = [counter EXCEPT ![k] =
                    [hits |-> Min({h + 1, MaxHits(k)}),
                     left |-> IF n = 0 THEN Span(k) ELSE n]]
  <2> DEFINE c == Hit(counter[k], Span(k))
  <2>1. counter' = [counter EXCEPT
                      ![k] = [c EXCEPT !.hits = Min({c.hits, MaxHits(k)})]]
    BY DEF Count, Span
  <2>2. [c EXCEPT !.hits = Min({c.hits, MaxHits(k)})] =
          [hits |-> Min({h + 1, MaxHits(k)}),
           left |-> IF n = 0 THEN Span(k) ELSE n]
    BY <1>3
  <2> QED BY <2>1, <2>2
<1>6. /\ IsTable(counter')
      /\ \A l \in Keys : l # k => counter'[l] = counter[l]
      /\ counter'[k] = [hits |-> Min({h + 1, MaxHits(k)}),
                        left |-> IF n = 0 THEN Span(k) ELSE n]
  BY <1>5 DEF Types, IsTable
<1>7. Refused(k) <=> counter'[k].hits > Most(k)
  BY DEF Refused, Over, Most
<1> QED BY <1>1, <1>2, <1>4, <1>6, <1>7

-----------------------------------------------------------------------------
(* What a step does to a counter and to what it has let through. *)

KeySame(k) == counter'[k] = counter[k] /\ admitted'[k] = admitted[k]

\* A hit leaves the expiry of an open window alone.
Opened(k) == IF counter[k].left = 0 THEN Span(k) ELSE counter[k].left

KeyPass(k) ==
  /\ counter[k].hits < Most(k)
  /\ counter'[k] = [hits |-> counter[k].hits + 1, left |-> Opened(k)]
  /\ admitted'[k] = [i \in Ticks(k) |-> admitted[k][i] + 1]

KeyRefuse(k) ==
  /\ counter[k].hits >= Most(k)
  /\ counter'[k] = [hits |-> Most(k) + 1, left |-> Opened(k)]
  /\ admitted'[k] = admitted[k]

KeyTick(k) ==
  /\ counter'[k] = IF counter[k].left <= 1 THEN [hits |-> 0, left |-> 0]
                   ELSE [hits |-> counter[k].hits,
                         left |-> counter[k].left - 1]
  /\ admitted'[k] = [i \in Ticks(k) |->
                       IF i = 0 THEN 0 ELSE admitted[k][i - 1]]

LEMMA AdmitFacts ==
  ASSUME NEW S \in SUBSET Keys, Admit(S)
  PROVE  /\ DOMAIN admitted' = Keys
         /\ \A k \in S : admitted'[k] = [i \in Ticks(k) |->
                                           admitted[k][i] + 1]
         /\ \A k \in Keys \ S : admitted'[k] = admitted[k]
BY DEF Admit

LEMMA CounterFields ==
  ASSUME Types, NEW k \in Keys
  PROVE  /\ counter[k].hits \in 0..(Most(k) + 1)
         /\ counter[k].left \in 0..Span(k)
         /\ Most(k) \in Nat \ {0} /\ Span(k) \in Nat \ {0}
         /\ MaxHits(k) = Most(k) + 1
         /\ Ticks(k) = 0..(Span(k) - 1)
<1>1. PICK h \in 0..MaxHits(k), n \in 0..Span(k) :
        counter[k] = [hits |-> h, left |-> n]
  BY DEF Types
<1>2. counter[k].hits = h /\ counter[k].left = n
  BY <1>1
<1> QED BY <1>1, <1>2, KeyFacts

LEMMA CounterIsRecord ==
  ASSUME Types, NEW k \in Keys
  PROVE  counter[k] = [hits |-> counter[k].hits, left |-> counter[k].left]
<1>1. PICK h \in 0..MaxHits(k), n \in 0..Span(k) :
        counter[k] = [hits |-> h, left |-> n]
  BY DEF Types
<1>2. counter[k].hits = h /\ counter[k].left = n
  BY <1>1
<1> QED BY <1>1, <1>2

\* A limiter that counts a hit lets the request through or refuses it.
LEMMA HitSteps ==
  ASSUME Types, NEW k \in Keys, Count(k), DOMAIN admitted' = Keys,
         \/ ~Refused(k) /\ Admit({k})
         \/ Refused(k) /\ UNCHANGED admitted
  PROVE  /\ KeyPass(k) \/ KeyRefuse(k)
         /\ \A l \in Keys : l # k => KeySame(l)
         /\ IsTable(counter')
<1>1. /\ IsTable(counter')
      /\ \A l \in Keys : l # k => counter'[l] = counter[l]
      /\ counter'[k] =
           [hits |-> IF counter[k].hits <= Most(k)
                     THEN counter[k].hits + 1 ELSE Most(k) + 1,
            left |-> Opened(k)]
      /\ Refused(k) <=> counter[k].hits >= Most(k)
  BY CountFacts DEF Opened
<1>2. counter[k].hits \in 0..(Most(k) + 1) /\ Most(k) \in Nat
  BY CounterFields
<1>3. CASE ~Refused(k) /\ Admit({k})
  <2>1. /\ admitted'[k] = [i \in Ticks(k) |-> admitted[k][i] + 1]
        /\ \A l \in Keys : l # k => admitted'[l] = admitted[l]
    <3>1. {k} \in SUBSET Keys
      OBVIOUS
    <3> QED BY <1>3, <3>1, AdmitFacts
  <2>2. /\ counter[k].hits < Most(k)
        /\ counter'[k] = [hits |-> counter[k].hits + 1, left |-> Opened(k)]
    BY <1>1, <1>2, <1>3
  <2> QED BY <1>1, <2>1, <2>2 DEF KeyPass, KeySame
<1>4. CASE Refused(k) /\ UNCHANGED admitted
  <2>1. /\ counter[k].hits >= Most(k)
        /\ counter'[k] = [hits |-> Most(k) + 1, left |-> Opened(k)]
    BY <1>1, <1>2, <1>4
  <2> QED BY <1>1, <1>4, <2>1 DEF KeyRefuse, KeySame
<1> QED BY <1>3, <1>4

\* The steps of the counters: one limiter counts a hit, or time passes.
LEMMA KeySteps ==
  ASSUME Types, [Next]_vars
  PROVE  /\ IsTable(counter')
         /\ DOMAIN admitted' = Keys
         /\ \A k \in Keys : \/ KeySame(k) \/ KeyPass(k) \/ KeyRefuse(k)
                            \/ Tick /\ KeyTick(k)
<1> DEFINE Goal == /\ IsTable(counter')
                   /\ DOMAIN admitted' = Keys
                   /\ \A k \in Keys : \/ KeySame(k) \/ KeyPass(k)
                                      \/ KeyRefuse(k)
                                      \/ Tick /\ KeyTick(k)
<1>a. ASSUME UNCHANGED <<counter, admitted>>
      PROVE  Goal
  BY <1>a DEF Types, KeySame
<1>b. ASSUME NEW k \in Keys, Count(k),
             \/ ~Refused(k) /\ Admit({k})
             \/ Refused(k) /\ UNCHANGED admitted
      PROVE  Goal
  <2>1. DOMAIN admitted' = Keys
    BY <1>b DEF Types, Admit
  <2> QED BY <1>b, <2>1, HitSteps
<1>1. ASSUME NEW r \in Requests, Pass(r)
      PROVE  Goal
  <2> DEFINE k == req[r].chain[req[r].at]
  <2>1. k \in Keys /\ Charged(r) = {k}
    BY <1>1, WaitingFacts DEF Pass
  <2> QED BY <1>1, <2>1, <1>b DEF Pass
<1>2. ASSUME NEW r \in Requests, Refuse(r)
      PROVE  Goal
  <2> DEFINE k == req[r].chain[req[r].at]
  <2>1. k \in Keys
    BY <1>2, WaitingFacts DEF Refuse
  <2> QED BY <1>2, <2>1, <1>b DEF Refuse
<1>3. ASSUME NEW r \in Requests, LimiterFails(r)
      PROVE  Goal
  <2> DEFINE k == req[r].chain[req[r].at]
  <2>1. k \in Keys
    BY <1>3, WaitingFacts DEF LimiterFails
  <2>2. CASE UNCHANGED <<counter, admitted>>
    BY <2>2, <1>a
  <2>3. CASE Count(k) /\ IF Refused(k) THEN UNCHANGED admitted
                         ELSE Admit({k})
    BY <2>1, <2>3, <1>b
  <2> QED BY <1>3, <2>2, <2>3 DEF LimiterFails
<1>4. ASSUME Tick
      PROVE  Goal
  <2>1. ASSUME NEW k \in Keys
        PROVE  KeyTick(k)
    <3>1. counter'[k] = IF counter[k].left <= 1 THEN [hits |-> 0, left |-> 0]
                        ELSE [counter[k] EXCEPT !.left = @ - 1]
      BY <1>4 DEF Tick
    <3>2. [counter[k] EXCEPT !.left = @ - 1] =
            [hits |-> counter[k].hits, left |-> counter[k].left - 1]
      <4>1. PICK h \in 0..MaxHits(k), n \in 0..Span(k) :
              counter[k] = [hits |-> h, left |-> n]
        BY DEF Types
      <4> QED BY <4>1
    <3>3. admitted'[k] = [i \in Ticks(k) |->
                            IF i = 0 THEN 0 ELSE admitted[k][i - 1]]
      BY <1>4 DEF Tick
    <3> QED BY <3>1, <3>2, <3>3 DEF KeyTick
  <2>2. IsTable(counter')
    BY <1>4 DEF Tick, IsTable
  <2> QED BY <1>4, <2>1, <2>2 DEF Tick
<1>5. ASSUME NEW r \in Requests,
             StoreCode(r) \/ SetExpiry(r) \/ HandlerFails(r)
      PROVE  Goal
  BY <1>5, <1>a DEF StoreCode, SetExpiry, HandlerFails
<1>6. ASSUME UsedElsewhere \/ UNCHANGED vars
      PROVE  Goal
  BY <1>6, <1>a DEF UsedElsewhere, vars
<1>8. ASSUME NEW r \in Requests, NEW route \in Routes, NEW ip \in Ips,
             Arrive(r, route, ip)
      PROVE  Goal
  BY <1>8, <1>a DEF Arrive
<1>9. ASSUME NEW r \in Requests, NEW right \in BOOLEAN, Guess(r, right)
      PROVE  Goal
  BY <1>9, <1>a DEF Guess
<1> HIDE DEF Goal
<1>7. Goal
  BY <1>1, <1>2, <1>3, <1>4, <1>5, <1>6, <1>8, <1>9 DEF Next
<1> QED BY <1>7 DEF Goal

-----------------------------------------------------------------------------
(* Types. *)

LEMMA KeyTypes ==
  ASSUME Types, [Next]_vars, NEW k \in Keys
  PROVE  /\ \E h \in 0..MaxHits(k), n \in 0..Span(k) :
              counter'[k] = [hits |-> h, left |-> n]
         /\ admitted'[k] \in [Ticks(k) -> Nat]
<1> DEFINE h == counter[k].hits
           n == counter[k].left
<1>0. /\ h \in 0..(Most(k) + 1) /\ n \in 0..Span(k)
      /\ counter[k] = [hits |-> h, left |-> n]
      /\ Most(k) \in Nat \ {0} /\ Span(k) \in Nat \ {0}
      /\ MaxHits(k) = Most(k) + 1
      /\ Ticks(k) = 0..(Span(k) - 1)
      /\ admitted[k] \in [Ticks(k) -> Nat]
  BY CounterFields, CounterIsRecord DEF Types
<1> HIDE DEF h, n
<1>1. CASE KeySame(k)
  BY <1>0, <1>1 DEF KeySame
<1>2. CASE KeyPass(k)
  <2>1. /\ counter'[k] = [hits |-> h + 1,
                          left |-> IF n = 0 THEN Span(k) ELSE n]
        /\ h < Most(k)
        /\ admitted'[k] = [i \in Ticks(k) |-> admitted[k][i] + 1]
    BY <1>2 DEF KeyPass, Opened, h, n
  <2>2. h + 1 \in 0..MaxHits(k)
        /\ (IF n = 0 THEN Span(k) ELSE n) \in 0..Span(k)
    BY <1>0, <2>1
  <2> QED BY <1>0, <2>1, <2>2
<1>3. CASE KeyRefuse(k)
  <2>1. /\ counter'[k] = [hits |-> Most(k) + 1,
                          left |-> IF n = 0 THEN Span(k) ELSE n]
        /\ admitted'[k] = admitted[k]
    BY <1>3 DEF KeyRefuse, Opened, h, n
  <2>2. Most(k) + 1 \in 0..MaxHits(k)
        /\ (IF n = 0 THEN Span(k) ELSE n) \in 0..Span(k)
    BY <1>0
  <2> QED BY <1>0, <2>1, <2>2
<1>4. CASE KeyTick(k)
  <2>1. /\ \/ counter'[k] = [hits |-> 0, left |-> 0]
           \/ counter'[k] = [hits |-> h, left |-> n - 1] /\ n > 1
        /\ admitted'[k] = [i \in Ticks(k) |->
                             IF i = 0 THEN 0 ELSE admitted[k][i - 1]]
    BY <1>0, <1>4 DEF KeyTick, h, n
  <2>2. 0 \in 0..MaxHits(k) /\ 0 \in 0..Span(k) /\ h \in 0..MaxHits(k)
        /\ (n > 1 => n - 1 \in 0..Span(k))
    BY <1>0
  <2>3. admitted'[k] \in [Ticks(k) -> Nat]
    BY <1>0, <2>1
  <2> QED BY <2>1, <2>2, <2>3
<1> QED BY <1>1, <1>2, <1>3, <1>4, KeySteps

LEMMA CodeTypes ==
  /\ CodeTtl \in Nat \ {0} /\ NoExpiry = CodeTtl + 1 /\ NoCode = 0
  /\ MaxGuesses \in Nat /\ MaxAge \in Nat
<1>1. /\ CodeTtl \in Nat \ {0} /\ MaxPeriods \in Nat
      /\ Limit["verify"] \in Nat /\ Window["verify"] \in Nat
  BY RateLimitsAssumption DEF Limiters
<1> QED BY <1>1 DEF MaxGuesses, MaxAge, NoExpiry, NoCode

LEMMA TypesStep == Types /\ [Next]_vars => Types'
<1> SUFFICES ASSUME Types, [Next]_vars PROVE Types'
  OBVIOUS
<1>1. /\ IsTable(counter') /\ DOMAIN admitted' = Keys
      /\ \A k \in Keys :
           /\ \E h \in 0..MaxHits(k), n \in 0..Span(k) :
                counter'[k] = [hits |-> h, left |-> n]
           /\ admitted'[k] \in [Ticks(k) -> Nat]
  BY KeySteps, KeyTypes
<1> DEFINE ReqGoal == /\ DOMAIN req' = Requests
                      /\ \A q \in Requests : IsRequest(req'[q])
           Goal == ReqGoal /\ code' \in 0..NoExpiry
                   /\ guessed' \in 0..MaxGuesses
                   /\ age' \in 0..MaxAge
<1>2. Goal => Types'
  BY <1>1 DEF Types, IsRequest, Waits, Guesses
<1>0. /\ DOMAIN req = Requests
      /\ \A r \in Requests : IsRequest(req[r])
      /\ code \in 0..NoExpiry /\ guessed \in 0..MaxGuesses
      /\ age \in 0..MaxAge
      /\ CodeTtl \in Nat \ {0} /\ MaxGuesses \in Nat /\ MaxAge \in Nat
      /\ NoExpiry = CodeTtl + 1 /\ NoCode = 0
  BY CodeTypes DEF Types
<1>a. ASSUME NEW r \in Requests, NEW next, Goto(r, next), IsRequest(next)
      PROVE  ReqGoal
  BY <1>0, <1>a DEF Goto
<1>b. ASSUME NEW r \in Requests, Done(r)
      PROVE  ReqGoal
  BY <1>a, <1>b DEF Done, IsRequest
<1> HIDE DEF ReqGoal
<1>3. ASSUME NEW r \in Requests, NEW route \in Routes, NEW ip \in Ips,
             Arrive(r, route, ip)
      PROVE  Goal
  <2>1. 1 <= Len(Chain(route, ip))
    BY ChainFacts
  <2>2. IsRequest(AtLimiter(route, ip, 1))
    BY <2>1 DEF IsRequest, Waits
  <2> QED BY <1>0, <1>3, <2>2, <1>a DEF Arrive, AtLimiter
<1>4. ASSUME NEW r \in Requests, Pass(r)
      PROVE  Goal
  <2> DEFINE q == req[r]
  <2>1. /\ q.at < Len(q.chain) => Waits([q EXCEPT !.at = @ + 1])
        /\ ~(q.at < Len(q.chain)) => q.route \in Routes
    BY <1>4, WaitingFacts DEF Pass
  <2>2. q.route \in Routes => IsRequest(Handler(q.route))
    BY DEF Handler, IsRequest, Guesses
  <2>3. IsRequest(Onward(q))
    BY <2>1, <2>2 DEF IsRequest, Onward
  <2> QED BY <1>0, <1>4, <2>3, <1>a DEF Pass
<1>5. ASSUME NEW r \in Requests,
             Refuse(r) \/ LimiterFails(r) \/ HandlerFails(r)
      PROVE  Goal
  BY <1>0, <1>5, <1>b DEF Refuse, LimiterFails, HandlerFails
<1>6. ASSUME NEW r \in Requests, StoreCode(r)
      PROVE  Goal
  <2>1. ASSUME NEW s \in Requests
        PROVE  IsRequest(req'[s])
    <3>1. req'[s] = IF s = r THEN [pc |-> "expire"]
                    ELSE IF req[s].pc = "guess"
                         THEN [req[s] EXCEPT !.stale = TRUE]
                    ELSE req[s]
      BY <1>6 DEF StoreCode
    <3>2. CASE s # r /\ req[s].pc = "guess"
      <4>1. Guesses(req[s])
        BY <1>0, <3>2 DEF IsRequest, Idle, Waits, AtLimiter
      <4>2. Guesses([req[s] EXCEPT !.stale = TRUE])
        BY <4>1 DEF Guesses
      <4> QED BY <3>1, <3>2, <4>2 DEF IsRequest
    <3> QED BY <1>0, <3>1, <3>2 DEF IsRequest
  <2> QED BY <1>0, <1>6, <2>1 DEF StoreCode, ReqGoal
<1>7. ASSUME NEW r \in Requests, SetExpiry(r)
      PROVE  Goal
  BY <1>0, <1>7, <1>b DEF SetExpiry
<1>8. ASSUME NEW r \in Requests, NEW right \in BOOLEAN, Guess(r, right)
      PROVE  Goal
  <2>1. guessed + 1 \in Nat
    BY <1>0
  <2>2. Min({guessed + 1, MaxGuesses}) \in 0..MaxGuesses
    BY <1>0, <2>1, MinOfTwo
  <2> QED BY <1>0, <1>8, <2>2, <1>b DEF Guess, NoCodeLeft
<1>9. ASSUME UsedElsewhere \/ Tick \/ UNCHANGED vars
      PROVE  Goal
  <2>1. ReqGoal
    BY <1>0, <1>9 DEF UsedElsewhere, Tick, vars, ReqGoal
  <2>2. CASE Tick
    <3>1. CASE NoCodeLeft
      BY <1>0, <2>1, <3>1 DEF NoCodeLeft
    <3>2. CASE /\ code \notin {NoCode, 1}
               /\ code' = IF code = NoExpiry THEN code ELSE code - 1
               /\ age' = Min({age + 1, MaxAge})
               /\ guessed' = guessed
      <4>1. age + 1 \in Nat
        BY <1>0
      <4>2. age' \in 0..MaxAge
        BY <1>0, <3>2, <4>1, MinOfTwo
      <4> QED BY <1>0, <2>1, <3>2, <4>2
    <3> QED BY <2>2, <3>1, <3>2 DEF Tick
  <2> QED BY <1>0, <1>9, <2>1, <2>2 DEF UsedElsewhere, NoCodeLeft, vars
<1> HIDE DEF Goal
<1> QED
  BY <1>2, <1>3, <1>4, <1>5, <1>6, <1>7, <1>8, <1>9 DEF Next

LEMMA InitTypes == Init => Types
<1> SUFFICES ASSUME Init PROVE Types
  OBVIOUS
<1>1. ASSUME NEW k \in Keys
      PROVE  /\ \E h \in 0..MaxHits(k), n \in 0..Span(k) :
                  counter[k] = [hits |-> h, left |-> n]
             /\ admitted[k] \in [Ticks(k) -> Nat]
  <2>1. 0 \in 0..MaxHits(k) /\ 0 \in 0..Span(k)
    BY KeyFacts
  <2>2. /\ counter[k] = [hits |-> 0, left |-> 0]
        /\ admitted[k] = [i \in Ticks(k) |-> 0]
    BY DEF Init
  <2> QED BY <2>1, <2>2
<1>2. code \in 0..NoExpiry /\ guessed \in 0..MaxGuesses /\ age \in 0..MaxAge
  BY CodeTypes DEF Init
<1>3. /\ IsTable(counter) /\ DOMAIN admitted = Keys
      /\ DOMAIN req = Requests
      /\ \A r \in Requests : req[r] = Idle
  BY DEF Init, IsTable
<1> QED BY <1>1, <1>2, <1>3 DEF Types, IsRequest

LEMMA TypesInvariant == Spec => []Types
<1>1. Types /\ [Next]_vars => Types'
  BY TypesStep
<1> QED BY <1>1, InitTypes, PTL DEF Spec

\* Counters, codes and requests are what Redis and the handlers hold: a
\* window is never longer than configured and a code's expiry neither.
THEOREM RateLimitsTypeCorrect == Spec => []TypeOK
<1>1. Types => TypeOK
  <2> SUFFICES ASSUME Types PROVE TypeOK
    OBVIOUS
  <2>1. ASSUME NEW k \in Keys
        PROVE  /\ counter[k] \in [hits : Nat, left : Nat]
               /\ counter[k].hits <= MaxHits(k)
               /\ counter[k].left <= Window[LimiterOf(k)]
    <3>1. PICK h \in 0..MaxHits(k), n \in 0..Span(k) :
            counter[k] = [hits |-> h, left |-> n]
      BY DEF Types
    <3>2. h \in Nat /\ n \in Nat /\ h <= MaxHits(k) /\ n <= Span(k)
      BY KeyFacts
    <3> QED BY <3>1, <3>2 DEF Span
  <2>2. counter \in [Keys -> [hits : Nat, left : Nat]]
    BY <2>1 DEF Types, IsTable
  <2>3. \A r \in Requests :
          req[r].pc \in {"idle", "limit", "store", "expire", "guess"}
    BY DEF Types, IsRequest, Idle, Waits, AtLimiter, Guesses
  <2> QED BY <2>1, <2>2, <2>3 DEF Types, TypeOK
<1> QED BY <1>1, TypesInvariant, PTL

-----------------------------------------------------------------------------
(* What the limiters let through. *)

\* The requests that an open window has let through: those it has counted,
\* up to the limit.
Used(k) == IF counter[k].hits <= Most(k) THEN counter[k].hits ELSE Most(k)

KeyInv(k) ==
  /\ \A i, j \in Ticks(k) : i <= j => admitted[k][i] <= admitted[k][j]
  /\ counter[k].left = 0 => /\ counter[k].hits = 0
                            /\ admitted[k][0] = 0
                            /\ Passed(k) <= Most(k)
  /\ counter[k].left > 0 => /\ admitted[k][Span(k) - counter[k].left] = Used(k)
                            /\ Passed(k) <= Most(k) + Used(k)

KeysInv == \A k \in Keys : KeyInv(k)

LEMMA KeyInvStep ==
  ASSUME Types, [Next]_vars, NEW k \in Keys, KeyInv(k)
  PROVE  KeyInv(k)'
<1> DEFINE h == counter[k].hits
           n == counter[k].left
           A == admitted[k]
           w == Span(k)
           m == Most(k)
<1>0. /\ h \in 0..(m + 1) /\ n \in 0..w
      /\ m \in Nat /\ m >= 1 /\ w \in Nat /\ w >= 1
      /\ Ticks(k) = 0..(w - 1)
      /\ A \in [0..(w - 1) -> Nat]
      /\ Passed(k) = A[w - 1]
  <2>1. Passed(k) = A[w - 1]
    BY DEF Passed, Span
  <2>2. A \in [Ticks(k) -> Nat]
    BY DEF Types
  <2> QED BY <2>1, <2>2, CounterFields
<1>1. /\ \A i, j \in 0..(w - 1) : i <= j => A[i] <= A[j]
      /\ n = 0 => h = 0 /\ A[0] = 0 /\ A[w - 1] <= m
      /\ n > 0 => /\ A[w - n] = Used(k)
                  /\ A[w - 1] <= m + Used(k)
      /\ Used(k) = IF h <= m THEN h ELSE m
  BY <1>0 DEF KeyInv, Used
<1>a. ASSUME NEW h2 \in Nat, NEW n2 \in Nat, NEW B,
             counter'[k] = [hits |-> h2, left |-> n2], admitted'[k] = B,
             \A i, j \in 0..(w - 1) : i <= j => B[i] <= B[j],
             n2 = 0 => h2 = 0 /\ B[0] = 0 /\ B[w - 1] <= m,
             n2 > 0 => LET u == IF h2 <= m THEN h2 ELSE m
                       IN  B[w - n2] = u /\ B[w - 1] <= m + u
      PROVE  KeyInv(k)'
  <2>1. counter'[k].hits = h2 /\ counter'[k].left = n2
    BY <1>a
  <2>2. Used(k)' = IF h2 <= m THEN h2 ELSE m
    BY <2>1 DEF Used, m, Most
  <2>3. Passed(k)' = B[w - 1]
    BY <1>a DEF Passed, w, Span
  <2> QED BY <1>0, <1>a, <2>1, <2>2, <2>3 DEF KeyInv, m, Most, w, Span
<1>b. counter[k] = [hits |-> h, left |-> n]
  BY CounterIsRecord
<1>u. /\ Used(k) \in 0..m
      /\ A[w - 1] \in Nat /\ A[0] \in Nat
  BY <1>0, <1>1
<1>s. KeySame(k) => counter'[k] = [hits |-> h, left |-> n] /\ admitted'[k] = A
  BY <1>b DEF KeySame
<1>p. KeyPass(k) =>
        /\ counter'[k] = [hits |-> h + 1, left |-> IF n = 0 THEN w ELSE n]
        /\ admitted'[k] = [i \in Ticks(k) |-> A[i] + 1]
        /\ h < m
  BY DEF KeyPass, Opened
<1>r. KeyRefuse(k) =>
        /\ counter'[k] = [hits |-> m + 1, left |-> IF n = 0 THEN w ELSE n]
        /\ admitted'[k] = A
        /\ h >= m
  BY DEF KeyRefuse, Opened
<1>t. KeyTick(k) =>
        /\ counter'[k] = IF n <= 1 THEN [hits |-> 0, left |-> 0]
                         ELSE [hits |-> h, left |-> n - 1]
        /\ admitted'[k] = [i \in Ticks(k) |-> IF i = 0 THEN 0 ELSE A[i - 1]]
  BY DEF KeyTick
<1> HIDE DEF h, n, A, w, m
<1>2. CASE KeySame(k)
  <2>1. counter'[k] = [hits |-> h, left |-> n] /\ admitted'[k] = A
    BY <1>2, <1>s
  <2>2. /\ h \in Nat /\ n \in Nat
        /\ n > 0 => /\ A[w - n] = IF h <= m THEN h ELSE m
                    /\ A[w - 1] <= m + (IF h <= m THEN h ELSE m)
    BY <1>0, <1>1
  <2> QED BY <2>1, <2>2, <1>1, <1>a
<1>3. CASE KeyPass(k)
  <2> DEFINE B == [i \in Ticks(k) |-> A[i] + 1]
             n2 == IF n = 0 THEN w ELSE n
  <2>1. /\ counter'[k] = [hits |-> h + 1, left |-> n2]
        /\ admitted'[k] = B
        /\ h < m
    BY <1>3, <1>p
  <2>2. n2 \in 1..w /\ h + 1 \in Nat /\ h + 1 <= m
    BY <1>0, <2>1
  <2>3. \A i \in 0..(w - 1) : B[i] = A[i] + 1
    BY <1>0
  <2>4. B[w - n2] = h + 1
    <3>1. CASE n = 0
      BY <1>0, <1>1, <2>3, <3>1
    <3>2. CASE n # 0
      BY <1>0, <1>1, <2>1, <2>3, <3>2
    <3> QED BY <3>1, <3>2
  <2>5. B[w - 1] <= m + (h + 1)
    <3>1. CASE n = 0
      BY <1>0, <1>1, <1>u, <2>3, <3>1
    <3>2. CASE n # 0
      BY <1>0, <1>1, <1>u, <2>1, <2>3, <3>2
    <3> QED BY <3>1, <3>2
  <2>6. \A i, j \in 0..(w - 1) : i <= j => B[i] <= B[j]
    BY <1>0, <1>1, <2>3
  <2> HIDE DEF B, n2
  <2> QED BY <2>1, <2>2, <2>4, <2>5, <2>6, <1>0, <1>a
<1>4. CASE KeyRefuse(k)
  <2> DEFINE n2 == IF n = 0 THEN w ELSE n
  <2>1. /\ counter'[k] = [hits |-> m + 1, left |-> n2]
        /\ admitted'[k] = A
        /\ h >= m
    BY <1>4, <1>r
  <2>2. n # 0 /\ n2 = n
    BY <1>0, <1>1, <2>1
  <2>3. A[w - n] = m /\ A[w - 1] <= m + m
    BY <1>0, <1>1, <2>1, <2>2
  <2> HIDE DEF n2
  <2>4. m + 1 \in Nat /\ n2 \in Nat /\ n2 > 0 /\ ~(m + 1 <= m)
    BY <1>0, <2>2
  <2> QED BY <2>1, <2>2, <2>3, <2>4, <1>1, <1>a
<1>5. CASE KeyTick(k)
  <2> DEFINE B == [i \in Ticks(k) |-> IF i = 0 THEN 0 ELSE A[i - 1]]
  <2>0. /\ counter'[k] = IF n <= 1 THEN [hits |-> 0, left |-> 0]
                         ELSE [hits |-> h, left |-> n - 1]
        /\ admitted'[k] = B
    BY <1>5, <1>t
  <2>1. \A i \in 0..(w - 1) : B[i] = IF i = 0 THEN 0 ELSE A[i - 1]
    BY <1>0
  <2>2. \A i, j \in 0..(w - 1) : i <= j => B[i] <= B[j]
    BY <1>0, <1>1, <2>1
  <2>3. B[w - 1] <= A[w - 1] /\ B[w - 1] \in Nat
    <3>1. CASE w = 1
      BY <1>0, <1>u, <2>1, <3>1
    <3>2. CASE w # 1
      BY <1>0, <1>1, <2>1, <3>2
    <3> QED BY <3>1, <3>2
  <2>4. CASE n <= 1
    <3>1. B[0] = 0
      BY <1>0, <2>1
    <3>2. B[w - 1] <= m
      <4>1. CASE n = 0
        BY <1>0, <1>1, <1>u, <2>3, <4>1
      <4>2. CASE n = 1
        BY <1>0, <1>1, <1>u, <2>3, <4>2
      <4> QED BY <1>0, <2>4, <4>1, <4>2
    <3> HIDE DEF B
    <3> QED BY <2>0, <2>2, <2>4, <3>1, <3>2, <1>0, <1>a
  <2>5. CASE n > 1
    <3>1. B[w - (n - 1)] = Used(k)
      <4>1. w - (n - 1) \in 1..(w - 1) /\ (w - (n - 1)) - 1 = w - n
        BY <1>0, <2>5
      <4> QED BY <1>0, <1>1, <2>1, <2>5, <4>1
    <3>2. B[w - 1] <= m + Used(k)
      BY <1>0, <1>1, <1>u, <2>3, <2>5
    <3>3. n - 1 \in Nat /\ n - 1 > 0 /\ h \in Nat
      BY <1>0, <2>5
    <3>4. counter'[k] = [hits |-> h, left |-> n - 1]
      BY <1>0, <2>0, <2>5
    <3> HIDE DEF B
    <3> QED BY <2>0, <2>2, <3>1, <3>2, <3>3, <3>4, <1>1, <1>a
  <2> QED BY <1>0, <2>4, <2>5
<1> QED BY <1>2, <1>3, <1>4, <1>5, KeySteps

LEMMA KeysInvariant == Spec => []KeysInv
<1>1. Init => KeysInv
  <2> SUFFICES ASSUME Init, NEW k \in Keys PROVE KeyInv(k)
    BY DEF KeysInv
  <2>1. /\ counter[k].hits = 0 /\ counter[k].left = 0
        /\ \A i \in Ticks(k) : admitted[k][i] = 0
    BY DEF Init
  <2>2. 0 \in Ticks(k) /\ Span(k) - 1 \in Ticks(k) /\ Most(k) \in Nat
    BY KeyFacts
  <2> QED BY <2>1, <2>2 DEF KeyInv, Passed, Span
<1>2. Types /\ KeysInv /\ [Next]_vars => KeysInv'
  BY KeyInvStep DEF KeysInv
<1> QED BY <1>1, <1>2, TypesInvariant, PTL DEF Spec

\* However the windows fall, a stretch of time as long as one lets at most two
\* windows' worth of requests through.
THEOREM LimitsHold == Spec => []LimitHolds
<1>1. Types /\ KeysInv => LimitHolds
  <2> SUFFICES ASSUME Types, KeysInv, NEW k \in Keys
               PROVE  Passed(k) <= 2 * Most(k)
    BY DEF LimitHolds, Most
  <2>1. /\ counter[k].hits \in 0..(Most(k) + 1) /\ counter[k].left \in Nat
        /\ Most(k) \in Nat /\ Span(k) \in Nat \ {0}
        /\ Ticks(k) = 0..(Span(k) - 1)
    BY CounterFields
  <2>2. Passed(k) \in Nat
    BY <2>1 DEF Types, Passed, Span
  <2> QED BY <2>1, <2>2 DEF KeysInv, KeyInv, Used
<1> QED BY <1>1, TypesInvariant, KeysInvariant, PTL

\* A request is refused only when its limiter has let Limit requests through
\* within the last window, or counted them while their answer was lost.
THEOREM RefusalsEarned == Spec => RefusalIsEarned
<1> DEFINE Safe == \A r \in Requests :
                     Refuse(r) => LET k == req[r].chain[req[r].at]
                                  IN  Passed(k) >= Limit[LimiterOf(k)]
<1>1. Types /\ KeysInv => Safe
  <2> SUFFICES ASSUME Types, KeysInv, NEW r \in Requests, Refuse(r),
                      NEW k, k = req[r].chain[req[r].at]
               PROVE  Passed(k) >= Most(k)
    BY DEF Most
  <2>1. k \in Keys /\ Count(k) /\ Refused(k)
    BY WaitingFacts DEF Refuse
  <2>2. counter[k].hits >= Most(k)
    BY <2>1, CountFacts
  <2>3. /\ counter[k].hits \in 0..(Most(k) + 1)
        /\ counter[k].left \in 0..Span(k)
        /\ Most(k) \in Nat \ {0} /\ Span(k) \in Nat \ {0}
        /\ Ticks(k) = 0..(Span(k) - 1)
        /\ admitted[k] \in [Ticks(k) -> Nat]
    BY <2>1, CounterFields DEF Types
  <2>k. KeyInv(k)
    BY <2>1 DEF KeysInv
  <2>4. counter[k].left > 0
    <3>1. counter[k].left = 0 => counter[k].hits = 0
      BY <2>k DEF KeyInv
    <3> QED BY <2>2, <2>3, <3>1
  <2>5. admitted[k][Span(k) - counter[k].left] = Most(k)
    <3>1. Used(k) = Most(k)
      BY <2>2, <2>3 DEF Used
    <3> QED BY <2>k, <2>4, <3>1 DEF KeyInv
  <2>6. admitted[k][Span(k) - counter[k].left] <= admitted[k][Span(k) - 1]
    <3>1. /\ Span(k) - counter[k].left \in Ticks(k)
          /\ Span(k) - 1 \in Ticks(k)
          /\ Span(k) - counter[k].left <= Span(k) - 1
      BY <2>3, <2>4
    <3> QED BY <2>k, <3>1 DEF KeyInv
  <2> QED BY <2>3, <2>5, <2>6 DEF Passed, Span
<1>2. Types /\ KeysInv => [Safe]_vars
  BY <1>1
<1> QED BY <1>2, TypesInvariant, KeysInvariant, PTL DEF RefusalIsEarned

-----------------------------------------------------------------------------
(* Guesses at a code. *)

(***************************************************************************)
(* The guesses that were admitted since the code was stored, made or still *)
(* to be made.                                                             *)
(***************************************************************************)
Pending == {r \in Requests : req[r].pc = "guess" /\ ~req[r].stale}
Total == guessed + Cardinality(Pending)

LEMMA PendingFacts ==
  /\ IsFiniteSet(Pending) /\ Cardinality(Pending) \in Nat
  /\ IsFiniteSet(Pending') /\ Cardinality(Pending') \in Nat
<1>1. Pending \subseteq Requests /\ Pending' \subseteq Requests
  BY DEF Pending
<1>2. IsFiniteSet(Requests)
  BY RateLimitsAssumption
<1>3. IsFiniteSet(Pending) /\ IsFiniteSet(Pending')
  BY <1>1, <1>2, FS_Subset
<1> QED BY <1>3, FS_CardinalityType

\* A request that moves on to anything but a guess leaves the set.
LEMMA PendingMoves ==
  ASSUME Types, NEW r \in Requests, NEW next, Goto(r, next),
         next.pc # "guess"
  PROVE  Pending' = Pending \ {r}
BY DEF Types, Goto, Pending

V == "verify"

LEMMA GuessRoute ==
  /\ V \in Keys <=> V \in Routes
  /\ V \in Keys => Most(V) = Limit[V] /\ Span(V) = Window[V]
BY RateLimitsAssumption DEF V, Keys, Limiters, LimiterOf, Most, Span

\* What a step that takes no time does to the total and to the code's age:
\* the total grows only when the limiter of guesses lets one through.
GuessStep ==
  \/ /\ Total' <= Total
     /\ code' = NoCode \/ (code # NoCode /\ age' = age)
  \/ /\ V \in Keys /\ KeyPass(V)
     /\ Total' = Total + 1
     /\ code' = code /\ age' = age
  \/ Total' = 0 /\ age' = 0

LEMMA TotalTypes ==
  ASSUME Types, Types'
  PROVE  /\ guessed \in Nat /\ guessed' \in Nat
         /\ Total \in Nat /\ Total' \in Nat
         /\ Total = guessed + Cardinality(Pending)
         /\ Total' = guessed' + Cardinality(Pending')
         /\ Cardinality(Pending) \in Nat /\ Cardinality(Pending') \in Nat
<1>1. guessed \in Nat /\ guessed' \in Nat
  BY CodeTypes DEF Types, MaxGuesses
<1> QED BY <1>1, PendingFacts DEF Total

LEMMA GuessSteps ==
  ASSUME Types, [Next]_vars, ~Tick
  PROVE  GuessStep
<1>0. /\ guessed \in Nat /\ guessed' \in Nat
      /\ Total \in Nat /\ Total' \in Nat
      /\ Total = guessed + Cardinality(Pending)
      /\ Total' = guessed' + Cardinality(Pending')
      /\ Cardinality(Pending) \in Nat /\ Cardinality(Pending') \in Nat
  <2>1. Types'
    BY TypesStep
  <2> QED BY <2>1, TotalTypes
<1>a. ASSUME NEW r \in Requests, NEW next, Goto(r, next),
             next.pc # "guess", guessed' <= guessed
      PROVE  Total' <= Total
  <2>1. Pending' = Pending \ {r}
    BY <1>a, PendingMoves
  <2>2. Cardinality(Pending') <= Cardinality(Pending)
    BY <1>0, <2>1, PendingFacts, FS_RemoveElement
  <2> QED BY <1>0, <1>a, <2>1, <2>2
<1>b. ASSUME NEW r \in Requests, Done(r), guessed' <= guessed
      PROVE  Total' <= Total
  BY <1>a, <1>b DEF Done, Idle
<1>c. ASSUME req' = req, guessed' <= guessed
      PROVE  Total' <= Total
  <2>1. Pending' = Pending
    BY <1>c DEF Pending
  <2> QED BY <1>0, <1>c, <2>1
<1>1. ASSUME NEW r \in Requests, NEW route \in Routes, NEW ip \in Ips,
             Arrive(r, route, ip)
      PROVE  GuessStep
  BY <1>0, <1>1, <1>a DEF Arrive, GuessStep
<1>2. ASSUME NEW r \in Requests, Pass(r)
      PROVE  GuessStep
  <2> DEFINE q == req[r]
  <2>1. CASE q.at < Len(q.chain)
    <3>1. Waits([q EXCEPT !.at = @ + 1])
      BY <1>2, <2>1, WaitingFacts DEF Pass
    <3>2. [q EXCEPT !.at = @ + 1].pc = "limit"
      BY <3>1 DEF Waits, AtLimiter
    <3> DEFINE next == [q EXCEPT !.at = @ + 1]
    <3>3. /\ Goto(r, next) /\ next.pc # "guess"
          /\ guessed' = guessed /\ code' = code /\ age' = age
      BY <1>2, <2>1, <3>2 DEF Pass, Onward
    <3>4. Total' <= Total
      <4> HIDE DEF next
      <4>1. guessed' <= guessed
        BY <1>0, <3>3
      <4> QED BY <3>3, <4>1, <1>a
    <3> QED BY <3>3, <3>4 DEF GuessStep
  <2>2. CASE ~(q.at < Len(q.chain))
    <3>1. /\ Goto(r, Handler(q.route))
          /\ guessed' = guessed /\ code' = code /\ age' = age
      BY <1>2, <2>2 DEF Pass, Onward
    <3>2. CASE q.route # "verify"
      <4>1. Handler(q.route).pc = "store"
        BY <3>2 DEF Handler
      <4> QED BY <1>0, <3>1, <4>1, <1>a DEF GuessStep
    <3>3. CASE q.route = "verify"
      <4>1. /\ V \in Keys /\ q.chain[q.at] = V /\ Charged(r) = {V}
        BY <1>2, <2>2, <3>3, WaitingFacts DEF Pass, V
      <4>2. Count(V) /\ ~Refused(V) /\ Admit({V})
        BY <1>2, <4>1 DEF Pass
      <4>3. KeyPass(V)
        <5>1. KeyPass(V) \/ KeyRefuse(V)
          BY <4>1, <4>2, HitSteps DEF Admit
        <5> QED BY <4>1, <4>2, <5>1, CountFacts DEF KeyRefuse
      <4>4. Goto(r, [pc |-> "guess", stale |-> FALSE])
        BY <3>1, <3>3 DEF Handler
      <4>5. Pending' = Pending \union {r} /\ r \notin Pending
        BY <1>2, <4>4 DEF Pending, Pass, Types, Goto
      <4>6. Cardinality(Pending') = Cardinality(Pending) + 1
        BY <4>5, PendingFacts, FS_AddElement
      <4>7. Total' = Total + 1
        BY <1>0, <3>1, <4>6
      <4> QED BY <3>1, <4>1, <4>3, <4>7 DEF GuessStep
    <3> QED BY <3>2, <3>3
  <2> QED BY <2>1, <2>2
<1>3. ASSUME NEW r \in Requests, Refuse(r) \/ LimiterFails(r)
      PROVE  GuessStep
  BY <1>0, <1>3, <1>b DEF Refuse, LimiterFails, GuessStep
<1>4. ASSUME NEW r \in Requests, StoreCode(r)
      PROVE  GuessStep
  <2>1. ASSUME NEW s \in Requests
        PROVE  req'[s].pc = "guess" => req'[s].stale
    <3>1. req'[s] = IF s = r THEN [pc |-> "expire"]
                    ELSE IF req[s].pc = "guess"
                         THEN [req[s] EXCEPT !.stale = TRUE]
                    ELSE req[s]
      BY <1>4 DEF StoreCode
    <3>2. CASE s # r /\ req[s].pc = "guess"
      <4>1. req[s] \in [pc : {"guess"}, stale : BOOLEAN]
        BY <3>2 DEF Types, IsRequest, Guesses, Idle, Waits, AtLimiter
      <4> QED BY <3>1, <3>2, <4>1
    <3> QED BY <3>1, <3>2
  <2>2. Pending' = {}
    BY <2>1 DEF Pending
  <2>3. Total' = 0
    BY <1>0, <1>4, <2>2, FS_EmptySet DEF StoreCode
  <2> QED BY <1>4, <2>3 DEF StoreCode, GuessStep
<1>5. ASSUME NEW r \in Requests, SetExpiry(r)
      PROVE  GuessStep
  BY <1>0, <1>5, <1>b DEF SetExpiry, GuessStep
<1>6. ASSUME NEW r \in Requests, NEW right \in BOOLEAN, Guess(r, right)
      PROVE  GuessStep
  <2>1. Pending' = Pending \ {r}
    BY <1>6, PendingMoves DEF Guess, Done, Idle
  <2>2. CASE right
    <3>1. guessed' <= guessed /\ code' = NoCode
      BY <1>0, <1>6, <2>2 DEF Guess, NoCodeLeft
    <3> QED BY <1>6, <3>1, <1>b DEF Guess, GuessStep
  <2>3. CASE ~right
    <3>0. UNCHANGED <<code, age>>
      BY <1>6, <2>3 DEF Guess
    <3>1. CASE guessed' = guessed
      BY <1>0, <1>6, <3>0, <3>1, <1>b DEF Guess, GuessStep
    <3>2. CASE guessed' # guessed
      <4>1. r \in Pending /\ guessed' = Min({guessed + 1, MaxGuesses})
        BY <1>6, <2>3, <3>2 DEF Guess, Pending
      <4>2. guessed' <= guessed + 1
        BY <1>0, <4>1, MinOfTwo, CodeTypes
      <4>3. Cardinality(Pending') = Cardinality(Pending) - 1
        BY <2>1, <4>1, PendingFacts, FS_RemoveElement
      <4>4. Total' <= Total
        BY <1>0, <4>2, <4>3
      <4> QED BY <3>0, <4>4 DEF GuessStep
    <3> QED BY <3>1, <3>2
  <2> QED BY <2>2, <2>3
<1>7. ASSUME NEW r \in Requests, HandlerFails(r)
      PROVE  GuessStep
  BY <1>0, <1>7, <1>b DEF HandlerFails, GuessStep
<1>8. CASE UsedElsewhere
  <2>1. guessed' <= guessed /\ req' = req /\ code' = NoCode
    BY <1>0, <1>8 DEF UsedElsewhere, NoCodeLeft
  <2> QED BY <2>1, <1>c DEF GuessStep
<1>9. CASE UNCHANGED vars
  BY <1>0, <1>9, <1>c DEF vars, GuessStep
<1> QED
  BY <1>1, <1>2, <1>3, <1>4, <1>5, <1>6, <1>7, <1>8, <1>9 DEF Next

(***************************************************************************)
(* Of the windows of the limiter of guesses, n have closed since the code  *)
(* was stored: each after the first took its whole length of the code's    *)
(* age, and the one that is open, or the next to open, will end no earlier *)
(* than n windows' time after the code was stored.                         *)
(***************************************************************************)
Fits(n) == /\ Total <= n * Most(V) + Used(V)
           /\ n * Span(V) < age + Opened(V)

GuessInv ==
  /\ V \notin Keys => Total = 0
  /\ V \in Keys /\ code # NoCode /\ age < MaxAge => \E n \in Nat : Fits(n)

LEMMA CounterNext ==
  ASSUME Types, [Next]_vars, V \in Keys
  PROVE  counter'[V].hits \in Nat
<1>1. PICK h \in 0..MaxHits(V), n \in 0..Span(V) :
        counter'[V] = [hits |-> h, left |-> n]
  BY TypesStep DEF Types, MaxHits, Span
<1>2. counter'[V].hits = h /\ MaxHits(V) \in Nat
  BY <1>1, KeyFacts
<1> QED BY <1>2

LEMMA WindowFacts ==
  ASSUME Types, V \in Keys
  PROVE  /\ Most(V) \in Nat \ {0} /\ Span(V) \in Nat \ {0}
         /\ Used(V) \in 0..Most(V)
         /\ Opened(V) \in 1..Span(V)
         /\ age \in Nat /\ MaxAge \in Nat
BY CounterFields, CodeTypes DEF Used, Opened, Types

\* Between two ticks an open window stays as it is, and counts upwards.
LEMMA WindowSteps ==
  ASSUME Types, [Next]_vars, ~Tick, V \in Keys
  PROVE  /\ Used(V) <= Used(V)'
         /\ Opened(V)' = Opened(V)
         /\ KeyPass(V) => Used(V)' = Used(V) + 1
<1> DEFINE h == counter[V].hits
           n == counter[V].left
           h2 == counter'[V].hits
           n2 == counter'[V].left
           w == Span(V)
           m == Most(V)
<1>0. /\ h \in 0..(m + 1) /\ n \in 0..w
      /\ m \in Nat /\ w \in Nat \ {0}
      /\ Used(V) = IF h <= m THEN h ELSE m
      /\ Opened(V) = IF n = 0 THEN w ELSE n
  BY CounterFields DEF Used, Opened
<1>1. /\ Used(V)' = IF h2 <= m THEN h2 ELSE m
      /\ Opened(V)' = IF n2 = 0 THEN w ELSE n2
  BY DEF Used, Most, Opened, Span
<1>2. \/ h2 = h /\ n2 = n /\ ~KeyPass(V)
      \/ h < m /\ h2 = h + 1 /\ n2 = IF n = 0 THEN w ELSE n
      \/ h >= m /\ h2 = m + 1 /\ (n2 = IF n = 0 THEN w ELSE n) /\ ~KeyPass(V)
  <2>1. CASE KeySame(V)
    <3>1. counter'[V] = counter[V]
      BY <2>1 DEF KeySame
    <3>2. h2 = h /\ n2 = n
      BY <3>1
    <3>3. KeyPass(V) => h2 = h + 1
      BY DEF KeyPass
    <3> HIDE DEF h, n, h2, n2, w, m
    <3> QED BY <1>0, <3>2, <3>3
  <2>2. CASE KeyPass(V)
    BY <2>2 DEF KeyPass, Opened
  <2>3. CASE KeyRefuse(V)
    <3>1. h >= m /\ h2 = m + 1 /\ n2 = IF n = 0 THEN w ELSE n
      BY <2>3 DEF KeyRefuse, Opened
    <3>2. KeyPass(V) => h < m
      BY DEF KeyPass
    <3> HIDE DEF h, n, h2, n2, w, m
    <3> QED BY <1>0, <3>1, <3>2
  <2> HIDE DEF h, n, h2, n2, w, m
  <2> QED BY <2>1, <2>2, <2>3, KeySteps
<1> HIDE DEF h, n, h2, n2, w, m
<1>3. h2 \in Nat /\ n2 \in Nat
  BY <1>0, <1>2
<1>4. Opened(V)' = Opened(V)
  <2>1. n2 = n \/ (n2 = IF n = 0 THEN w ELSE n)
    BY <1>2
  <2> QED BY <1>0, <1>1, <2>1
<1>5. Used(V) <= Used(V)'
  BY <1>0, <1>1, <1>2, <1>3
<1>6. ASSUME KeyPass(V)
      PROVE  Used(V)' = Used(V) + 1
  <2>1. h < m /\ h2 = h + 1
    BY <1>2, <1>6
  <2> QED BY <1>0, <1>1, <2>1
<1> QED BY <1>4, <1>5, <1>6

\* A step that takes no time.
LEMMA GuessInvMoves ==
  ASSUME Types, GuessInv, [Next]_vars, ~Tick
  PROVE  GuessInv'
<1>0. Total \in Nat /\ Total' \in Nat
  BY TypesStep, TotalTypes
<1>1. V \notin Keys => Total' = 0
  BY <1>0, GuessSteps DEF GuessStep, GuessInv
<1>2. ASSUME V \in Keys, code' # NoCode, age' < MaxAge
      PROVE  \E n \in Nat : Fits(n)'
  <2>1. /\ Used(V) \in Nat /\ Used(V)' \in Nat
        /\ Opened(V) \in Nat \ {0} /\ age \in Nat
        /\ Most(V) \in Nat /\ Span(V) \in Nat
    <3>1. counter'[V].hits \in Nat
      BY <1>2, CounterNext
    <3> QED BY <1>2, <3>1, WindowFacts DEF Used, Most
  <2>2. /\ Used(V) <= Used(V)' /\ Opened(V)' = Opened(V)
        /\ KeyPass(V) => Used(V)' = Used(V) + 1
    BY <1>2, WindowSteps
  <2>3. ASSUME NEW n \in Nat
        PROVE  Fits(n)' <=> /\ Total' <= n * Most(V) + Used(V)'
                            /\ n * Span(V) < age' + Opened(V)'
    BY DEF Fits, Most, Span
  <2>4. CASE Total' = 0 /\ age' = 0
    <3>1. 0 * Most(V) = 0 /\ 0 * Span(V) = 0
      BY <2>1
    <3>2. Fits(0)'
      BY <2>1, <2>2, <2>3, <2>4, <3>1
    <3> QED BY <3>2
  <2>5. ASSUME code # NoCode, age' = age,
               \/ Total' <= Total
               \/ KeyPass(V) /\ Total' = Total + 1
        PROVE  \E n \in Nat : Fits(n)'
    <3>1. PICK n \in Nat : Fits(n)
      BY <1>2, <2>5 DEF GuessInv
    <3> DEFINE a == n * Most(V)
               b == n * Span(V)
    <3>2. a \in Nat /\ b \in Nat
      BY <2>1
    <3>3. Total <= a + Used(V) /\ b < age + Opened(V)
      BY <3>1 DEF Fits
    <3>4. (Total' <= a + Used(V)' /\ b < age' + Opened(V)') => Fits(n)'
      BY <2>3
    <3> HIDE DEF a, b
    <3>5. Total' <= a + Used(V)' /\ b < age' + Opened(V)'
      BY <1>0, <2>1, <2>2, <2>5, <3>2, <3>3
    <3> QED BY <3>4, <3>5
  <2> QED BY <1>2, <2>4, <2>5, GuessSteps DEF GuessStep
<1> QED BY <1>1, <1>2 DEF GuessInv

\* A tick ends the window, or brings its end as much nearer as it makes the
\* code older.
LEMMA GuessInvTick ==
  ASSUME Types, KeysInv, GuessInv, Tick
  PROVE  GuessInv'
<1>0. Total \in Nat /\ Total' \in Nat /\ Total' <= Total
  <2>1. req' = req /\ guessed \in Nat /\ guessed' <= guessed
    BY TypesStep, TotalTypes DEF Next, Tick, NoCodeLeft
  <2>2. Pending' = Pending
    BY <2>1 DEF Pending
  <2> QED BY <2>1, <2>2, TypesStep, TotalTypes DEF Next
<1>1. V \notin Keys => Total' = 0
  BY <1>0 DEF GuessInv
<1>2. ASSUME V \in Keys, code' # NoCode, age' < MaxAge
      PROVE  \E n \in Nat : Fits(n)'
  <2> DEFINE l == counter[V].left
             u == Used(V)
             u2 == Used(V)'
             m == Most(V)
             w == Span(V)
  <2>1. /\ m \in Nat \ {0} /\ w \in Nat \ {0} /\ u \in 0..m
        /\ l \in 0..w /\ age \in Nat /\ MaxAge \in Nat
    BY <1>2, WindowFacts, CounterFields
  <2>2. code # NoCode /\ age' = age + 1 /\ age < MaxAge
    <3>1. code # NoCode /\ age' = Min({age + 1, MaxAge})
      BY <1>2 DEF Tick, NoCodeLeft
    <3>2. age + 1 \in Nat
      BY <2>1
    <3> HIDE DEF l, u, u2, m, w
    <3> QED BY <1>2, <2>1, <3>1, <3>2, MinOfTwo
  <2>3. \/ l <= 1 /\ u2 = 0 /\ Opened(V)' = w
        \/ l > 1 /\ u2 = u /\ Opened(V)' = l - 1
    <3>1. counter'[V] = IF l <= 1 THEN [hits |-> 0, left |-> 0]
                        ELSE [counter[V] EXCEPT !.left = @ - 1]
      BY <1>2 DEF Tick
    <3>0. counter[V] = [hits |-> counter[V].hits, left |-> l]
      BY <1>2, CounterIsRecord
    <3>2. [counter[V] EXCEPT !.left = @ - 1] =
            [hits |-> counter[V].hits, left |-> l - 1]
      BY <3>0
    <3>3. CASE l <= 1
      <4>1. counter'[V].hits = 0 /\ counter'[V].left = 0
        BY <3>1, <3>3
      <4> QED BY <2>1, <3>3, <4>1 DEF Used, Most, Opened, Span
    <3>4. CASE l > 1
      <4>1. counter'[V] = [hits |-> counter[V].hits, left |-> l - 1]
        BY <2>1, <3>1, <3>2, <3>4
      <4>2. counter'[V].hits = counter[V].hits /\ counter'[V].left = l - 1
        BY <4>1
      <4>3. u2 = u
        BY <4>2 DEF Used, Most
      <4>4. l - 1 # 0
        BY <2>1, <3>4
      <4>5. Opened(V)' = l - 1
        BY <4>2, <4>4 DEF Opened
      <4> QED BY <3>4, <4>3, <4>5
    <3> QED BY <2>1, <3>3, <3>4
  <2>4. PICK n \in Nat : Fits(n)
    BY <1>2, <2>2 DEF GuessInv
  <2> DEFINE a == n * m
             b == n * w
             o == IF l = 0 THEN w ELSE l
  <2>5. Total <= a + u /\ b < age + o
    BY <2>4 DEF Fits, Opened
  <2>6. ASSUME NEW k \in Nat
        PROVE  Fits(k)' <=> /\ Total' <= k * m + u2
                            /\ k * w < age' + Opened(V)'
    BY DEF Fits, Most, Span
  <2>7. /\ a \in Nat /\ b \in Nat
        /\ (n + 1) * m = a + m /\ (n + 1) * w = b + w
    <3>1. m \in Nat /\ w \in Nat
      BY <2>1
    <3> HIDE DEF m, w
    <3> QED BY <3>1
  <2>8. (Total' <= a + u2 /\ b < age' + Opened(V)') => Fits(n)'
    <3>1. Fits(n)' <=> /\ Total' <= n * m + u2
                       /\ n * w < age' + Opened(V)'
      BY <2>6
    <3> QED BY <3>1
  <2>9. (Total' <= a + m + u2 /\ b + w < age' + Opened(V)') => Fits(n + 1)'
    <3>1. Fits(n + 1)' <=> /\ Total' <= (n + 1) * m + u2
                           /\ (n + 1) * w < age' + Opened(V)'
      <4>1. n + 1 \in Nat
        OBVIOUS
      <4> HIDE DEF m, w, u2
      <4> QED BY <4>1, <2>6
    <3> QED BY <2>7, <3>1
  <2> HIDE DEF a, b, l, u, u2, m, w
  <2>10. CASE l = 0
    <3>1. u = 0
      <4>1. counter[V].hits = 0
        BY <1>2, <2>10 DEF KeysInv, KeyInv, l
      <4> QED BY <2>1, <4>1 DEF Used, u, m
    <3> QED BY <1>0, <2>1, <2>2, <2>3, <2>5, <2>7, <2>8, <2>10, <3>1
  <2>11. CASE l = 1
    <3>1. Total' <= a + m + u2 /\ b + w < age' + Opened(V)'
      BY <1>0, <2>1, <2>2, <2>3, <2>5, <2>7, <2>11
    <3> QED BY <2>9, <3>1
  <2>12. CASE l > 1
    BY <1>0, <2>1, <2>2, <2>3, <2>5, <2>7, <2>8, <2>12
  <2> QED BY <2>1, <2>10, <2>11, <2>12
<1> QED BY <1>1, <1>2 DEF GuessInv

\* Where there is no code, none has been guessed at.
LEMMA NothingGuessed == Spec => [](code = NoCode => guessed = 0)
<1> DEFINE None == code = NoCode => guessed = 0
<1>1. Init => None
  BY DEF Init
<1>2. ASSUME Types, None, [Next]_vars
      PROVE  None'
  <2>0. /\ code \in 0..(CodeTtl + 1) /\ NoExpiry = CodeTtl + 1
        /\ NoCode = 0 /\ CodeTtl \in Nat \ {0}
    BY <1>2, CodeTypes DEF Types
  <2>1. CASE UNCHANGED <<code, guessed>>
    BY <1>2, <2>1
  <2>2. CASE NoCodeLeft
    BY <2>2 DEF NoCodeLeft
  <2>3. ASSUME NEW r \in Requests,
               Pass(r) \/ Refuse(r) \/ LimiterFails(r) \/ HandlerFails(r)
        PROVE  None'
    BY <2>1, <2>3 DEF Pass, Refuse, LimiterFails, HandlerFails
  <2>4. ASSUME NEW r \in Requests, StoreCode(r) \/ SetExpiry(r)
        PROVE  None'
    BY <1>2, <2>0, <2>4 DEF StoreCode, SetExpiry
  <2>5. ASSUME NEW r \in Requests, NEW route \in Routes, NEW ip \in Ips,
               Arrive(r, route, ip)
        PROVE  None'
    BY <2>1, <2>5 DEF Arrive
  <2>6. ASSUME NEW r \in Requests, NEW right \in BOOLEAN, Guess(r, right)
        PROVE  None'
    <3>1. CASE right
      BY <2>2, <2>6, <3>1 DEF Guess
    <3>2. CASE ~right
      BY <1>2, <2>6, <3>2 DEF Guess
    <3> QED BY <3>1, <3>2
  <2>7. CASE Tick
    BY <2>0, <2>2, <2>7 DEF Tick
  <2>8. CASE UsedElsewhere \/ UNCHANGED vars
    BY <2>1, <2>2, <2>8 DEF UsedElsewhere, vars
  <2> QED BY <1>2, <2>3, <2>4, <2>5, <2>6, <2>7, <2>8 DEF Next
<1> QED BY <1>1, <1>2, TypesInvariant, PTL DEF Spec

LEMMA GuessInvariant == Spec => []GuessInv
<1>1. Init => GuessInv
  <2> SUFFICES ASSUME Init PROVE GuessInv
    OBVIOUS
  <2>1. Pending = {}
    BY DEF Init, Pending, Idle
  <2>2. Total = 0
    BY <2>1, FS_EmptySet DEF Init, Total
  <2> QED BY <2>2 DEF Init, GuessInv
<1>2. Types /\ KeysInv /\ GuessInv /\ [Next]_vars => GuessInv'
  BY GuessInvMoves, GuessInvTick
<1> QED BY <1>1, <1>2, TypesInvariant, KeysInvariant, PTL DEF Spec

LEMMA TimesMono ==
  ASSUME NEW a \in Nat, NEW b \in Nat, NEW c \in Nat, a <= b
  PROVE  a * c <= b * c
<1>1. PICK d \in Nat : b = a + d
  <2>1. b - a \in Nat /\ b = a + (b - a)
    OBVIOUS
  <2> QED BY <2>1
<1>2. b * c = a * c + d * c /\ a * c \in Nat /\ d * c \in Nat
  BY <1>1
<1> QED BY <1>2

\* Within n windows' time of its being stored a reset code is compared with
\* at most n + 1 windows' worth of wrong guesses, for any limits and windows,
\* and however long the code lives.
THEOREM GuessesBounded == Spec => []GuessesAreBounded
<1> DEFINE None == code = NoCode => guessed = 0
<1>1. Types /\ GuessInv /\ None => GuessesAreBounded
  <2> SUFFICES ASSUME Types, GuessInv, None, NEW k \in 0..MaxPeriods,
                      guessed > (k + 1) * Limit["verify"]
               PROVE  age > k * Window["verify"]
    BY DEF GuessesAreBounded
  <2> DEFINE L == Limit["verify"]
             W == Window["verify"]
  <2>1. /\ L \in Nat /\ W \in Nat \ {0} /\ guessed \in Nat /\ k \in Nat
        /\ k <= MaxPeriods /\ MaxPeriods \in Nat
        /\ age \in 0..MaxAge /\ MaxAge = MaxPeriods * W + 1
        /\ Cardinality(Pending) \in Nat
    BY RateLimitsAssumption, CodeTypes, PendingFacts
    DEF Types, Limiters, MaxAge
  <2>2. guessed <= Total /\ Total \in Nat
    BY <2>1 DEF Total
  <2>3. guessed > 0
    <3>1. (k + 1) * L \in Nat
      BY <2>1
    <3> QED BY <2>1, <3>1
  <2>4. V \in Keys
    BY <2>1, <2>2, <2>3 DEF GuessInv
  <2>5. CASE code = NoCode
    BY <2>3, <2>5
  <2>6. CASE age = MaxAge
    <3>1. k * W <= MaxPeriods * W
      BY <2>1, TimesMono
    <3>2. k * W \in Nat /\ MaxPeriods * W \in Nat
      BY <2>1
    <3> QED BY <2>1, <2>6, <3>1, <3>2
  <2>7. CASE code # NoCode /\ age # MaxAge
    <3>1. age \in Nat /\ age < MaxAge
      BY <2>1, <2>7, CodeTypes
    <3>2. PICK n \in Nat : Fits(n)
      BY <2>4, <2>7, <3>1 DEF GuessInv
    <3>3. Most(V) = L /\ Span(V) = W
      BY <2>4, GuessRoute DEF V
    <3>4. /\ Total <= n * L + Used(V) /\ n * W < age + Opened(V)
          /\ Used(V) \in 0..L /\ Opened(V) \in 1..W
      BY <2>4, <3>2, <3>3, WindowFacts DEF Fits
    <3> HIDE DEF L, W
    <3>5. n > k
      <4> SUFFICES ASSUME n <= k PROVE FALSE
        BY <2>1
      <4>1. n * L <= k * L /\ n * L \in Nat /\ k * L \in Nat
        BY <2>1, TimesMono
      <4>2. (k + 1) * L = k * L + L
        BY <2>1
      <4> QED BY <2>1, <2>2, <3>4, <4>1, <4>2 DEF L
    <3>6. (k + 1) * W <= n * W /\ n * W \in Nat
      BY <2>1, <3>5, TimesMono
    <3>7. (k + 1) * W = k * W + W /\ k * W \in Nat
      BY <2>1
    <3>8. age > k * W
      BY <2>1, <3>1, <3>4, <3>6, <3>7
    <3> QED BY <3>8 DEF W
  <2> QED BY <2>5, <2>6, <2>7
<1> QED BY <1>1, TypesInvariant, GuessInvariant, NothingGuessed, PTL
=============================================================================
