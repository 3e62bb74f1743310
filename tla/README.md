# spotq-user-service in TLA+

The service keeps customer accounts, their sessions and their push-notification
devices, and the sessions of platform admins. It is a Node process (several may
run) over PostgreSQL, through Prisma, and Redis. Node runs one continuation at a
time, so the unit of interleaving is the `await`: between two calls of one
request to the database or to Redis, any call of another request may run, on
this instance or on another, and the process may die. All modules are built on
that: **every database statement, transaction or Redis command is one step**,
and what a request has read is kept in `req[r]` until it is used, stale or not.

## Inventory

| Component | State | Operations | Hard because |
|---|---|---|---|
| Customer accounts and sessions (`application/use-cases/*`, `prisma-user`, `prisma-refresh-token`, `prisma-base` repositories) | tables `users`, `user_profiles`, `refresh_tokens`; reset tokens (JWT) | register, verify e-mail, login, Google sign-in, refresh, logout, forgot / verify / reset password, update profile, change status (admin) | read-check-write without transactions; `update()` writes the whole row from a copy; rotation and revocation race |
| One-time codes (`redis-otp.service.ts`, `redis.otp.ts`) | one Redis hash per e-mail address | generate, verify, in two services that share the key | read-modify-write of the attempt counter; HSET then EXPIRE; DEL of whatever the key holds by then |
| Password reset of customers and admins | as above, and `platform_admins` | forgot, verify, reset | the same key serves sign-up and reset; the reset token can be used again until it expires |
| Admin sessions (`admin/auth/*`, `token.repo.ts`, `token.ts`) | revocation list in Redis | login, refresh, logout | stateless JWTs; the list entry must outlive the token; one-second resolution |
| Devices (`register-device`, `deactivate-device`, `prisma-device.repository.ts`) | table `devices` | register, deactivate, list | a two-statement transaction at READ COMMITTED; row locks, deadlock |
| E-mail queue (`infrastructure/queue`, `brevo-email.service.ts`) | BullMQ queue in Redis, which outlives the process | enqueue (two producers), deliver, retry, take up stalled jobs | retries, five runs at a time, lost answers, runs cut off by an exit |
| Start and shutdown (`server.ts`, `lifecycle.ts`, `bullmq.service.ts`, `redis.client.ts`, the health check) | connections, worker, timer | connect, listen, drain, close, forced exit | every step can fail or hang; it must end all the same; handlers outlive the connections of clients that hang up; what may it cut off? |
| Customer listing and details | none (reads) | list, count, get | a page and its total are two queries; a page is a number of rows to skip |
| Rate limits (`rate.limit.middleware.ts`, the routers) | counters in Redis, by a library | count a request, refuse it | fixed windows; chains of limiters; they alone bound the guesses at a reset code |
| Auth middlewares, validators, error mapping, DTO mappers | none | | stateless |
| Health, metrics, logging, configuration, DI | none that others read | | |

Interaction: verify e-mail and the forgot-password flows call the OTP services
and, once a code is accepted, read and write the account; register and resend
store a code and enqueue a mail; a status change by an admin revokes customer
sessions in its own transaction; the limiters stand before the routes that store
or check a code; the process holds the connections all of them use, and its
shutdown waits for connections and for runs of the worker. Accounts
therefore takes "the code is accepted" as an input, and OtpStore says when that
can happen; Service composes the process, the queue and the requests that feed
it; RateLimits composes the limiters with the code they guard.

What makes each component correct:

- accounts: a session needs a proven address; a block ends all sessions and no
  new one opens but for a request already past its check; rotation never leaves
  two usable sessions from one unless two refreshes overlapped; a write loses
  another's change only in a race (and which races those are);
- codes: newest only, gone once used, a bounded number of guesses, dead in the
  end;
- admin sessions: what was revoked stays refused as long as it would verify;
- devices: one active row per client device and push token, unless the saves that
  made two of them overlapped; every save ends;
- mails: a job that is gone has delivered, no mail arrives more often than its job
  was run, and every queued mail is delivered or given up in the end;
- the process: shutdown ends, takes nothing away from what it waits for, and a
  graceful one cuts off nothing but what it does not know of, the handlers of
  clients that have hung up;
- requests that mail a code: a client told of a success has its mail in the queue,
  but for a resend that hides whether there is an account to verify, and a
  registration whose queue failed;
- limits: at most two windows' worth in any stretch of one, nobody is refused on
  account of what others were refused, and a code that lives for n windows meets at
  most n + 1 windows' worth of guesses;
- listing: a page and its total agree, and a walk through the pages misses nobody,
  unless the list changed in the way that makes it so.

## Modules

| Module | Models |
|---|---|
| `Accounts` | accounts, sessions, customer password reset, status changes |
| `SessionStore` | the abstract specification of sessions that `Accounts` implements |
| `AccountsProofs` | type correctness of `Accounts`, proved, and what a step may do to tokens, rows and requests |
| `AccountsSafety` | the safety properties of `Accounts` and its refinement of `SessionStore`, proved |
| `OtpStore` | the Redis hash of one address and both OTP services |
| `OtpProofs` | the safety properties of `OtpStore`, proved |
| `AdminSessions` | admin refresh JWTs, the revocation list, the clock |
| `AdminProofs` | the safety properties of `AdminSessions`, proved |
| `Devices` | the table `devices` with the locks of save's transaction |
| `DevicesProofs` | the safety properties of `Devices`, proved |
| `EmailQueue` | the BullMQ queue, its worker's runs and the mail provider |
| `Lifecycle` | start, serving, shutdown and end of the server process |
| `Service` | `EmailQueue` and `Lifecycle` composed with the requests that queue mails |
| `ServiceProofs` | the safety properties of `Service` and its queue, proved |
| `RateLimits` | the limiters of an address and of an IP, and the code they guard |
| `RateLimitsProofs` | its safety properties, proved |
| `CustomerListing` | the admins' list, a page at a time |
| `CustomerListingProofs` | its safety properties, proved |
| `MCAccounts`, `MCAdminSessions`, `MCDevices`, `MCRateLimits` | constants and symmetry for TLC |

### Accounts

`row[u]` is the user row (status, `isEmailVerified`, password hash, `googleId`
and one field for the profile); `tokens` is the table `refresh_tokens` in the
order of the INSERTs, a token being its index. A use case is the sequence of the
actions named after its calls: login is `Login`, `SaveSession`; refresh is
`RefreshFind`, `RefreshUser`, `RefreshRevoke`, `SaveSession`; verify e-mail is
`VerifyEmail`, `UpdateRow`, `SaveSession`; Google sign-in is `GoogleById` and
`SaveSession`, or `GoogleUnknown`, `GoogleByEmail` and then either `UpdateRow`,
`SaveSession` or `GoogleCreate`; a status change is `UpdateStatus`,
`BeginStatus`, `CommitStatus`. A request that a check refuses changes nothing
and is no step; one that stops half way is `Fail`, which keeps what it has
committed. `proven`, `version`, `fence`, `blockedAt`, `clobbered` and three
fields of a token are history: no guard of a code action reads them, but for the
bound on `version`.

Abstractions: the two or three statements of a status transaction are one step
up to the commit, because nothing of them is visible before it; its tokens' UPDATE
sees the tokens committed when it runs (READ COMMITTED), which is what `cut`
records, and the rows it has changed are locked until the commit (`Locked`,
`RowLocked`). The phone number, a second unique column checked exactly as the
e-mail is, is left out. No code path deletes a user or changes an e-mail. The
mapper never yields a null password hash, so the test that guards the Google link
always passes.

### OtpStore

One address; keys of different addresses do not interact. The n-th code ever
stored is the number n, so a guess is a number too, and 0 is a guess that
matches nothing. `StoreVerificationCode` and `StoreResetCode` are the HSETs of
the two services (the second leaves `attempts` alone), `SetExpiry` the EXPIRE,
`ReadCode`, `CountAttempt` and then `ConsumeCode` or `DropCode` the commands of
the counting `verifyOtp`, `ReadResetCode` and `ConsumeCode` those of the other.

### AdminSessions

A refresh token is the pair of its admin and the second of its `iat`, since its
payload has nothing else. `until[t]` is the second at which the list entry of `t`
leaves Redis. `RefreshTTL` computes the time to live (`RotatedTTL`, with the week
that stands in for none) and `RefreshRevoke` sets it, possibly later, and only if
it is positive; `Tick` may come between any two steps.

### Devices

A save is `Register`, which reads the row, and then the transaction: `BeginUpdate`
is the start of its UPDATE, `DeactivateRivals` takes one row of it, `Upsert` is the
upsert with the commit. At READ COMMITTED a statement sees what was committed when
it began: `todo` is that set of rivals. It takes them one by one in any order, waits
for a row that another transaction has changed and not committed, and then
looks only at that row again, whether it still qualifies (PostgreSQL's recheck, the
intersection in `DeactivateRival`); a rival committed in the meantime stays active.
Rows a transaction has changed are locked for the others until it ends. UPDATEs and
upserts may wait for each other in any combination; a cycle of waiting transactions
is broken by `AbortDeadlocked`. `met` is history: the pairs of active rivals of which
one was saved while the save of the other was between the start of its UPDATE and
its commit.

### EmailQueue, Lifecycle and Service

`job[m]` is the BullMQ job of mail m with the two counters BullMQ keeps, failures
and stalls, and the state of the run a living worker makes of it. `Add` is the
`queue.add` of both producers, which name the same queue; `StartJob`,
`AcceptMail`, `Complete` and `FailAttempt` are one call of the processor, split
where the provider takes the mail, since it may have taken it when the call
throws. Delayed retries (`Promote`) and the check for stalled jobs
(`RecoverStalled`) are BullMQ's, from the options the code gives it and its
defaults. A worker that is alive and loses its lock on a job, so that the job runs
twice at once, is left out; so is the content of a mail, and with it the order in
which a reader sees two codes. **Assumption:** within one run the provider takes the
mail at most once. The client of its SDK is built with an API key alone
(`brevo-email.service.ts:17-19`), so that it keeps whatever defaults the SDK has for
retrying a request, and the SDK is not part of the repository. If it repeats a
request that the provider had taken, one run delivers more than once, and the bounds
of `MailsAreCounted` and `MailsAreBounded` are to be multiplied accordingly.

`phase` and `step` say how far bootstrap or shutdown has come in the orders of
`initInfrastructure` and `shutdownInfrastructure`; `open` is what the process has
opened and not closed: the three clients, the worker, and the queue of each of the
two producers. Only the producer bound to `TYPES.EmailQueueProducer` is closed on
shutdown; the one the forgot-password use cases get, bound to
`TYPES.EmailQueueProducers`, is not, which `GracefulExitIsClean` states. All are
singletons of the container, so that what shutdown closes is what the requests
used. The worker class of `email.queue.worker.ts` is bound to nothing. The Redis
client gives up after ten retries (`RedisLost`); the clients of BullMQ and of
Prisma do not. Bootstrap with a lost client in it is left out: it has only just
connected. The connects and closes of the services are one step each.

A request of `Service` is one for the address: register, resend, or
forgot-password, with the step at which it may fail. `Receive` holds the checks up
to the first write: `Refuses` are the ones a use case answers with an error, `Skips`
is resending to an address that has no account or a verified one, which is answered
`OTP_RESENT` like a success and does nothing. A blocked account is an error and
leaves no other trace here. Reset and verification codes are kept apart in
`OtpStore`, not here: `stored` says that this request's code went to Redis. Requests
arrive while the process is serving, and during the drain on connections that are
still open. The account is `Accounts`' row, reduced to its existence and to whether
the address is verified (`Verify`, by a request that is not one of these).

A client may hang up (`HangUp`): its handler goes on, and its answer is heard by
nobody. `server.close` calls back when the connections have ended, so `Drain` waits
for the requests whose client is still there and for no others. What is left of
the others meets what shutdown has closed: a statement of theirs throws, or Prisma,
the Redis client of registration or a producer connects again behind the shutdown,
or `exit(0)` cuts them off. The comment at `server.ts:51` says that services are
disconnected "after HTTP server finishes processing current requests", which is true
of the requests somebody still waits for; `NothingPulledAway` and
`GracefulExitIsClean` are stated for those.

### RateLimits

Time is in ticks, and everything that expires is kept as the ticks it has left.
`counter[k]` is the Redis key of a limiter and an address, or of the IP; `Count`
is one `sendCommand` of the library's script, `Pass` and `Refuse` what the
library does with the answer, and `LimiterFails` a store that rejects, whether or
not the hit was counted. `Chain` is the order of limiters on a route. The code is
reduced to its time to live and the number of guesses it has met; guesses whose
request was admitted for an earlier code are marked `stale` and not counted. The
code's time to live is a constant of the class (300 s, `redis.otp.ts:10`) and the
windows come from the environment, so neither bounds the other. A tick may pass
between any two commands of a request, HSET and EXPIRE included: a code may live for
long, or for ever if its request fails between the two, and `age`, a history
variable, says for how long it has.
`verify-email`, which has no limiter and counts attempts in `OtpStore`, appears as
`UsedElsewhere`. The history `admitted[k][i]` counts what `k` has let through in
the current tick and the i before it, which is the sum that `LimitHolds` and
`RefusalIsEarned` speak of.

### CustomerListing

The rows' order is a number, for `createdAt` and the id that breaks ties; ascending
and descending walks are the same up to the numbering. A registration may commit
anywhere in that order, because `createdAt` is taken before the commit. `filter`
stands for a status or a search, and `matching` for the rows it lets through; a
change of status or of a searched name moves a row in or out. The list is ordered by
`Position`, which counts the rows that come no later. The validator's bound on the
limit is the range of `Begin`.

## Runs

| Run | Instance | Shows |
|---|---|---|
| `sessions` | 1 customer, 2 requests, 3 tokens, 1 write of the row | `SessionsAreProven`, `RotatedIsRevoked`, `NoReplayAfterRotation`, and that `Accounts` implements `SessionStore` |
| `rows` | 1 customer, 2 requests, 2 tokens, 3 writes, 2 profile values | `TypeOK`, `RevokeAllIsComplete`, `CheckedSessionsPredateBlock`, `LostUpdateNeedsARace` |
| `otp` | 2 requests, 2 codes, 2 attempts | `TypeOK`, `AcceptedWasNewest`, `UsedCodeIsGone`, `AttemptLimit`, `CodesExpire`, `EveryCodeDies` |
| `otp_single_use` | 2 requests | a code accepted twice: refutes "single-use" |
| `otp_charge` | 2 requests | a resend's fresh count overwritten: refutes "resets attempt count" |
| `admin` | 1 admin, 2 requests, 3 seconds, lifetime 2 | `TypeOK`, `RevocationOutlivesToken`, `RevokedIsRefused`, `RotatedIsRevoked` |
| `admin_rotation` | 1 admin | a refresh that hands out the token it has revoked: refutes "rotate" |
| `devices` | 2 users, 2 client devices, 1 push token, 2 requests | `TypeOK`, `ActiveIsExclusive` |
| `devices_live` | 3 users, 1 client device, no push token, 2 requests | `EverySaveEnds` |
| `service` | 2 mails, 1 run at a time, 2 attempts, 1 stall, 2 starts, 1 client that hangs up, 1 close that throws | `TypeOK`, `MailsAreCounted`, `MailsAreBounded`, `NothingPulledAway`, `QueuedOrTold`, `GracefulExitIsClean`, `ShutdownEnds`, `EveryMailSettles` |
| `rate_limits` | 2 requests, 1 IP, the routes verify (limit 2) and resend (limits 1 and 2), windows of 2 ticks, a code that lives for 3, ages up to 2 windows | `TypeOK`, `LimitHolds`, `GuessesAreBounded`, `RefusalIsEarned` |
| `listing` | 4 customers, pages of 1 or 2 | `TypeOK`, `PageFitsTotal`, `WalkMissesNobody`, `NobodyTwice` |

Why the bounds are enough to meet the interesting cases. Users interact only
through the unique e-mail, which one customer with two requests already contends
for, so one customer with two concurrent requests has all the races of two
actors; three tokens are a session and two successors of it, three writes of a row
are its creation, a block and a stale write over it. Two codes are an old and a
new one; two requests overlap in every pair of commands, and a slot that has
finished is used again, so that a resend and a late verification meet; that the
safety properties hold for any number of requests is proved. In `admin` a
token can expire and its list entry outlast it. Two users with two client
devices and one push token can be rivals by device and by token, and can
deadlock; three users of one client device are the least with which an UPDATE has two
rows to take, so that UPDATEs deadlock with each other. In `service` two mails contend for one run, which is all that
`Concurrency` can make them do; two attempts and one stall are the first case in
which both counters are at work, and the failure of each is met by the last run
of a job as well as by an earlier one. The second start is the one that meets no
failure (`MayFail`): a behaviour in which processes fail for ever promises nothing.
One client that hangs up leaves the other request to be waited for; one close that
throws (`MaxRefusals`) is enough to skip any of the ones after it.
In `rate_limits` two requests in two windows can straddle their border; a limit of
two is the least that lets a guess through and another one after it. A code that
lives longer than a window sees three windows of guesses, and `MaxPeriods` lets its
age be counted that far; guesses and ages beyond are not told apart. More routes or
IPs add counters that share nothing with these. Four customers make pages of one
or two with a last page that is full, part full, or gone when it is asked for.
Symmetry is used for safety only and only on sets whose members no
action tells apart.

Deadlock is checked in every run but `service`, whose last process may have been
stopped for good, and `listing`, whose walk ends (elsewhere a client may always do
something).

The refuted statements are properties the code's comments or tests claim, not
properties the project relies on: what does hold in their place is
`UsedCodeIsGone` (a second acceptance needs a verification that had read the
code before the first one's DEL), `AttemptLimit` (with `raced` naming the codes
exempted) and `RotatedIsRevoked` of `AdminSessions`. One more divergence is
visible in `StoreResetCode`: the comment at `redis.otp.ts:27` says that attempts
are reset, and the HSET below it writes the hash alone.

### Fairness

- `OtpStore!FairSpec`: Redis removes a key whose time has come, and Node runs the
  continuation of an HSET that has answered (`SetExpiry`). No client is assumed to
  send anything. The code whose request failed before the EXPIRE is exempt.
- `Devices!FairSpec`: Node goes on with a request whose read has answered
  (`BeginUpdate`, weak), PostgreSQL breaks each deadlock (`AbortDeadlocked`, weak) and
  grants a row's lock in the order of the waiters, so that an UPDATE or an upsert that
  can go on again and again does (`DeactivateRivals`, `Upsert`, strong).
- `Service!FairSpec`: a timer that is set fires (`ForceExit`, the ten seconds of
  `server.ts:32`); a call of the mail provider ends, since its client has a time-out,
  and an open worker takes up what waits (`SettleJob`). Nothing else is assumed: a
  request may hang, a close may hang, `server.close` need never call back, and nobody
  need start a process again or stop an unhealthy one: the `HEALTHCHECK` of the
  Dockerfile marks the container, and nothing in the repository acts on the mark.
  `EveryMailSettles` therefore needs its premise, that from some time on a process with
  a worker stays up: a worker that did not start is only logged, and the service then
  delivers nothing.

## Proofs

`AccountsProofs!TypeCorrect` is `Spec => []TypeOK` for every value of the
constants, from `AccountsAssumption` alone (the sentinels are not rows,
passwords or Google ids; the bounds are naturals). The base invariant adds what
type correctness leans on: which actions write `row` (`RowWriters`), and that a row
once created stays. `AccountsSafety!SessionsProven` is
`Spec => []SessionsAreProven`. The property is not inductive: a login opens a
session on the strength of `isEmailVerified`, a refresh on that of an existing
token, and a stale copy in flight may carry a verified row. Its invariant adds
that a verified or Google-linked row belongs to a proven address, that so does
each row carried by a request that will write it back, and that each request on
its way to a session is for a proven address or carries a token that exists.
The lemmas sort the actions by what they write (`TokenWriters`, `OnlySavesAppend`),
so that each step of the proof looks only at the actions that can disturb it.

The same module proves `RotationRevokes` and `ReplayRefused`. Refused replays
depend on what a request knows of the token it rotates, so the invariant
(`RotationInv`) adds that a parent is a token of the table (`ParentsIssued`), that
every successor a rotated token has by now was saved after the request looked it
up, since a valid token had none then, and that a request about to save a
successor has revoked the parent (`Fresh`).

`SessionStoreImplemented` is the refinement: `Spec => ImplementsSessionStore`, under
the mapping that makes of every token an entry of the abstract table (`Mapped`). Each
step of `Accounts` is one of `SessionStore`'s or changes neither the mapped table nor
`proven`; a whole revoke-all is one abstract step. That a session opened in place of
another is one the abstract store allows needs `RotationInv`, that its owner is
proven needs `ProvenInv`, and that the owner is the same needs `SameOwner`: a request
about to save a successor works for the owner of the token it has revoked.

The other three are about copies of a row that a request holds while others write the
row. `LostUpdatesAreRaces` is an action property; its invariant (`CopiesFaithful`)
is that, while the row is still at the version that was read, a copy differs from it
in the columns the request means to change and in no other. `BlockedOpenNothing` rests
on `BlockInv`: every read that let a session through (`TokensBehind`), and every read
that is about to (`RequestsBehind`), is no later than the row, and earlier than the
block if the account is blocked now and no stale copy wrote its status (`Behind`); a
read that finds ACTIVE is behind for that reason, and `BehindKept` carries it through
every write of the row. `BlockingRevokesAll` rests on `FencesIssued`: the tokens a
committed revoke-all covers, and those one in flight will cover, are in the table, so
that the sessions opened since are beyond the fence, and a revoked token stays revoked.

`OtpProofs` rests on `StoreInv`: the key holds the newest code or none, no accepted
code is in it, and the codes that requests remember are no newer than the last one
issued. `UsedCodesAreGone` and `AcceptedIsNewest` are parts of it; `EveryCodeExpires`
is inductive on top of it. `AttemptsAreLimited` needs `CountInv`: of a code outside
`raced`, at most one request is about to write a count, that count exceeds the
guesses compared so far (`CountsAhead`), and the stored count is not behind them
(`StoreCounts`). A late count breaks precisely the second of these, and that is why
such codes are exempt.

`AdminProofs` rests on `AdminInv`: the list entry of a revoked token lasts as long
as the token; a time to live computed and not yet written still reaches the
token's expiry, because the clock only runs forward and the entry counts from the
later second; a request whose token had been revoked when it looked (`fresh` is
false) and that still passed the list check holds an expired token, which the
signature check refuses; and a request about to sign has put its token on the
list.

`ServiceProofs` has three arguments, one on top of the other. The queue's own
invariant (`QueueInv`) needs only what a step may do to the jobs (`QueueStep`), so
that the lemma `NextIsQueueStep` carries it from the queue to the whole service: a
run that is still sending has not delivered, so that there is room for its mail in
the count, and a job that is alive has an attempt and a stall left. `MailsCounted`
and `MailsBounded` follow. `ProcessInv` adds to the type and to `NothingPulledAway`
the order in which bootstrap opens things (`OpenInOrder`): the database is open
from the first step of it on, and the worker only after the last. While the
infrastructure closes only requests whose client has gone are in flight, and no step
of a request changes that (`RequestClients`); this gives
`ServiceTypeCorrect` and `NothingIsPulledAway`. On it rest `CodesQueuedOrTold`,
whose invariant says what a request has done at each of its steps (`OnItsWay`), and
`GracefulExitIsCleanAlways`, which needs that whatever shutdown has gone past is
closed, has refused, or was opened again by a request whose client has gone
(`ClosedOrRefused`).

`DevicesProofs` proves `DevicesTypeCorrect` and `ExclusiveUnlessTogether` from
`DevicesInv`. A save keeps the rows it has deactivated until it commits, and nobody
else has them (`LocksHold`). What makes the property inductive is `RivalsKnown`: an
active rival of the row that a save is about to make active is one of those its UPDATE
has still to take, or one it has locked, or it was saved since the UPDATE began
(`beside`). Taking a row that no longer qualifies removes it from the first of these
without putting it into the second, and rightly: it is no active rival then. The
commit leaves only rivals of the third kind, which are the pairs of `met`.

`RateLimitsProofs` rests on what a counter says of the requests it has let through
(`KeyInv`): in an open window as many as it has counted, up to the limit, and in any
stretch of a window's length at most a limit more than that; with the window closed,
at most the limit. `LimitsHold` and `RefusalsEarned` follow for every window and limit:
the history is kept as sums over the last i ticks, so that a tick shifts them by one
and no proof has to add anything up. `GuessesBounded` adds the guesses that were
admitted and not made yet (`Total`, which only the limiter of guesses can increase).
`GuessInv` says that for some n they fit into n closed windows and what the open one
has let through, and that the open window, or the next to open, ends more than n
windows' time after the code was stored (`Fits`): each closed window but the first took
its whole length of the code's age. It assumes nothing of when the expiry is set, nor
of the time to live.
`IsFiniteSet(Requests)` is what makes the sum a number.

`CustomerListingProofs` first proves that positions number the list
(`PositionsTaken`: as many positions as customers, and no two at the same one, so every
position is somebody's), and from that what a page is (`PageFacts`): the customers at
its positions, each once, as many as `Fits`. Everything else is about positions.
`PagesFitTotals` needs that whichever query answered first told of the list as it is
(`Untorn`). Without arrivals positions only fall, so whoever was on a page stays
before the next one (`NoneAgain`, for `NobodySeenTwice`). Without departures they only
rise, so whoever is before the next page now was seen (`NoneMissed`, for
`WalksMissNobody`); the last page adds that an untorn total counts everybody who was
there from the beginning. `Position` is a definition of the module, rather than one of
the community modules' sorts, because the prover knows nothing of those.

All theorems hold for every value of the constants that satisfies the named
assumption of the module (`AccountsAssumption`, `OtpAssumption`,
`AdminAssumption`, `EmailQueueAssumption`, `LifecycleAssumption`,
`DevicesAssumption`, `RateLimitsAssumption`, `CustomerListingAssumption`), each of
which TLC evaluates. Those of `RateLimits` and `CustomerListing` say that limits,
windows, times to live and page sizes are positive, as the validation of the
environment requires or as they are in the code, and that customers and request slots
are finitely many; nothing relates a code's time to live to a window. The theorems are about the models, bounds such as `MaxStarts` included,
for any bound. The inductive invariants that are not conjunctions of properties the
runs check were model-checked on the runs' instances before they were proved.

Every invariant and every action property of the runs that pass is now a theorem.
Only model-checked, because liveness under fairness is out of the prover's reach:
`EveryCodeDies`, `EverySaveEnds`, `ShutdownEnds` and `EveryMailSettles`.

## Plan

1. (done) Accounts, OtpStore, AdminSessions, Devices.
2. (done) The queue, the process and their composition with the requests that mail
   a code; rate limits; the customer list.
3. (done) Type correctness and safety of Accounts' sessions, OtpStore,
   AdminSessions and Service, proved.
4. (done) `Devices`, `RateLimits` and `CustomerListing`; the status changes and lost
   updates of Accounts; that `Accounts` implements `SessionStore`; all proved.
5. Left: the safety lemmas that the liveness properties would rest on (a save that is
   waiting has somebody to wait for; a key in Redis that no request will touch has an
   expiry), and an abstract specification of the code store to implement.

## Not modelled

Access tokens, cookies, gateway headers and the auth middlewares (stateless);
input validation (the models take valid inputs), but for the bound on a page's
limit; the contents of mails; metrics, logs and configuration; the admin's
password reset, one UPDATE of one column that nothing else writes; the reads of a
single customer; `revokeAllForUser`, `invalidateOtp` and `deactivateByFid`, which
nothing reachable calls; the worker class of `email.queue.worker.ts`, which nothing
starts.

Some things the code is exposed to and no property excludes; the model has them,
unless noted. The mails of two codes for one address may arrive in either order: no
code promises otherwise, and what an old code can do is `AcceptedWasNewest`. The
health route hangs, rather than reports, while BullMQ's connection is away (its ping
is retried for ever); the container's probe times out and counts that as a failure, on
which nothing in the repository acts. A page number is unbounded, so that the rows to
skip may exceed what Prisma takes: that request fails and changes nothing (not in the
model, like the two before). The others are in `PROJECT.json` with the properties that
exempt them: guesses in parallel that share one count (`raced`), a late DEL that
removes a newer code and attempts that a reset code inherits from a verification code
(both only make a customer ask again), a code whose request failed before its EXPIRE
(`unsealed`), a process without a worker, a Redis client that has given up and that no
request brings back, and a page whose two queries saw different lists.
