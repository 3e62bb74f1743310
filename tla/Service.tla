-------------------------------- MODULE Service ------------------------------
(***************************************************************************)
(* The server process, its e-mail queue and the requests that queue mails, *)
(* together.  All requests are for one address: registering it, resending  *)
(* its verification code, and asking for a password-reset code.  Each      *)
(* stores its code in Redis before it queues the mail.  Requests, runs of  *)
(* jobs and a shutdown go on side by side until the process ends, and a    *)
(* request goes on when its client has hung up.                            *)
(***************************************************************************)
EXTENDS EmailQueue, Lifecycle

CONSTANTS
  MaxHangUps  \* bound: how many clients hang up

VARIABLES
  account,  \* the row of the customer: is there one, is its e-mail verified?
  req       \* req[m]: the request whose code goes into the mail m

vars == <<queueVars, lifeVars, account, req>>

Kinds == {"register", "resend", "forgot"}
Accounts == {"none", "unverified", "verified"}

\* "pc": the next step; "skipped": the account for which a resend sent no code;
\* "stored": its code went to Redis; "answer": what the client was told, "gone"
\* if it hung up before, "cut" if the process ended before.
Request == [kind : Kinds \union {"none"},
            skipped : Accounts \union {"no"},
            pc : {"idle", "insert", "store", "queue", "reply", "done"},
            stored : BOOLEAN,
            answer : {"none", "ok", "error", "gone", "cut"}]

Init ==
  /\ QueueInit /\ LifeInit
  /\ account = "none"
  /\ req = [m \in Mails |-> [kind |-> "none", skipped |-> "no",
                             pc |-> "idle", stored |-> FALSE,
                             answer |-> "none"]]

InFlight == {m \in Mails : req[m].pc \notin {"idle", "done"}}
Gone == {m \in Mails : req[m].answer = "gone"}
Goto(m, pc) == req' = [req EXCEPT ![m].pc = pc]
\* Nobody hears the answer to a client that has hung up.
Heard(q, a) == IF q.answer = "none" THEN a ELSE q.answer
Answer(m, a) ==
  req' = [req EXCEPT ![m].pc = "done", ![m].answer = Heard(req[m], a)]

Producer(kind) == IF kind = "forgot" THEN "producers" ELSE "producer"

-----------------------------------------------------------------------------
(* Requests. *)

\* What the use cases refuse: registering an address that has an account, and
\* resetting one that has none.
Refuses(kind) == IF account = "none" THEN kind = "forgot"
                 ELSE kind = "register"

\* What resending answers like a success, without sending a code.
Skips(kind) == kind = "resend" /\ account # "unverified"

\* A request comes in and its use case looks the address up; all but
\* registration first pass a rate limiter, which needs the Redis client.  Any
\* may meet an error, or a blocked account.  During a drain requests come in on
\* connections that are still open.
Receive(m, kind) ==
  LET begin(pc, skipped, a) ==
        req' = [req EXCEPT ![m].kind = kind, ![m].skipped = skipped,
                           ![m].pc = pc, ![m].answer = a]
      admitted == kind = "register" \/ "redis" \in open
  IN  /\ phase \in {"serving", "draining"}
      /\ req[m].pc = "idle"
      /\ \/ begin("done", "no", "error")
         \/ admitted /\ Skips(kind) /\ begin("done", account, "ok")
         \/ /\ admitted /\ ~Refuses(kind) /\ ~Skips(kind)
            /\ begin(IF kind = "register" THEN "insert" ELSE "store", "no",
                     "none")
      /\ UNCHANGED <<queueVars, lifeVars, account>>

\* The client of a request hangs up: its handler goes on.
HangUp(m) ==
  /\ m \in InFlight /\ req[m].answer = "none"
  /\ MayFail /\ Cardinality(Gone) < MaxHangUps
  /\ req' = [req EXCEPT ![m].answer = "gone"]
  /\ UNCHANGED <<queueVars, lifeVars, account>>

\* RegisterUserUseCase inserts the row, unless another request has.  A
\* disconnected Prisma client connects again for it.
Insert(m) ==
  /\ req[m].pc = "insert"
  /\ open' = open \union {"database"}
  /\ IF account = "none" THEN /\ account' = "unverified"
                              /\ Goto(m, "store")
     ELSE Answer(m, "error") /\ UNCHANGED account
  /\ UNCHANGED <<queueVars, phase, step, refused, timer, status, starts>>

\* Another request verifies the address.
Verify ==
  /\ account = "unverified" /\ "database" \in open
  /\ account' = "verified"
  /\ UNCHANGED <<queueVars, lifeVars, req>>

\* generateAndStoreOtp: the service of registration and resending connects a
\* Redis client that has given up or been closed, that of resets does not.
StoreCode(m) ==
  /\ req[m].pc = "store"
  /\ req[m].kind = "forgot" => "redis" \in open
  /\ open' = open \union {"redis"}
  /\ req' = [req EXCEPT ![m].pc = "queue", ![m].stored = TRUE]
  /\ UNCHANGED <<queueVars, phase, step, refused, timer, status, starts,
                 account>>

\* queueVerificationEmail, with the producer's connection opened when it is
\* first used, or used again after close.
QueueMail(m) ==
  /\ req[m].pc = "queue"
  /\ Add(m)
  /\ open' = open \union {Producer(req[m].kind)}
  /\ Goto(m, "reply")
  /\ UNCHANGED <<phase, step, refused, timer, status, starts, account>>

\* Redis refuses the job: the producer rethrows, which only registration
\* takes for a success.  The first form swallows the error everywhere.
ToldMutant(kind) == "ok"
Told(kind) == IF kind = "register" THEN "ok" ELSE "error"
QueueFails(m) ==
  /\ req[m].pc = "queue"
  /\ open' = open \union {Producer(req[m].kind)}
  /\ Answer(m, Told(req[m].kind))
  /\ UNCHANGED <<queueVars, phase, step, refused, timer, status, starts,
                 account>>

Reply(m) ==
  /\ req[m].pc = "reply"
  /\ Answer(m, "ok")
  /\ UNCHANGED <<queueVars, lifeVars, account>>

\* A statement before that throws: the error middleware answers.
RequestFails(m) ==
  /\ req[m].pc \in {"insert", "store"}
  /\ Answer(m, "error")
  /\ UNCHANGED <<queueVars, lifeVars, account>>

-----------------------------------------------------------------------------
(* The worker runs jobs while it is open; a closing worker takes no more. *)

Closing(c) == phase = "closing" /\ step <= 5 /\ CloseOrder[step] = c
WorkerTakes == "worker" \in open /\ ~Closing("worker")
               /\ "worker" \notin refused

\* One step of the job m.
RunJob(m) ==
  /\ \/ WorkerTakes /\ (StartJob(m) \/ RecoverStalled(m) \/ Promote(m))
     \/ AcceptMail(m) \/ Complete(m) \/ FailAttempt(m)
  /\ UNCHANGED <<lifeVars, account, req>>

\* What ends a run, or takes a job up again.
SettleJob(m) ==
  /\ \/ WorkerTakes /\ (StartJob(m) \/ RecoverStalled(m) \/ Promote(m))
     \/ Complete(m) \/ FailAttempt(m)
  /\ UNCHANGED <<lifeVars, account, req>>

-----------------------------------------------------------------------------
(* The process. *)

\* Steps that touch nothing but the process.
Bootstrap ==
  /\ Boot \/ Connect \/ \E w \in BOOLEAN : Listen(w)
  /\ UNCHANGED <<queueVars, account, req>>

Shutdown ==
  /\ Signal \/ CloseFails \/ RedisLost
  /\ UNCHANGED <<queueVars, account, req>>

\* server.close calls back when the connections have ended, and not when the
\* handlers have: those of clients that hung up may still run.  The first form
\* closes the infrastructure without waiting.
DrainMutant == HttpClosed /\ UNCHANGED <<queueVars, account, req>>
Drain ==
  /\ HttpClosed
  /\ InFlight \subseteq Gone
  /\ UNCHANGED <<queueVars, account, req>>

\* Closing the worker waits for its runs to end.  The first form does not.
CloseNextMutant == Close /\ UNCHANGED <<queueVars, account, req>>
CloseNext ==
  /\ Close
  /\ Closing("worker") => Running = {}
  /\ UNCHANGED <<queueVars, account, req>>

\* However the process ends, its runs and its requests end with it.
Exit ==
  /\ ConnectFails \/ ExitGracefully \/ ForceExit \/ Crash
  /\ AbandonRuns
  /\ req' = [m \in Mails |->
               IF m \in InFlight
               THEN [req[m] EXCEPT !.pc = "done",
                                   !.answer = Heard(req[m], "cut")]
               ELSE req[m]]
  /\ UNCHANGED account

Next ==
  \/ \E m \in Mails : \/ \E k \in Kinds : Receive(m, k)
                      \/ HangUp(m)
                      \/ Insert(m) \/ StoreCode(m) \/ QueueMail(m)
                      \/ QueueFails(m) \/ Reply(m) \/ RequestFails(m)
                      \/ RunJob(m)
  \/ Verify
  \/ Bootstrap \/ Shutdown \/ Drain \/ CloseNext \/ Exit

Spec == Init /\ [][Next]_vars

\* A set timer fires; a call of the mail provider ends (its client times
\* out), and an open worker takes up what waits.  Nothing else is promised: no
\* request, no close, and not that anybody starts the process again.
FairSpec ==
  /\ Spec
  /\ WF_vars(ForceExit /\ Exit)
  /\ \A m \in Mails : WF_vars(SettleJob(m))

-----------------------------------------------------------------------------
(* Properties. *)

TypeOK ==
  /\ QueueTypeOK /\ LifeTypeOK
  /\ account \in Accounts
  /\ req \in [Mails -> Request]
  /\ InFlight # {} \/ Running # {} => Alive

\* Shutdown takes nothing away from under what it waits for: a request whose
\* client is still there has its database, and a run has its worker.
NothingPulledAway ==
  /\ InFlight \ Gone # {} => /\ phase \in {"serving", "draining"}
                             /\ "database" \in open
  /\ Running # {} => "worker" \in open

\* No mail carries a code that is not in Redis.  A client that is told of a
\* success has its mail queued, with two exceptions: resending hides that an
\* address has no account or a verified one; registration hides that the queue
\* has refused the mail, but then the account is there and its code stored, so
\* that the code can be sent again.
QueuedOrTold ==
  \A m \in Mails :
    /\ job[m].state # "none" => req[m].stored /\ account # "none"
    /\ req[m].answer = "ok" /\ job[m].state = "none" =>
         \/ req[m].kind = "resend" /\ req[m].skipped \in {"none", "verified"}
         \/ req[m].kind = "register" /\ req[m].stored /\ account # "none"

\* A graceful exit cuts off no run that it could wait for and no request whose
\* client is still there, and leaves nothing open but what would not close,
\* the second producer, which shutdown leaves alone, and what a request whose
\* client had gone may have opened again behind it.
GracefulExitIsClean ==
  [][status # "0" /\ status' = "0" =>
       /\ InFlight \subseteq Gone
       /\ Running # {} => "worker" \in refused
       /\ open \subseteq refused \union {"producers"} \union
            (IF Gone = {} THEN {} ELSE {"producer", "database", "redis"})]_vars

\* A shutdown ends, whatever hangs: a request, a run that the worker waits
\* for, or a close.
ShutdownEnds == phase \in {"draining", "closing"} ~> phase = "ended"

\* If processes with a worker do not fail for good, every queued mail is
\* delivered or given up, across failures, stalls and restarts.
EveryMailSettles ==
  <>[]("worker" \in open)
    => \A m \in Mails : job[m].state = "waiting" ~> Settled(m)
=============================================================================
