----------------------------- MODULE ServiceProofs ---------------------------
(***************************************************************************)
(* Proofs about the server process, its queue and its requests, for any    *)
(* number of mails, attempts, stalls, runs at a time and starts.           *)
(***************************************************************************)
EXTENDS Service, TLAPS

-----------------------------------------------------------------------------
(* The steps of the system, sorted by what they do to the queue. *)

\* What one step may do to the jobs.
QueueStep ==
  \/ UNCHANGED queueVars
  \/ AbandonRuns
  \/ \E m \in Mails : \/ Add(m) \/ StartJob(m) \/ AcceptMail(m) \/ Complete(m)
                      \/ FailAttempt(m) \/ Promote(m) \/ RecoverStalled(m)

\* A step of the request m.
Serve(m) ==
  \/ \E k \in Kinds : Receive(m, k)
  \/ HangUp(m) \/ Insert(m) \/ StoreCode(m) \/ QueueMail(m)
  \/ QueueFails(m) \/ Reply(m) \/ RequestFails(m)

\* Every step of the service is one of these.
LEMMA NextIsQueueStep == [Next]_vars => QueueStep
<1> SUFFICES ASSUME [Next]_vars PROVE QueueStep
  OBVIOUS
<1>1. CASE UNCHANGED vars
  BY <1>1 DEF vars, QueueStep
<1>2. CASE Verify \/ Bootstrap \/ Shutdown \/ Drain \/ CloseNext \/ Exit
  BY <1>2 DEF Verify, Bootstrap, Shutdown, Drain, CloseNext, Exit, QueueStep
<1>3. ASSUME NEW m \in Mails, Serve(m)
      PROVE  QueueStep
  BY <1>3 DEF Serve, Receive, HangUp, Insert, StoreCode, QueueMail,
              QueueFails, Reply, RequestFails, QueueStep
<1>4. ASSUME NEW m \in Mails, RunJob(m)
      PROVE  QueueStep
  BY <1>4 DEF RunJob, QueueStep
<1> QED
  BY <1>1, <1>2, <1>3, <1>4 DEF Next, Serve

LEMMA QueueTypeStep == QueueTypeOK /\ QueueStep => QueueTypeOK'
<1> SUFFICES ASSUME QueueTypeOK, QueueStep PROVE QueueTypeOK'
  OBVIOUS
<1> USE DEF QueueTypeOK, Job, States
<1>1. CASE UNCHANGED queueVars \/ AbandonRuns
  BY <1>1 DEF AbandonRuns, queueVars
<1>2. ASSUME NEW m \in Mails, Add(m) \/ StartJob(m) \/ Promote(m)
      PROVE  QueueTypeOK'
  BY <1>2 DEF Add, StartJob, Promote
<1>3. ASSUME NEW m \in Mails,
             AcceptMail(m) \/ Complete(m) \/ FailAttempt(m)
               \/ RecoverStalled(m)
      PROVE  QueueTypeOK'
  BY <1>3 DEF AcceptMail, Complete, FailAttempt, AfterFailure, RecoverStalled
<1> QED
  BY <1>1, <1>2, <1>3 DEF QueueStep

\* The counters of a job and the mails it has sent.  A run that is still
\* sending has not delivered yet, so that there is room for its mail.
JobInv(m) ==
  LET j == job[m]
  IN  /\ arrived[m] <= j.failures + j.stalls
           + (IF /\ j.state \in {"active", "completed"}
                 /\ j.run # "sending" THEN 1 ELSE 0)
      /\ j.run = "accepted" \/ j.state = "completed" => arrived[m] > 0
      /\ j.state # "failed" => j.failures < Attempts /\ j.stalls <= MaxStalls
      /\ j.state = "failed" =>
           \/ j.failures = Attempts /\ j.stalls <= MaxStalls
           \/ j.failures < Attempts /\ j.stalls = MaxStalls + 1
QueueInv == QueueTypeOK /\ \A m \in Mails : JobInv(m)

LEMMA QueueInvInit == QueueInit => QueueInv
  BY EmailQueueAssumption
  DEF QueueInit, QueueInv, QueueTypeOK, JobInv, Job, States

LEMMA QueueInvStep == QueueInv /\ QueueStep => QueueInv'
<1> SUFFICES ASSUME QueueInv, QueueStep PROVE QueueInv'
  OBVIOUS
<1> USE EmailQueueAssumption
<1>1. CASE UNCHANGED queueVars
  BY <1>1 DEF QueueInv, QueueTypeOK, JobInv, queueVars
<1>2. CASE AbandonRuns
  <2>1. QueueTypeOK'
    BY <1>2 DEF AbandonRuns, QueueInv, QueueTypeOK, Job
  <2>2. ASSUME NEW n \in Mails PROVE JobInv(n)'
    <3>1. /\ arrived'[n] = arrived[n]
          /\ job'[n] = [job[n] EXCEPT !.run = "none"]
          /\ job[n] \in Job /\ arrived[n] \in Nat
      BY <1>2 DEF AbandonRuns, QueueInv, QueueTypeOK
    <3> QED
      BY <3>1 DEF QueueInv, JobInv, Job, States
  <2> QED
    BY <2>1, <2>2 DEF QueueInv
<1>3. ASSUME NEW m \in Mails,
             \/ Add(m) \/ StartJob(m) \/ AcceptMail(m) \/ Complete(m)
             \/ FailAttempt(m) \/ Promote(m) \/ RecoverStalled(m)
      PROVE  QueueInv'
  <2>1. /\ job[m] \in Job /\ arrived[m] \in Nat
        /\ job[m].run # "none" => job[m].state = "active"
        /\ JobInv(m)
    BY DEF QueueInv, QueueTypeOK
  <2>2. /\ job' = [job EXCEPT ![m] = job'[m]]
        /\ arrived' = [arrived EXCEPT ![m] = arrived'[m]]
    BY <1>3 DEF QueueInv, QueueTypeOK, Add, StartJob, AcceptMail, Complete,
                FailAttempt, Promote, RecoverStalled
  <2>3. /\ job'[m] \in Job /\ arrived'[m] \in Nat
        /\ job'[m].run # "none" => job'[m].state = "active"
        /\ JobInv(m)'
    <3>1. CASE Add(m) \/ StartJob(m) \/ Promote(m)
      BY <3>1, <2>1 DEF Add, StartJob, Promote, JobInv, Job, States,
                        QueueInv, QueueTypeOK
    <3>2. CASE AcceptMail(m) \/ Complete(m)
      BY <3>2, <2>1 DEF AcceptMail, Complete, JobInv, Job, States,
                        QueueInv, QueueTypeOK
    <3>3. CASE FailAttempt(m)
      BY <3>3, <2>1 DEF FailAttempt, AfterFailure, JobInv, Job, States,
                        QueueInv, QueueTypeOK
    <3>4. CASE RecoverStalled(m)
      BY <3>4, <2>1 DEF RecoverStalled, JobInv, Job, States,
                        QueueInv, QueueTypeOK
    <3> QED
      BY <1>3, <3>1, <3>2, <3>3, <3>4
  <2>4. ASSUME NEW n \in Mails, n # m
        PROVE  job'[n] = job[n] /\ arrived'[n] = arrived[n]
    BY <2>2, <2>4 DEF QueueInv, QueueTypeOK
  <2>5. QueueTypeOK'
    BY <2>2, <2>3, <2>4 DEF QueueInv, QueueTypeOK
  <2>6. ASSUME NEW n \in Mails PROVE JobInv(n)'
    BY <2>3, <2>4 DEF QueueInv, JobInv
  <2> QED
    BY <2>5, <2>6 DEF QueueInv
<1> QED
  BY <1>1, <1>2, <1>3 DEF QueueStep

LEMMA QueueInvAlways == Spec => []QueueInv
<1>1. Init => QueueInv
  BY QueueInvInit DEF Init
<1>2. QueueInv /\ [Next]_vars => QueueInv'
  BY NextIsQueueStep, QueueInvStep
<1> QED
  BY <1>1, <1>2, PTL DEF Spec

\* A job that is gone has delivered its mail, and no mail arrives more often
\* than its job was run, whatever fails, stalls or ends.
THEOREM MailsCounted == Spec => []MailsAreCounted
<1>1. QueueInv => MailsAreCounted
  <2> SUFFICES ASSUME QueueInv, NEW m \in Mails
               PROVE  /\ job[m].state = "completed" => arrived[m] > 0
                      /\ arrived[m] <= job[m].failures + job[m].stalls
                           + (IF job[m].state \in {"active", "completed"}
                              THEN 1 ELSE 0)
    BY DEF MailsAreCounted
  <2>1. job[m] \in Job /\ arrived[m] \in Nat /\ JobInv(m)
    BY DEF QueueInv, QueueTypeOK
  <2> QED
    BY <2>1 DEF JobInv, Job
<1> QED
  BY <1>1, QueueInvAlways, PTL

\* An address gets one code's mail at most Attempts + MaxStalls times, and no
\* job is given up before its last attempt or its last stall.
THEOREM MailsBounded == Spec => []MailsAreBounded
<1>1. QueueInv => MailsAreBounded
  <2> SUFFICES ASSUME QueueInv, NEW m \in Mails
               PROVE  /\ arrived[m] <= Attempts + MaxStalls
                      /\ job[m].state = "failed" =>
                           \/ job[m].failures = Attempts
                           \/ job[m].stalls > MaxStalls
    BY DEF MailsAreBounded
  <2>1. job[m] \in Job /\ arrived[m] \in Nat /\ JobInv(m)
    BY DEF QueueInv, QueueTypeOK
  <2> QED
    BY <2>1, EmailQueueAssumption DEF JobInv, Job
<1> QED
  BY <1>1, QueueInvAlways, PTL

-----------------------------------------------------------------------------
(* The process: who is at work, and what is open for them. *)

\* The two parts of the type of the process.
StepsOK ==
  /\ phase \in {"connecting", "serving", "draining", "closing", "ended"}
  /\ step \in 1..6
  /\ open \subseteq Connections /\ refused \subseteq Connections
  /\ status \in {"none", "0", "1", "killed"}
  /\ starts \in 0..MaxStarts
  /\ phase = "connecting" => step <= 4
  /\ phase = "ended" => open = {}
TimerOK ==
  /\ timer \in BOOLEAN
  /\ phase = "ended" => timer = FALSE

LEMMA LifeParts == LifeTypeOK <=> StepsOK /\ TimerOK
BY Zenon DEF LifeTypeOK, StepsOK, TimerOK

LEMMA LifePartsNext == LifeTypeOK' <=> StepsOK' /\ TimerOK'
BY Zenon DEF LifeTypeOK, StepsOK, TimerOK

\* The database is connected first, and closed only after the drain; the
\* worker starts last.
OpenInOrder ==
  /\ phase = "connecting" => "worker" \notin open
  /\ phase = "connecting" /\ step > 1 => "database" \in open
  /\ phase \in {"serving", "draining"} => "database" \in open

\* No request is served before the server listens.
NobodyEarly == phase = "connecting" => InFlight = {}

ProcessInv == TypeOK /\ OpenInOrder /\ NobodyEarly /\ NothingPulledAway

LEMMA ProcessInvInit == Init => ProcessInv
<1> SUFFICES ASSUME Init PROVE ProcessInv
  OBVIOUS
<1>1. InFlight = {} /\ Running = {}
  BY DEF Init, QueueInit, InFlight, Running
<1>2. QueueTypeOK
  BY QueueInvInit DEF Init, QueueInv
<1>3. LifeTypeOK /\ phase = "ended" /\ OpenInOrder
  <2>1. StepsOK /\ phase = "ended" /\ OpenInOrder
    BY LifecycleAssumption DEF Init, LifeInit, StepsOK, OpenInOrder
  <2>2. TimerOK
    BY Zenon DEF Init, LifeInit, TimerOK
  <2> QED
    BY <2>1, <2>2, LifeParts
<1>4. account \in Accounts /\ req \in [Mails -> Request]
  BY DEF Init, Request, Kinds, Accounts
<1> QED
  BY <1>1, <1>2, <1>3, <1>4
  DEF ProcessInv, TypeOK, NobodyEarly, NothingPulledAway

\* A step of the request m leaves the process as it is, or opens more.  While
\* the infrastructure is closing only those requests go on whose clients have
\* gone.
LEMMA RequestStep ==
  ASSUME ProcessInv, NEW m \in Mails, Serve(m)
  PROVE  /\ phase' = phase /\ step' = step /\ timer' = timer
         /\ open \subseteq open'
         /\ open' \subseteq open \union
                            {"database", "redis", "producer", "producers"}
         /\ UNCHANGED <<refused, status, starts>>
         /\ phase \in {"serving", "draining", "closing"}
         /\ account' \in Accounts
         /\ Running' = Running
<1> USE DEF ProcessInv, TypeOK
<1>1. req[m].pc \in {"idle", "insert", "store", "queue", "reply", "done"}
  BY DEF Request
<1>2. req[m].pc \notin {"idle", "done"} =>
        phase \in {"serving", "draining", "closing"}
  BY DEF InFlight, NobodyEarly, Alive, LifeTypeOK
<1>3. ASSUME job' = job \/ Add(m)
      PROVE  Running' = Running
  BY <1>3 DEF Running, Add, QueueTypeOK, Job
<1>4. CASE \E k \in Kinds : Receive(m, k)
  BY <1>4, <1>3 DEF Receive, lifeVars, queueVars
<1>5. CASE HangUp(m) \/ Reply(m) \/ RequestFails(m)
  BY <1>5, <1>1, <1>2, <1>3
  DEF HangUp, Reply, RequestFails, InFlight, lifeVars, queueVars
<1>6. CASE Insert(m)
  BY <1>6, <1>2, <1>3 DEF Insert, queueVars, Accounts
<1>7. CASE StoreCode(m)
  BY <1>7, <1>2, <1>3 DEF StoreCode, queueVars
<1>8. CASE QueueMail(m) \/ QueueFails(m)
  BY <1>8, <1>2, <1>3
  DEF QueueMail, QueueFails, queueVars, Producer
<1> QED
  BY <1>4, <1>5, <1>6, <1>7, <1>8 DEF Serve

\* Who has hung up has done so for good, and a request is in flight without
\* having been before only if it has just come in.
LEMMA RequestClients ==
  ASSUME ProcessInv, NEW m \in Mails, Serve(m)
  PROVE  /\ phase = "closing" => m \in Gone /\ m \in Gone'
         /\ InFlight' \ Gone' # {} =>
              InFlight \ Gone # {} \/ phase \in {"serving", "draining"}
<1> USE DEF ProcessInv, TypeOK
<1>1. req[m] \in Request
  OBVIOUS
<1>2. CASE \E k \in Kinds : Receive(m, k)
  BY <1>2 DEF Receive
<1>3. ASSUME \/ HangUp(m) \/ Insert(m) \/ StoreCode(m) \/ QueueMail(m)
             \/ QueueFails(m) \/ Reply(m) \/ RequestFails(m)
      PROVE  /\ m \in InFlight
             /\ m \in Gone => m \in Gone'
             /\ \A n \in Mails \ {m} : req'[n] = req[n]
  <2>1. m \in InFlight
    BY <1>3 DEF HangUp, Insert, StoreCode, QueueMail, QueueFails, Reply,
                RequestFails, InFlight
  <2>2. CASE HangUp(m)
    BY <1>1, <2>1, <2>2 DEF HangUp, Gone
  <2>3. CASE Insert(m)
    BY <1>1, <2>1, <2>3 DEF Insert, Goto, Answer, Heard, Gone, Request
  <2>4. CASE StoreCode(m)
    BY <1>1, <2>1, <2>4 DEF StoreCode, Gone, Request
  <2>5. CASE QueueMail(m)
    BY <1>1, <2>1, <2>5 DEF QueueMail, Goto, Gone, Request
  <2>6. CASE QueueFails(m) \/ Reply(m) \/ RequestFails(m)
    BY <1>1, <2>1, <2>6
    DEF QueueFails, Reply, RequestFails, Answer, Heard, Gone, Request
  <2> QED
    BY <1>3, <2>2, <2>3, <2>4, <2>5, <2>6, <2>1
<1>4. CASE ~\E k \in Kinds : Receive(m, k)
  <2>1. /\ m \in InFlight
        /\ m \in Gone => m \in Gone'
        /\ \A n \in Mails \ {m} : req'[n] = req[n]
    BY <1>3, <1>4 DEF Serve
  <2>2. phase = "closing" => m \in Gone
    BY <2>1 DEF NothingPulledAway
  <2>3. ASSUME NEW n \in InFlight' \ Gone'
        PROVE  InFlight \ Gone # {}
    <3>1. CASE n = m
      BY <2>1, <2>3, <3>1
    <3>2. CASE n # m
      <4>1. n \in InFlight \ Gone
        BY <2>1, <2>3, <3>2 DEF InFlight, Gone
      <4> QED BY <4>1
    <3> QED BY <3>1, <3>2
  <2> QED BY <2>1, <2>2, <2>3
<1> QED BY <1>2, <1>4

LEMMA RequestTyped ==
  ASSUME ProcessInv, NEW m \in Mails, Serve(m)
  PROVE  req' \in [Mails -> Request]
<1> USE DEF ProcessInv, TypeOK, Request
<1>0. req[m] \in Request
  OBVIOUS
<1>a. ASSUME NEW q \in Request, req' = [req EXCEPT ![m] = q]
      PROVE  req' \in [Mails -> Request]
  BY <1>a
<1>1. ASSUME NEW k \in Kinds, Receive(m, k)
      PROVE  req' \in [Mails -> Request]
  <2>1. PICK pc \in {"insert", "store", "done"},
             skipped \in Accounts \union {"no"},
             a \in {"none", "ok", "error"} :
          req' = [req EXCEPT ![m].kind = k, ![m].skipped = skipped,
                             ![m].pc = pc, ![m].answer = a]
    <3>1. \E pc \in {"insert", "store", "done"},
             skipped \in Accounts \union {"no"},
             a \in {"none", "ok", "error"} :
            req' = [req EXCEPT ![m].kind = k, ![m].skipped = skipped,
                               ![m].pc = pc, ![m].answer = a]
      BY <1>1 DEF Receive
    <3> QED BY <3>1
  <2>2. req' = [req EXCEPT ![m] = req'[m]]
    BY <2>1
  <2>3. req'[m] = [req[m] EXCEPT !.kind = k, !.skipped = skipped, !.pc = pc,
                                 !.answer = a]
    BY <1>0, <2>1
  <2>4. req'[m] \in Request
    BY <1>0, <2>3
  <2> QED BY <2>2, <2>4, <1>a
<1>3. CASE HangUp(m)
  BY <1>3 DEF HangUp
<1>4. CASE Insert(m) \/ Reply(m) \/ RequestFails(m)
  BY <1>4 DEF Insert, Reply, RequestFails, Goto, Answer, Heard
<1>5. CASE StoreCode(m)
  <2>1. req' = [req EXCEPT ![m] = req'[m]]
    BY <1>5 DEF StoreCode
  <2>2. req'[m] = [req[m] EXCEPT !.pc = "queue", !.stored = TRUE]
    BY <1>0, <1>5 DEF StoreCode
  <2>3. req'[m] \in Request
    BY <1>0, <2>2
  <2> QED BY <2>1, <2>3, <1>a
<1>6. CASE QueueMail(m) \/ QueueFails(m)
  BY <1>6 DEF QueueMail, QueueFails, Goto, Answer, Heard, Told
<1> QED
  BY <1>1, <1>3, <1>4, <1>5, <1>6 DEF Serve

LEMMA Orders ==
  /\ Len(ConnectOrder) = 3 /\ Len(CloseOrder) = 5
  /\ ConnectOrder[1] = "database"
  /\ \A i \in 1..3 : ConnectOrder[i] \in Connections \ {"worker"}
  /\ \A i \in 1..5 : CloseOrder[i] \in Connections
BY DEF ConnectOrder, CloseOrder, Connections

\* The steps of the process alone, by phase.
LEMMA BootstrapKeeps ==
  ASSUME LifeTypeOK, OpenInOrder,
         Boot \/ Connect \/ \E w \in BOOLEAN : Listen(w)
  PROVE  LifeTypeOK' /\ OpenInOrder'
<1>1. StepsOK /\ TimerOK
  BY LifeParts
<1>2. CASE Boot
  <2>1. StepsOK' /\ OpenInOrder'
    BY <1>1, <1>2, LifecycleAssumption
    DEF Boot, Alive, MayFail, StepsOK, OpenInOrder
  <2>2. TimerOK'
    BY <1>1, <1>2 DEF Boot, TimerOK
  <2> QED
    BY <2>1, <2>2, LifePartsNext
<1>3. CASE Connect
  <2>1. StepsOK' /\ OpenInOrder'
    BY <1>1, <1>3, Orders DEF Connect, StepsOK, OpenInOrder
  <2>2. TimerOK'
    BY <1>1, <1>3 DEF Connect, TimerOK
  <2> QED
    BY <2>1, <2>2, LifePartsNext
<1>4. ASSUME NEW w \in BOOLEAN, Listen(w)
      PROVE  LifeTypeOK' /\ OpenInOrder'
  <2>1. StepsOK' /\ OpenInOrder'
    BY <1>1, <1>4 DEF Listen, ConnectOrder, Connections, StepsOK, OpenInOrder
  <2>2. TimerOK'
    BY <1>1, <1>4 DEF Listen, TimerOK
  <2> QED
    BY <2>1, <2>2, LifePartsNext
<1> QED
  BY <1>2, <1>3, <1>4

LEMMA ShutdownKeeps ==
  ASSUME LifeTypeOK, OpenInOrder,
         Signal \/ RedisLost \/ HttpClosed \/ Close \/ CloseFails
  PROVE  LifeTypeOK' /\ OpenInOrder' /\ phase' # "ended"
<1>1. StepsOK /\ TimerOK
  BY LifeParts
<1>2. CASE Signal
  <2>1. StepsOK' /\ OpenInOrder' /\ phase' # "ended"
    BY <1>1, <1>2 DEF Signal, StepsOK, OpenInOrder
  <2>2. TimerOK'
    BY <1>1, <1>2 DEF Signal, TimerOK
  <2> QED
    BY <2>1, <2>2, LifePartsNext
<1>3. CASE RedisLost \/ HttpClosed \/ Close \/ CloseFails
  <2>1. StepsOK' /\ OpenInOrder' /\ phase' # "ended"
    <3>1. CASE RedisLost \/ HttpClosed
      BY <1>1, <3>1 DEF RedisLost, HttpClosed, StepsOK, OpenInOrder
    <3>2. CASE Close \/ CloseFails
      BY <1>1, <3>2, Orders DEF Close, CloseFails, StepsOK, OpenInOrder
    <3> QED
      BY <1>3, <3>1, <3>2
  <2>2. timer' = timer
    BY <1>3 DEF RedisLost, HttpClosed, Close, CloseFails
  <2>3. TimerOK'
    BY <1>1, <2>1, <2>2 DEF TimerOK
  <2> QED
    BY <2>1, <2>3, LifePartsNext
<1> QED
  BY <1>2, <1>3

LEMMA EndKeeps ==
  ASSUME LifeTypeOK, ConnectFails \/ ExitGracefully \/ ForceExit \/ Crash
  PROVE  LifeTypeOK' /\ OpenInOrder' /\ phase' = "ended"
<1>1. PICK how \in {"0", "1", "killed"} : End(how)
  BY DEF ConnectFails, ExitGracefully, ForceExit, Crash
<1>2. StepsOK' /\ OpenInOrder' /\ phase' = "ended"
  BY <1>1, LifeParts DEF End, StepsOK, OpenInOrder
<1>3. TimerOK'
  BY <1>1 DEF End, TimerOK
<1> QED
  BY <1>2, <1>3, LifePartsNext

LEMMA ProcessInvStep == ProcessInv /\ [Next]_vars => ProcessInv'
<1> SUFFICES ASSUME ProcessInv, [Next]_vars PROVE ProcessInv'
  OBVIOUS
<1>1. QueueTypeOK'
  BY NextIsQueueStep, QueueTypeStep DEF ProcessInv, TypeOK
<1>2. CASE UNCHANGED vars
  BY <1>2, <1>1 DEF vars, lifeVars, queueVars, ProcessInv, TypeOK, LifeTypeOK,
                    InFlight, Gone, Running, Alive, NobodyEarly,
                    NothingPulledAway, OpenInOrder
<1>3. ASSUME NEW m \in Mails, Serve(m)
      PROVE  ProcessInv'
  <2>1. LifeTypeOK' /\ OpenInOrder' /\ NobodyEarly'
    BY <1>3, RequestStep
    DEF ProcessInv, TypeOK, LifeTypeOK, Connections, OpenInOrder, NobodyEarly
  <2>2. TypeOK'
    BY <1>1, <1>3, <2>1, RequestStep, RequestTyped DEF TypeOK, Alive
  <2>3. NothingPulledAway'
    BY <1>3, RequestStep, RequestClients
    DEF ProcessInv, NothingPulledAway, OpenInOrder
  <2> QED BY <2>1, <2>2, <2>3 DEF ProcessInv
<1>8. CASE Verify
  BY <1>1, <1>8
  DEF Verify, queueVars, lifeVars, ProcessInv, TypeOK, LifeTypeOK, Accounts,
      InFlight, Gone, Running, Alive, NobodyEarly, NothingPulledAway,
      OpenInOrder
<1>4. ASSUME NEW m \in Mails, RunJob(m)
      PROVE  ProcessInv'
  <2>1. /\ UNCHANGED <<lifeVars, account, req>>
        /\ Running' # {} => "worker" \in open
    BY <1>4 DEF RunJob, WorkerTakes, StartJob, RecoverStalled, Promote,
                AcceptMail, Complete, FailAttempt, Running, ProcessInv,
                NothingPulledAway, TypeOK, QueueTypeOK, Job
  <2>2. "worker" \in open => phase # "ended"
    BY DEF ProcessInv, TypeOK, LifeTypeOK
  <2> QED
    BY <1>1, <2>1, <2>2 DEF ProcessInv, TypeOK, LifeTypeOK, Alive, lifeVars,
                            InFlight, Gone, NobodyEarly, NothingPulledAway,
                            OpenInOrder
<1>5. CASE Bootstrap
  <2>1. InFlight = {} /\ Running = {}
    <3>1. phase \in {"ended", "connecting"}
      BY <1>5 DEF Bootstrap, Boot, Connect, Listen, Alive
    <3> QED
      BY <3>1 DEF ProcessInv, TypeOK, OpenInOrder, NobodyEarly,
                  NothingPulledAway, Alive
  <2>2. InFlight' = {} /\ Running' = {}
    BY <1>5, <2>1 DEF Bootstrap, queueVars, InFlight, Running
  <2>3. LifeTypeOK' /\ OpenInOrder'
    BY <1>5, BootstrapKeeps DEF Bootstrap, ProcessInv, TypeOK
  <2> QED
    BY <1>1, <1>5, <2>2, <2>3 DEF ProcessInv, TypeOK, NobodyEarly,
                                 NothingPulledAway, Bootstrap
<1>6. CASE Shutdown \/ Drain \/ CloseNext
  <2>1. LifeTypeOK' /\ OpenInOrder' /\ phase' # "ended"
    BY <1>6, ShutdownKeeps DEF Shutdown, Drain, CloseNext, ProcessInv, TypeOK
  <2>2. InFlight' = InFlight /\ Gone' = Gone /\ Running' = Running
    BY <1>6 DEF Shutdown, Drain, CloseNext, queueVars, InFlight, Gone, Running
  <2>3. InFlight \ Gone # {} => /\ phase' \in {"serving", "draining"}
                                /\ "database" \in open'
    BY <1>6, <2>1
    DEF OpenInOrder, Shutdown, Drain, CloseNext, Signal, CloseFails,
        RedisLost, HttpClosed, Close, ProcessInv, NothingPulledAway
  <2>4. Running # {} => "worker" \in open'
    BY <1>6
    DEF Shutdown, Drain, CloseNext, Signal, CloseFails, RedisLost, HttpClosed,
        Close, Closing, CloseOrder, ProcessInv, TypeOK, LifeTypeOK,
        NothingPulledAway
  <2> QED
    BY <1>1, <1>6, <2>1, <2>2, <2>3, <2>4
    DEF ProcessInv, TypeOK, NobodyEarly, NothingPulledAway, Alive, Shutdown,
        Drain, CloseNext, Signal, CloseFails, RedisLost, HttpClosed, Close
<1>7. CASE Exit
  <2>1. LifeTypeOK' /\ OpenInOrder' /\ phase' = "ended"
    BY <1>7, EndKeeps DEF Exit, ProcessInv, TypeOK
  <2>2. req' \in [Mails -> Request] /\ InFlight' = {}
    <3>1. ASSUME NEW q \in Request
          PROVE  [q EXCEPT !.pc = "done", !.answer = Heard(q, "cut")]
                   \in Request
      BY DEF Heard, Request
    <3>2. req' \in [Mails -> Request]
      BY <1>7, <3>1 DEF Exit, ProcessInv, TypeOK
    <3>3. ASSUME NEW n \in Mails PROVE n \notin InFlight'
      <4>1. req[n] \in Request
        BY DEF ProcessInv, TypeOK
      <4>2. CASE n \in InFlight
        <5>1. req'[n].pc = "done"
          BY <1>7, <4>1, <4>2 DEF Exit, Request
        <5> QED BY <5>1 DEF InFlight
      <4>3. CASE n \notin InFlight
        BY <1>7, <4>3 DEF Exit, InFlight
      <4> QED BY <4>2, <4>3
    <3> QED BY <3>2, <3>3 DEF InFlight
  <2>3. Running' = {}
    BY <1>7 DEF Exit, AbandonRuns, Running, ProcessInv, TypeOK, QueueTypeOK,
                Job
  <2> QED
    BY <1>1, <1>7, <2>1, <2>2, <2>3
    DEF ProcessInv, TypeOK, NobodyEarly, NothingPulledAway, Exit
<1> QED
  BY <1>2, <1>3, <1>4, <1>5, <1>6, <1>7, <1>8 DEF Next, Serve

LEMMA ProcessInvAlways == Spec => []ProcessInv
<1> QED
  BY ProcessInvInit, ProcessInvStep, PTL DEF Spec

\* Every reachable state is well typed, and nobody is at work in a process
\* that has ended.
THEOREM ServiceTypeCorrect == Spec => []TypeOK
<1>1. ProcessInv => TypeOK
  BY DEF ProcessInv
<1> QED
  BY <1>1, ProcessInvAlways, PTL

\* Shutdown closes neither the database under a request whose client is there
\* to be answered, nor the worker under a run.
THEOREM NothingIsPulledAway == Spec => []NothingPulledAway
<1>1. ProcessInv => NothingPulledAway
  BY DEF ProcessInv
<1> QED
  BY <1>1, ProcessInvAlways, PTL

-----------------------------------------------------------------------------
(* The codes: what a request has done when it is answered. *)

\* A request on its way has an account and has not been answered; before it
\* stores its code nothing is stored, and before its reply its job is queued.
OnItsWay(m) ==
  /\ req[m].pc # "done" => req[m].answer \in {"none", "gone"}
  /\ req[m].pc \in {"idle", "insert", "store"} => ~req[m].stored
  /\ req[m].pc \in {"store", "queue", "reply"} => account # "none"
  /\ req[m].pc \in {"queue", "reply"} => req[m].stored
  /\ req[m].pc = "reply" => job[m].state # "none"

\* QueuedOrTold, for one mail.
QueuedOrToldOf(m) ==
  /\ job[m].state # "none" => req[m].stored /\ account # "none"
  /\ req[m].answer = "ok" /\ job[m].state = "none" =>
       \/ req[m].kind = "resend" /\ req[m].skipped \in {"none", "verified"}
       \/ req[m].kind = "register" /\ req[m].stored /\ account # "none"

CodeInv(m) == OnItsWay(m) /\ QueuedOrToldOf(m)
CodesInv == ProcessInv /\ \A m \in Mails : CodeInv(m)

\* A step of the request m: what it may do to the mail m, and that it leaves
\* the other mails alone.
LEMMA RequestCode ==
  ASSUME ProcessInv, NEW m \in Mails, CodeInv(m), Serve(m)
  PROVE  /\ account # "none" => account' # "none"
         /\ CodeInv(m)'
         /\ \A n \in Mails \ {m} : req'[n] = req[n] /\ job'[n] = job[n]
<1> USE DEF ProcessInv, TypeOK, QueueTypeOK
<1>1. req[m] \in Request /\ job[m] \in Job
  OBVIOUS
<1>2. ASSUME NEW k \in Kinds, Receive(m, k)
      PROVE  /\ account # "none" => account' # "none"
             /\ CodeInv(m)'
             /\ \A n \in Mails \ {m} : req'[n] = req[n] /\ job'[n] = job[n]
  <2>1. UNCHANGED <<account, job>> /\ req[m].pc = "idle"
    BY <1>2 DEF Receive, queueVars
  <2>2. PICK pc, sk, a :
          /\ req' = [req EXCEPT ![m].kind = k, ![m].skipped = sk,
                                ![m].pc = pc, ![m].answer = a]
          /\ \/ pc = "insert" /\ a = "none"
             \/ pc = "store" /\ a = "none" /\ account # "none"
             \/ pc = "done" /\ a = "error"
             \/ /\ pc = "done" /\ a = "ok" /\ k = "resend"
                /\ sk \in {"none", "verified"}
    BY <1>2 DEF Receive, Refuses, Skips, Accounts, Kinds
  <2>3. /\ req'[m] = [req[m] EXCEPT !.kind = k, !.skipped = sk, !.pc = pc,
                                    !.answer = a]
        /\ \A n \in Mails \ {m} : req'[n] = req[n]
    BY <2>2
  <2>4. /\ req'[m].pc = pc /\ req'[m].answer = a
        /\ req'[m].kind = k /\ req'[m].skipped = sk
        /\ req'[m].stored = req[m].stored
    BY <1>1, <2>3 DEF Request
  <2> QED
    BY <2>1, <2>2, <2>3, <2>4 DEF CodeInv, OnItsWay, QueuedOrToldOf
<1>3. CASE HangUp(m)
  <2>1. /\ job' = job /\ account' = account /\ m \in InFlight
        /\ req'[m] = [req[m] EXCEPT !.answer = "gone"]
        /\ \A n \in Mails \ {m} : req'[n] = req[n]
    BY <1>3 DEF HangUp, queueVars
  <2> QED
    BY <1>1, <2>1 DEF CodeInv, OnItsWay, QueuedOrToldOf, Request
<1>4. ASSUME NEW a \in {"ok", "error"}, Answer(m, a), job' = job,
             account # "none" => account' # "none",
             req[m].pc \notin {"idle", "done"},
             a = "ok" => \/ job[m].state # "none"
                         \/ /\ req[m].kind = "register" /\ req[m].stored
                            /\ account # "none"
      PROVE  /\ CodeInv(m)'
             /\ \A n \in Mails \ {m} : req'[n] = req[n] /\ job'[n] = job[n]
  <2>1. /\ req'[m] = [req[m] EXCEPT !.pc = "done",
                                    !.answer = Heard(req[m], a)]
        /\ \A n \in Mails \ {m} : req'[n] = req[n]
    BY <1>4 DEF Answer
  <2>2. /\ req'[m].pc = "done" /\ req'[m].kind = req[m].kind
        /\ req'[m].stored = req[m].stored
        /\ req'[m].skipped = req[m].skipped
        /\ req'[m].answer \in {a, "gone"}
    BY <1>1, <1>4, <2>1 DEF Request, Heard, CodeInv, OnItsWay
  <2> QED
    BY <1>4, <2>1, <2>2 DEF CodeInv, OnItsWay, QueuedOrToldOf
<1>5. ASSUME NEW pc \in {"store", "reply"}, Goto(m, pc),
             account # "none" => account' # "none"
      PROVE  /\ req'[m] = [req[m] EXCEPT !.pc = pc]
             /\ req'[m].pc = pc /\ req'[m].kind = req[m].kind
             /\ req'[m].stored = req[m].stored
             /\ req'[m].skipped = req[m].skipped
             /\ req'[m].answer = req[m].answer
             /\ \A n \in Mails \ {m} : req'[n] = req[n]
  BY <1>1, <1>5 DEF Goto, Request
<1>6. CASE Insert(m)
  <2>1. CASE account = "none"
    <3>1. /\ account' = "unverified" /\ Goto(m, "store") /\ job' = job
          /\ req[m].pc = "insert"
      BY <1>6, <2>1 DEF Insert, queueVars
    <3> QED
      BY <2>1, <3>1, <1>5 DEF CodeInv, OnItsWay, QueuedOrToldOf
  <2>2. CASE account # "none"
    BY <1>4, <1>6, <2>2 DEF Insert, queueVars
  <2> QED BY <2>1, <2>2
<1>7. CASE StoreCode(m)
  BY <1>1, <1>7 DEF StoreCode, queueVars, CodeInv, OnItsWay, QueuedOrToldOf,
                    Request
<1>8. CASE QueueMail(m)
  <2>1. /\ Goto(m, "reply") /\ account' = account /\ req[m].pc = "queue"
        /\ job' = [job EXCEPT ![m].state = "waiting"]
    BY <1>8 DEF QueueMail, Add
  <2>2. job'[m].state = "waiting" /\ \A n \in Mails \ {m} : job'[n] = job[n]
    BY <1>1, <2>1 DEF Job
  <2> QED
    BY <1>5, <2>1, <2>2 DEF CodeInv, OnItsWay, QueuedOrToldOf
<1>9. CASE QueueFails(m) \/ Reply(m) \/ RequestFails(m)
  BY <1>4, <1>9 DEF QueueFails, Told, Reply, RequestFails, queueVars,
                    CodeInv, OnItsWay
<1> QED
  BY <1>2, <1>3, <1>6, <1>7, <1>8, <1>9 DEF Serve

\* A run, and the end of the process, neither make a job nor undo one.
LEMMA JobsStay ==
  ASSUME QueueTypeOK, NEW n \in Mails,
         AbandonRuns \/ (\E m \in Mails : RunJob(m)) \/ UNCHANGED queueVars
  PROVE  job'[n].state = "none" <=> job[n].state = "none"
<1> USE DEF QueueTypeOK
<1>1. CASE AbandonRuns \/ UNCHANGED queueVars
  BY <1>1 DEF AbandonRuns, queueVars, Job
<1>2. ASSUME NEW m \in Mails, RunJob(m)
      PROVE  job'[n].state = "none" <=> job[n].state = "none"
  <2>1. job[n] \in Job /\ job[m] \in Job
    OBVIOUS
  <2>2. n # m => job'[n] = job[n]
    BY <1>2 DEF RunJob, StartJob, RecoverStalled, Promote, AcceptMail,
                Complete, FailAttempt
  <2>3. job[m].state # "none" /\ job'[m].state # "none"
    <3>1. CASE StartJob(m) \/ Promote(m) \/ AcceptMail(m)
      BY <2>1, <3>1 DEF StartJob, Promote, AcceptMail, Job
    <3>2. CASE RecoverStalled(m)
      BY <2>1, <3>2 DEF RecoverStalled, Job
    <3>3. CASE Complete(m)
      BY <2>1, <3>3 DEF Complete, Job
    <3>4. CASE FailAttempt(m)
      BY <2>1, <3>4 DEF FailAttempt, AfterFailure, Job
    <3> QED
      BY <1>2, <3>1, <3>2, <3>3, <3>4 DEF RunJob
  <2> QED
    BY <2>2, <2>3
<1> QED
  BY <1>1, <1>2

LEMMA CodesInvStep == CodesInv /\ [Next]_vars => CodesInv'
<1> SUFFICES ASSUME CodesInv, [Next]_vars, NEW n \in Mails
             PROVE  CodeInv(n)'
  BY ProcessInvStep DEF CodesInv
<1> USE DEF CodesInv
<1>1. ASSUME NEW m \in Mails, Serve(m)
      PROVE  CodeInv(n)'
  <2>1. /\ account # "none" => account' # "none"
        /\ CodeInv(m)'
        /\ \A x \in Mails \ {m} : req'[x] = req[x] /\ job'[x] = job[x]
    BY <1>1, RequestCode
  <2>2. CASE n # m
    BY <2>1, <2>2 DEF CodeInv, OnItsWay, QueuedOrToldOf
  <2> QED
    BY <2>1, <2>2
<1>2. CASE \/ UNCHANGED vars \/ Verify \/ Bootstrap \/ Shutdown \/ Drain
           \/ CloseNext \/ \E m \in Mails : RunJob(m)
  <2>1. req' = req /\ (account # "none" => account' # "none")
    BY <1>2 DEF vars, Verify, Bootstrap, Shutdown, Drain, CloseNext, RunJob
  <2>2. job'[n].state = "none" <=> job[n].state = "none"
    BY <1>2, JobsStay DEF vars, Verify, Bootstrap, Shutdown, Drain, CloseNext,
                          ProcessInv, TypeOK
  <2> QED
    BY <2>1, <2>2 DEF CodeInv, OnItsWay, QueuedOrToldOf
<1>3. CASE Exit
  <2>1. job'[n].state = "none" <=> job[n].state = "none"
    BY <1>3, JobsStay DEF Exit, ProcessInv, TypeOK
  <2>2. /\ account' = account
        /\ req'[n] = IF n \in InFlight
                     THEN [req[n] EXCEPT !.pc = "done",
                                         !.answer = Heard(req[n], "cut")]
                     ELSE req[n]
        /\ req[n] \in Request
    BY <1>3 DEF Exit, ProcessInv, TypeOK
  <2> QED
    BY <2>1, <2>2 DEF CodeInv, OnItsWay, QueuedOrToldOf, Heard, Request,
                      InFlight
<1> QED
  BY <1>1, <1>2, <1>3 DEF Next, Serve

\* No mail is queued whose code is not in Redis.  Who is told of a success
\* without a mail in the queue has asked to resend a code to an address without
\* an account or with a verified one, or has registered, and then the account
\* is there and its code stored: whatever fails and whenever the process ends.
THEOREM CodesQueuedOrTold == Spec => []QueuedOrTold
<1>1. Init => CodesInv
  <2> SUFFICES ASSUME Init, NEW m \in Mails PROVE CodeInv(m)
    BY ProcessInvInit DEF CodesInv
  <2> QED
    BY DEF Init, QueueInit, CodeInv, OnItsWay, QueuedOrToldOf
<1>2. CodesInv => QueuedOrTold
  BY DEF CodesInv, CodeInv, QueuedOrToldOf, QueuedOrTold
<1> QED
  BY <1>1, <1>2, CodesInvStep, PTL DEF Spec

-----------------------------------------------------------------------------
(* The close order. *)

\* What shutdown has gone past and is open would not close, or was opened
\* again by a request whose client has gone.
Reopened == IF Gone = {} THEN {} ELSE {"producer", "database", "redis"}
ClosedOrRefused ==
  phase = "closing" =>
    \A i \in 1..5 : i < step /\ CloseOrder[i] \in open
                      => CloseOrder[i] \in refused \union Reopened
CloseInv == ProcessInv /\ ClosedOrRefused

LEMMA CloseInvStep == CloseInv /\ [Next]_vars => CloseInv'
<1> SUFFICES ASSUME CloseInv, [Next]_vars PROVE ClosedOrRefused'
  BY ProcessInvStep DEF CloseInv
<1> USE DEF CloseInv
<1>1. ASSUME UNCHANGED lifeVars, req' = req
      PROVE  ClosedOrRefused'
  BY <1>1 DEF ClosedOrRefused, Reopened, Gone, lifeVars
<1>2. ASSUME NEW m \in Mails, Serve(m)
      PROVE  ClosedOrRefused'
  <2>1. CASE phase' # "closing"
    BY <2>1 DEF ClosedOrRefused
  <2>2. CASE phase' = "closing"
    <3>1. /\ phase = "closing" /\ step' = step /\ refused' = refused
          /\ open' \subseteq open \union
                             {"database", "redis", "producer", "producers"}
      BY <1>2, <2>2, RequestStep
    <3>2. /\ Reopened' = {"producer", "database", "redis"}
          /\ Reopened = {"producer", "database", "redis"}
      BY <1>2, <3>1, RequestClients DEF Reopened
    <3>3. \A i \in 1..5 : CloseOrder[i] # "producers"
      BY DEF CloseOrder
    <3>4. ASSUME NEW i \in 1..5, i < step, CloseOrder[i] \in open'
          PROVE  CloseOrder[i] \in refused \union Reopened'
      <4>1. CASE CloseOrder[i] \in open
        BY <3>1, <3>2, <3>4, <4>1 DEF ClosedOrRefused
      <4>2. CASE CloseOrder[i] \notin open
        BY <3>1, <3>2, <3>3, <3>4, <4>2
      <4> QED BY <4>1, <4>2
    <3> QED
      BY <3>1, <3>4 DEF ClosedOrRefused
  <2> QED BY <2>1, <2>2
<1>3. CASE Bootstrap \/ Exit \/ Signal \/ RedisLost
  <2>1. phase' # "closing"
    BY <1>3 DEF Bootstrap, Boot, Connect, Listen, Signal, RedisLost,
                Exit, ConnectFails, ExitGracefully, ForceExit, Crash, End
  <2> QED
    BY <2>1 DEF ClosedOrRefused
<1>4. CASE Drain
  <2>1. step' = 1
    BY <1>4 DEF Drain, HttpClosed
  <2> QED
    BY <2>1 DEF ClosedOrRefused
<1>5. CASE CloseNext
  <2>1. /\ phase = "closing" /\ step \in 1..5 /\ step' = step + 1
        /\ open' = open \ {CloseOrder[step]} /\ refused' = refused
        /\ Reopened' = Reopened
    BY <1>5, Orders DEF CloseNext, Close, ProcessInv, TypeOK, LifeTypeOK,
                          Reopened, Gone
  <2> QED
    BY <2>1 DEF ClosedOrRefused
<1>6. CASE CloseFails /\ Shutdown
  <2>1. /\ phase = "closing" /\ step \in 1..5 /\ step' = step + 1
        /\ refused' = refused \union {CloseOrder[step]} /\ open' = open
        /\ Reopened' = Reopened
    BY <1>6, Orders DEF CloseFails, Shutdown, ProcessInv, TypeOK, LifeTypeOK,
                        Reopened, Gone
  <2> QED
    BY <2>1 DEF ClosedOrRefused
<1>7. ASSUME NEW m \in Mails, RunJob(m)
      PROVE  ClosedOrRefused'
  BY <1>1, <1>7 DEF RunJob
<1>8. CASE UNCHANGED vars \/ Verify
  BY <1>1, <1>8 DEF vars, Verify
<1> QED
  BY <1>2, <1>3, <1>4, <1>5, <1>6, <1>7, <1>8 DEF Next, Serve, Shutdown

\* A process reports success in one way only.
LEMMA OnlyGracefully ==
  ASSUME ProcessInv, [Next]_vars, status # "0", status' = "0"
  PROVE  ExitGracefully /\ Exit
<1>1. ASSUME NEW m \in Mails, Serve(m)
      PROVE  FALSE
  BY <1>1, RequestStep
<1>2. ASSUME NEW m \in Mails, RunJob(m)
      PROVE  FALSE
  BY <1>2 DEF RunJob, lifeVars
<1>3. CASE \/ Verify \/ Bootstrap \/ Shutdown \/ Drain \/ CloseNext
           \/ UNCHANGED vars
  BY <1>3 DEF Verify, Bootstrap, Boot, Connect, Listen, Shutdown, Signal,
              CloseFails, RedisLost, Drain, HttpClosed, CloseNext, Close, vars,
              lifeVars
<1>4. CASE Exit
  BY <1>4 DEF Exit, ConnectFails, ForceExit, Crash, End
<1> QED
  BY <1>1, <1>2, <1>3, <1>4 DEF Next, Serve

\* A process that reports success has cut off no request whose client was still
\* there and no run that it could wait for, and has closed everything that would
\* close, but for the second producer and for what a request whose client had
\* gone may have opened again.
THEOREM GracefulExitIsCleanAlways == Spec => GracefulExitIsClean
<1>1. Init => CloseInv
  BY ProcessInvInit DEF CloseInv, ClosedOrRefused, Init, LifeInit
<1> DEFINE Clean == /\ InFlight \subseteq Gone
                    /\ Running # {} => "worker" \in refused
                    /\ open \subseteq refused \union {"producers"} \union
                         (IF Gone = {} THEN {}
                          ELSE {"producer", "database", "redis"})
<1>2. CloseInv /\ [Next]_vars =>
        [status # "0" /\ status' = "0" => Clean]_vars
  <2> SUFFICES ASSUME CloseInv, [Next]_vars, status # "0", status' = "0"
               PROVE  Clean
    OBVIOUS
  <2>1. phase = "closing" /\ step = 6
    <3>1. ProcessInv
      BY DEF CloseInv
    <3>2. ExitGracefully
      BY <3>1, OnlyGracefully
    <3> QED
      BY <3>1, <3>2, Orders
      DEF ProcessInv, TypeOK, LifeTypeOK, ExitGracefully
  <2>2. InFlight \subseteq Gone
    BY <2>1 DEF CloseInv, ProcessInv, NothingPulledAway
  <2>3. \A i \in 1..5 : CloseOrder[i] \in open
                           => CloseOrder[i] \in refused \union Reopened
    BY <2>1 DEF CloseInv, ClosedOrRefused
  <2>4. {"worker", "producer", "database", "bullmq", "redis"} \intersect open
          \subseteq refused \union Reopened
    BY <2>3 DEF CloseOrder
  <2>5. open \subseteq Connections
    BY DEF CloseInv, ProcessInv, TypeOK, LifeTypeOK
  <2>6. Running # {} => "worker" \in open
    BY DEF CloseInv, ProcessInv, NothingPulledAway
  <2>7. "worker" \notin Reopened
    BY DEF Reopened
  <2> QED
    BY <2>2, <2>4, <2>5, <2>6, <2>7 DEF Connections, Reopened
<1> QED
  BY <1>1, <1>2, CloseInvStep, PTL DEF Spec, GracefulExitIsClean
=============================================================================
