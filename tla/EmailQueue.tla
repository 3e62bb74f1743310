------------------------------ MODULE EmailQueue -----------------------------
(***************************************************************************)
(* The BullMQ queue "email-verification-queue": jobs that mail a code to   *)
(* its address.  The queue lives in Redis and outlives the process; the    *)
(* worker, inside the process, runs up to Concurrency jobs at a time, and  *)
(* a run is one call of the mail provider.  A run may fail although the    *)
(* provider has accepted the mail, and the process may end in the middle   *)
(* of a run: the job is then found stalled by a later worker.              *)
(*                                                                         *)
(* BullMQ and the provider are external: their steps are modelled from the *)
(* options the producers and the worker give them.                         *)
(***************************************************************************)
EXTENDS Integers, FiniteSets

CONSTANTS
  Mails,        \* the jobs: one for each code whose mail may be queued
  Attempts,     \* QUEUE_LIMITS.EMAIL.ATTEMPTS: runs that may fail
  Concurrency,  \* QUEUE_LIMITS.EMAIL.CONCURRENCY
  MaxStalls     \* BullMQ's maxStalledCount, at its default

ASSUME EmailQueueAssumption ==
  /\ Attempts \in Nat \ {0}
  /\ Concurrency \in Nat \ {0}
  /\ MaxStalls \in Nat

VARIABLES
  job,      \* job[m]: m's job, as Redis and the run under way know it
  arrived   \* arrived[m]: how often the provider accepted m's mail

queueVars == <<job, arrived>>

States == {"none", "waiting", "active", "delayed", "completed", "failed"}

\* "failures" and "stalls" are BullMQ's counters; "run" is the run of a living
\* worker: whether the provider has taken the mail yet.  An active job that
\* nobody runs is stalled.
Job == [state : States, failures : Nat, stalls : Nat,
        run : {"none", "sending", "accepted"}]

QueueInit ==
  /\ job = [m \in Mails |-> [state |-> "none", failures |-> 0, stalls |-> 0,
                             run |-> "none"]]
  /\ arrived = [m \in Mails |-> 0]

QueueTypeOK ==
  /\ job \in [Mails -> Job]
  /\ arrived \in [Mails -> Nat]
  /\ \A m \in Mails : job[m].run # "none" => job[m].state = "active"

Running == {m \in Mails : job[m].run # "none"}
Settled(m) == job[m].state \in {"completed", "failed"}

-----------------------------------------------------------------------------

\* queueVerificationEmail, Redis answering.
Add(m) ==
  /\ job[m].state = "none"
  /\ job' = [job EXCEPT ![m].state = "waiting"]
  /\ UNCHANGED arrived

\* The worker takes a job: the mails of two codes may be under way together
\* and arrive in either order.
StartJob(m) ==
  /\ job[m].state = "waiting"
  /\ Cardinality(Running) < Concurrency
  /\ job' = [job EXCEPT ![m].state = "active", ![m].run = "sending"]
  /\ UNCHANGED arrived

\* The provider takes the mail; its answer is on the way.  Assumption: within
\* one run it takes the mail once.  The provider's client is built with its
\* own defaults for retries, and could send a second time by itself.
AcceptMail(m) ==
  /\ job[m].run = "sending"
  /\ job' = [job EXCEPT ![m].run = "accepted"]
  /\ arrived' = [arrived EXCEPT ![m] = @ + 1]

\* sendVerificationEmail returns: the job is removed.  The first form is a
\* processor that does not await the call.
CompleteMutant(m) ==
  /\ job[m].run # "none"
  /\ job' = [job EXCEPT ![m].state = "completed", ![m].run = "none"]
  /\ UNCHANGED arrived
Complete(m) ==
  /\ job[m].run = "accepted"
  /\ job' = [job EXCEPT ![m].state = "completed", ![m].run = "none"]
  /\ UNCHANGED arrived

\* sendVerificationEmail throws, the mail refused or its answer lost: another
\* attempt after the backoff, or the job is kept as failed.  The first form
\* of the choice allows one attempt too many.
AfterFailureMutant(failures) ==
  IF failures <= Attempts THEN "delayed" ELSE "failed"
AfterFailure(failures) == IF failures < Attempts THEN "delayed" ELSE "failed"
FailAttempt(m) ==
  /\ job[m].run # "none"
  /\ job' = [job EXCEPT ![m].state = AfterFailure(job[m].failures + 1),
                        ![m].failures = @ + 1, ![m].run = "none"]
  /\ UNCHANGED arrived

\* The exponential backoff is over.
Promote(m) ==
  /\ job[m].state = "delayed"
  /\ job' = [job EXCEPT ![m].state = "waiting"]
  /\ UNCHANGED arrived

\* A worker finds a job that is active and that nobody runs.  The first form
\* has the check for stalled jobs switched off.
RecoverStalledMutant(m) == FALSE
RecoverStalled(m) ==
  /\ job[m].state = "active" /\ job[m].run = "none"
  /\ job' = [job EXCEPT
               ![m].state = IF job[m].stalls < MaxStalls THEN "waiting"
                            ELSE "failed",
               ![m].stalls = @ + 1]
  /\ UNCHANGED arrived

\* The process ends: its runs are cut off, the queue stays.  In the first form
\* they would go on.
AbandonRunsMutant == UNCHANGED queueVars
AbandonRuns ==
  /\ job' = [m \in Mails |-> [job[m] EXCEPT !.run = "none"]]
  /\ UNCHANGED arrived

-----------------------------------------------------------------------------
(* Properties. *)

\* A job that is gone has delivered its mail, and no mail arrives more often
\* than the job was run: once for each failure and each stalled run at most,
\* and once for the last run.
MailsAreCounted ==
  \A m \in Mails :
    /\ job[m].state = "completed" => arrived[m] > 0
    /\ arrived[m] <= job[m].failures + job[m].stalls
         + (IF job[m].state \in {"active", "completed"} THEN 1 ELSE 0)

\* An address gets the mail of one code at most Attempts + MaxStalls times,
\* and a job is given up only after its last attempt or its last stall.
MailsAreBounded ==
  \A m \in Mails :
    /\ arrived[m] <= Attempts + MaxStalls
    /\ job[m].state = "failed" => \/ job[m].failures = Attempts
                                  \/ job[m].stalls > MaxStalls
=============================================================================
