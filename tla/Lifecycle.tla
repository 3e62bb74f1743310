------------------------------- MODULE Lifecycle ----------------------------
(***************************************************************************)
(* The life of the server process: bootstrap connects the database, Redis  *)
(* and BullMQ in turn, starts the e-mail worker and listens; on SIGINT or  *)
(* SIGTERM it stops listening, waits for the connections to end and then   *)
(* closes what it opened, one thing after another, while a timer of ten    *)
(* seconds stands by to end the process if one of these steps hangs.       *)
(***************************************************************************)
EXTENDS Integers, Sequences, FiniteSets

CONSTANTS
  MaxStarts,   \* bound: how often the process is started
  MaxRefusals  \* bound: how many closes throw in one shutdown

ASSUME LifecycleAssumption == MaxStarts \in Nat \ {0}

VARIABLES
  phase,    \* where bootstrap and shutdown have come to
  step,     \* the next entry of the order that the phase works through
  open,     \* the connections, and the worker, that the process holds
  refused,  \* those whose close has thrown
  timer,    \* is forceExitTimeout set?
  status,   \* how the process ended last
  starts    \* how often it was started

lifeVars == <<phase, step, open, refused, timer, status, starts>>

\* "producer" is bound to TYPES.EmailQueueProducer, "producers" is the class
\* of email.queue.producer.ts bound to TYPES.EmailQueueProducers: each opens
\* its queue when it queues its first mail.  A worker or a queue is closed
\* when BullMQ says so; the sockets it was handed go with the process.
ConnectOrder == <<"database", "redis", "bullmq">>
CloseOrder == <<"worker", "producer", "database", "bullmq", "redis">>
Connections == {"worker", "producer", "producers", "database", "redis",
                "bullmq"}

LifeInit ==
  /\ phase = "ended" /\ status = "none" /\ starts = 0
  /\ step = 1 /\ open = {} /\ refused = {} /\ timer = FALSE

LifeTypeOK ==
  /\ phase \in {"connecting", "serving", "draining", "closing", "ended"}
  /\ step \in 1..6
  /\ open \subseteq Connections /\ refused \subseteq Connections
  /\ timer \in BOOLEAN
  /\ status \in {"none", "0", "1", "killed"}
  /\ starts \in 0..MaxStarts
  /\ phase = "connecting" => step <= 4
  /\ phase = "ended" => open = {} /\ timer = FALSE

Alive == phase # "ended"

\* Bound: the last start of a behaviour meets no failure of its surroundings.
MayFail == starts < MaxStarts

-----------------------------------------------------------------------------

\* The process is gone, and the system closes its sockets.
End(how) ==
  /\ phase' = "ended" /\ status' = how
  /\ step' = 1 /\ open' = {} /\ refused' = {} /\ timer' = FALSE
  /\ UNCHANGED starts

\* Somebody starts the process.
Boot ==
  /\ ~Alive /\ MayFail
  /\ phase' = "connecting" /\ step' = 1 /\ starts' = starts + 1
  /\ status' = "none"
  /\ UNCHANGED <<open, refused, timer>>

\* initInfrastructure: the next connect.
Connect ==
  /\ phase = "connecting" /\ step <= Len(ConnectOrder)
  /\ open' = open \union {ConnectOrder[step]}
  /\ step' = step + 1
  /\ UNCHANGED <<phase, refused, timer, status, starts>>

\* A connect rejects: bootstrap's catch exits.
ConnectFails ==
  /\ phase = "connecting" /\ step <= Len(ConnectOrder) /\ MayFail
  /\ End("1")

\* All connected: the worker starts, or its error is only logged, and the
\* server listens.
Listen(worker) ==
  /\ phase = "connecting" /\ step > Len(ConnectOrder)
  /\ worker \/ MayFail
  /\ open' = open \union (IF worker THEN {"worker"} ELSE {})
  /\ phase' = "serving" /\ step' = 1
  /\ UNCHANGED <<refused, timer, status, starts>>

\* The first SIGINT or SIGTERM; later ones find isShuttingDown set.  The
\* first form sets the timer only once the server has closed.
SignalMutant ==
  /\ phase = "serving" /\ MayFail
  /\ phase' = "draining"
  /\ UNCHANGED <<step, open, refused, timer, status, starts>>
Signal ==
  /\ phase = "serving" /\ MayFail
  /\ phase' = "draining" /\ timer' = TRUE
  /\ UNCHANGED <<step, open, refused, status, starts>>

\* Redis stays away for longer than reconnectStrategy tries, and the client
\* gives up: it stays closed until somebody connects it.
RedisLost ==
  /\ phase \in {"serving", "draining"} /\ "redis" \in open /\ MayFail
  /\ open' = open \ {"redis"}
  /\ UNCHANGED <<phase, step, refused, timer, status, starts>>

\* The callback of server.close.
HttpClosed ==
  /\ phase = "draining"
  /\ phase' = "closing" /\ step' = 1
  /\ UNCHANGED <<open, refused, timer, status, starts>>

\* shutdownInfrastructure: the next close is done ...
Close ==
  /\ phase = "closing" /\ step <= Len(CloseOrder)
  /\ open' = open \ {CloseOrder[step]}
  /\ step' = step + 1
  /\ UNCHANGED <<phase, refused, timer, status, starts>>

\* ... or throws, and its catch goes on to the next one.  BullMQService
\* catches its own error, and lets go of its client all the same.  The first
\* form has one catch around them all.
CloseFailsMutant ==
  /\ phase = "closing" /\ step <= Len(CloseOrder)
  /\ CloseOrder[step] \in open \ {"bullmq"}
  /\ Cardinality(refused) < MaxRefusals
  /\ refused' = refused \union {CloseOrder[step]}
  /\ step' = Len(CloseOrder) + 1
  /\ UNCHANGED <<phase, open, timer, status, starts>>
CloseFails ==
  /\ phase = "closing" /\ step <= Len(CloseOrder)
  /\ CloseOrder[step] \in open \ {"bullmq"}
  /\ Cardinality(refused) < MaxRefusals
  /\ refused' = refused \union {CloseOrder[step]}
  /\ step' = step + 1
  /\ UNCHANGED <<phase, open, timer, status, starts>>

\* Everything is closed: the timer is cleared, exit(0).
ExitGracefully ==
  /\ phase = "closing" /\ step > Len(CloseOrder)
  /\ End("0")

\* forceExitTimeout fires: exit(1) follows at once on the call that starts a
\* second shutdownInfrastructure.
ForceExit == timer /\ End("1")

\* The process is killed, or dies of an error nobody catches.
Crash == Alive /\ MayFail /\ End("killed")
=============================================================================
