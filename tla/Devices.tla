------------------------------- MODULE Devices ------------------------------
(***************************************************************************)
(* Push-notification devices of customers: the table "devices", whose rows *)
(* are unique for a user and a client device id, and which is meant to     *)
(* have one active row for a client device and for a push token ("fid").   *)
(*                                                                         *)
(* Saving a device is a transaction at READ COMMITTED: one UPDATE makes    *)
(* the other active rows with the same device or fid inactive, then an     *)
(* upsert writes the row itself.  A statement works on the rows that were  *)
(* committed when it began.  It takes them one at a time, waits for one    *)
(* that another transaction has changed and not committed, and looks again *)
(* whether that row still qualifies; of rows that have come to qualify     *)
(* meanwhile it knows nothing.                                             *)
(***************************************************************************)
EXTENDS Integers, FiniteSets

CONSTANTS
  Users, DeviceIds, Fids,
  Requests,        \* slots for HTTP requests in flight at the same time
  NoRow, NoFid

Rows == Users \X DeviceIds
Device == [fid : Fids \union {NoFid}, active : BOOLEAN]

ASSUME DevicesAssumption == NoRow \notin Device /\ NoFid \notin Fids

VARIABLES
  device,   \* device[k]: the committed row of k = <<user, device id>>
  req,      \* req[r]: what request r remembers between its statements
  \* History variables: no code reads them.
  met       \* pairs of active rivals whose last saves were in flight together

vars == <<device, req, met>>

\* A request before its transaction, and in it: "todo" are the rows of the
\* UPDATE's snapshot that it has not come to yet, "locked" those it has made
\* inactive and not yet committed, and "beside" (history) those that others
\* have saved since it began.
Idle      == [pc : {"idle"}]
Saving    == [pc : {"save"}, key : Rows, fid : Fids \union {NoFid},
              found : BOOLEAN]
Writing   == [pc : {"write"}, key : Rows, fid : Fids \union {NoFid},
              todo : SUBSET Rows, locked : SUBSET Rows, beside : SUBSET Rows]
Request == Idle \union Saving \union Writing

Init ==
  /\ device = [k \in Rows |-> NoRow]
  /\ req = [r \in Requests |-> [pc |-> "idle"]]
  /\ met = {}

-----------------------------------------------------------------------------
(* Helpers. *)

Goto(r, next) == req' = [req EXCEPT ![r] = next]
Done(r) == Goto(r, [pc |-> "idle"])

Active(k) == device[k] # NoRow /\ device[k].active

\* The active rows that saving k with this fid makes inactive: those of the
\* same client device or the same fid (a null fid matches none), but not the
\* row that was found for k.  The first form compares the device id alone,
\* the second one forgets isActive.
RivalsMutant(k, fid, found) ==
  {l \in Rows : Active(l) /\ l[2] = k[2] /\ (found => l # k)}
RivalsUnfiltered(k, fid, found) ==
  {l \in Rows : l[2] = k[2] /\ (found => l # k)}
Rivals(k, fid, found) ==
  {l \in Rows :
     /\ Active(l)
     /\ l[2] = k[2] \/ (fid # NoFid /\ device[l].fid = fid)
     /\ found => l # k}

InTransaction == {r \in Requests : req[r].pc = "write"}
Locked(k) == \E r \in InTransaction : k \in req[r].locked

\* The rows that r's statement still has to write: those left of the UPDATE,
\* in whatever order it comes to them, and then the one of the upsert.
Wanted(r) == IF req[r].todo # {} THEN req[r].todo ELSE {req[r].key}

\* r waits for a row that q's transaction has changed; the first form takes
\* the statement out of its own transaction.
WaitsMutant(r, q) ==
  /\ r \in InTransaction /\ q \in InTransaction
  /\ Wanted(r) \intersect req[q].locked # {}
Waits(r, q) ==
  /\ r \in InTransaction /\ q \in InTransaction /\ r # q
  /\ Wanted(r) \intersect req[q].locked # {}

\* Transactions that wait for one another in a cycle.
Deadlocked(S) ==
  /\ Cardinality(S) > 1
  /\ \A r \in S : (\E q \in S : Waits(r, q)) /\ (\E q \in S : Waits(q, r))

Rivalry(k, l) ==
  \/ k[2] = l[2]
  \/ device[k].fid # NoFid /\ device[k].fid = device[l].fid

\* r has saved q's row: this is beside every save in flight, and has met what
\* was beside it.  A pair is kept while its rows are active rivals.
Committed(r, q) ==
  /\ req' = [s \in Requests |->
               IF s = r THEN [pc |-> "idle"]
               ELSE IF s \in InTransaction
               THEN [req[s] EXCEPT !.beside = @ \union {q.key}]
               ELSE req[s]]
  /\ met' = {p \in {m \in met : q.key \notin m}
                     \union {{q.key, l} : l \in q.beside \ {q.key}} :
               \A k, l \in p : Active(k)' /\ Rivalry(k, l)'}

Deactivated(row) == [row EXCEPT !.active = FALSE]

-----------------------------------------------------------------------------

\* RegisterDeviceUseCase: reads the row; the request names a fid or null, or
\* leaves it out, which keeps the fid of the row that was found.
Register(r, k, fid) ==
  /\ req[r].pc = "idle"
  /\ Goto(r, [pc |-> "save", key |-> k, fid |-> fid,
              found |-> device[k] # NoRow])
  /\ UNCHANGED <<device, met>>

\* The UPDATE that opens save's transaction begins, with its snapshot.
BeginUpdate(r) ==
  LET q == req[r]
  IN  /\ q.pc = "save"
      /\ Goto(r, [pc |-> "write", key |-> q.key, fid |-> q.fid,
                  todo |-> Rivals(q.key, q.fid, q.found),
                  locked |-> {}, beside |-> {}])
      /\ UNCHANGED <<device, met>>

\* It comes to the row l, once that is not locked, and makes it inactive if
\* what is committed now still qualifies (its id cannot have changed).
DeactivateRival(r, l) ==
  LET q == req[r]
  IN  /\ q.pc = "write" /\ l \in q.todo
      /\ ~Locked(l)
      /\ Goto(r, [q EXCEPT !.todo = @ \ {l},
                           !.locked = @ \union ({l} \intersect
                             Rivals(q.key, q.fid, FALSE))])
      /\ UNCHANGED <<device, met>>
DeactivateRivals(r) == \E l \in Rows : DeactivateRival(r, l)

\* The upsert and the commit: it waits while another transaction holds the
\* row.
Upsert(r) ==
  LET q == req[r]
  IN  /\ q.pc = "write" /\ q.todo = {}
      /\ \A s \in Requests : ~Waits(r, s)
      /\ device' = [k \in Rows |->
                      IF k = q.key THEN [fid |-> q.fid, active |-> TRUE]
                      ELSE IF k \in q.locked THEN Deactivated(device[k])
                      ELSE device[k]]
      /\ Committed(r, q)

\* DeactivateDeviceUseCase: one UPDATE, which waits for the lock.
Deactivate(k) ==
  /\ device[k] # NoRow
  /\ ~Locked(k)
  /\ device' = [device EXCEPT ![k] = Deactivated(@)]
  /\ met' = {p \in met : k \notin p}
  /\ UNCHANGED req

\* PostgreSQL aborts a transaction of a cycle of waiting ones.
AbortDeadlocked(r) ==
  /\ \E S \in SUBSET InTransaction : r \in S /\ Deadlocked(S)
  /\ Done(r)
  /\ UNCHANGED <<device, met>>

\* The database fails, or the process dies: a transaction is rolled back.
Fail(r) ==
  /\ req[r].pc # "idle"
  /\ Done(r)
  /\ UNCHANGED <<device, met>>

Step(r) ==
  \/ \E k \in Rows, fid \in Fids \union {NoFid} : Register(r, k, fid)
  \/ BeginUpdate(r) \/ DeactivateRivals(r) \/ Upsert(r)
  \/ AbortDeadlocked(r) \/ Fail(r)

Next ==
  \/ \E r \in Requests : Step(r)
  \/ \E k \in Rows : Deactivate(k)

Spec == Init /\ [][Next]_vars

\* Node goes on with a request whose statement has answered; PostgreSQL
\* grants a row's lock in the order of the requests for it, and breaks every
\* deadlock.
FairSpec ==
  /\ Spec
  /\ \A r \in Requests :
       /\ WF_vars(BeginUpdate(r)) /\ WF_vars(AbortDeadlocked(r))
       /\ SF_vars(DeactivateRivals(r)) /\ SF_vars(Upsert(r))

-----------------------------------------------------------------------------
(* Properties. *)

\* The type invariant, with what PostgreSQL's row locks come to: the rows an
\* open save has deactivated are still active for everyone else, and no two
\* saves hold the same row.
TypeOK ==
  /\ device \in [Rows -> Device \union {NoRow}]
  /\ req \in [Requests -> Request]
  /\ met \subseteq SUBSET Rows
  /\ \A r \in InTransaction : \A l \in req[r].locked :
       Active(l) /\ \A q \in InTransaction \ {r} : l \notin req[q].locked

\* Two active rows never share a client device or a fid, so that no push
\* reaches a device's former user, unless their last saves were in flight
\* together, be it that one only waited for a row the other had changed: the
\* row saved last was then not in the snapshot of the other's UPDATE.
ActiveIsExclusive ==
  \A k, l \in Rows :
    k # l /\ Active(k) /\ Active(l) /\ Rivalry(k, l) => {k, l} \in met

\* Every save ends, also when UPDATEs and upserts of several wait for one
\* another's rows.
EverySaveEnds == \A r \in Requests : req[r].pc # "idle" ~> req[r].pc = "idle"
=============================================================================
