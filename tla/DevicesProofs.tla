---------------------------- MODULE DevicesProofs ----------------------------
(***************************************************************************)
(* Proofs about Devices, for any number of users, client devices, push     *)
(* tokens and requests.                                                    *)
(***************************************************************************)
EXTENDS Devices, TLAPS

\* TypeOK, in two parts.
Types ==
  /\ device \in [Rows -> Device \union {NoRow}]
  /\ req \in [Requests -> Request]
  /\ met \subseteq SUBSET Rows

\* What r's UPDATE has changed stays as it was for everyone else, and is
\* r's alone, until r ends.
LocksOf(r) ==
  \A l \in req[r].locked :
    Active(l) /\ \A q \in InTransaction \ {r} : l \notin req[q].locked
LocksHold == \A r \in InTransaction : LocksOf(r)

LEMMA TypeParts == TypeOK <=> Types /\ LocksHold
BY DEF TypeOK, Types, LocksHold, LocksOf

(***************************************************************************)
(* What the records hold, and what the helpers do.                         *)
(***************************************************************************)
LEMMA SavingFields ==
  ASSUME NEW q \in Request, q.pc = "save"
  PROVE  q.key \in Rows /\ q.fid \in Fids \union {NoFid}
BY DEF Request, Idle, Saving, Writing

LEMMA WritingFields ==
  ASSUME NEW q \in Request, q.pc = "write"
  PROVE  /\ q \in Writing
         /\ q.key \in Rows /\ q.fid \in Fids \union {NoFid}
         /\ q.todo \subseteq Rows /\ q.locked \subseteq Rows
         /\ q.beside \subseteq Rows
BY DEF Request, Idle, Saving, Writing

LEMMA DeactivatedFacts ==
  ASSUME NEW d \in Device
  PROVE  /\ Deactivated(d) \in Device
         /\ Deactivated(d).active = FALSE
         /\ Deactivated(d).fid = d.fid
BY DEF Deactivated, Device

LEMMA GotoFacts ==
  ASSUME Types, NEW r \in Requests, NEW next \in Request, Goto(r, next)
  PROVE  /\ req' \in [Requests -> Request]
         /\ req'[r] = next
         /\ \A q \in Requests \ {r} : req'[q] = req[q]
BY DEF Types, Goto

LEMMA DoneFacts ==
  ASSUME Types, NEW r \in Requests, Done(r)
  PROVE  /\ req' \in [Requests -> Request]
         /\ \A q \in Requests \ {r} : req'[q] = req[q]
         /\ InTransaction' = InTransaction \ {r}
<1>1. [pc |-> "idle"] \in Request
  BY DEF Request, Idle
<1>2. /\ req' \in [Requests -> Request]
      /\ req'[r] = [pc |-> "idle"]
      /\ \A q \in Requests \ {r} : req'[q] = req[q]
  BY <1>1, GotoFacts DEF Done
<1> QED
  BY <1>2 DEF InTransaction

(***************************************************************************)
(* The effects of the steps, one lemma for each that matters here.         *)
(***************************************************************************)
LEMMA RegisterFacts ==
  ASSUME Types, NEW r \in Requests, NEW k \in Rows,
         NEW fid \in Fids \union {NoFid}, Register(r, k, fid)
  PROVE  /\ req' \in [Requests -> Request]
         /\ \A q \in Requests \ {r} : req'[q] = req[q]
         /\ InTransaction' = InTransaction /\ r \notin InTransaction
         /\ UNCHANGED <<device, met>>
<1> DEFINE next == [pc |-> "save", key |-> k, fid |-> fid,
                    found |-> device[k] # NoRow]
<1>1. next \in Request /\ next.pc = "save"
  BY DEF Request, Saving
<1>2. req[r].pc = "idle" /\ Goto(r, next) /\ UNCHANGED <<device, met>>
  BY DEF Register
<1> HIDE DEF next
<1>3. /\ req' \in [Requests -> Request]
      /\ req'[r] = next
      /\ \A q \in Requests \ {r} : req'[q] = req[q]
  BY <1>1, <1>2, GotoFacts
<1> QED
  BY <1>1, <1>2, <1>3 DEF InTransaction

LEMMA BeginUpdateFacts ==
  ASSUME Types, NEW r \in Requests, BeginUpdate(r)
  PROVE  LET q == req[r]
             p == req'[r]
         IN  /\ req' \in [Requests -> Request]
             /\ InTransaction' = InTransaction \union {r}
             /\ r \notin InTransaction
             /\ UNCHANGED <<device, met>>
             /\ p.key = q.key /\ p.fid = q.fid
             /\ p.todo = Rivals(q.key, q.fid, q.found)
             /\ p.locked = {}
             /\ \A s \in Requests \ {r} : req'[s] = req[s]
<1> DEFINE q == req[r]
           rivals == Rivals(q.key, q.fid, q.found)
           began == [pc |-> "write", key |-> q.key, fid |-> q.fid,
                     todo |-> rivals, locked |-> {}, beside |-> {}]
<1>1. /\ q.pc = "save" /\ r \notin InTransaction
      /\ q.key \in Rows /\ q.fid \in Fids \union {NoFid}
      /\ Goto(r, began) /\ UNCHANGED <<device, met>>
  BY SavingFields DEF Types, BeginUpdate, InTransaction
<1>2. began \in Request
  <2>1. rivals \in SUBSET Rows /\ {} \in SUBSET Rows
    BY DEF Rivals
  <2> HIDE DEF rivals
  <2> QED
    BY <1>1, <2>1 DEF Request, Writing
<1>3. /\ began.pc = "write" /\ began.key = q.key /\ began.fid = q.fid
      /\ began.todo = rivals /\ began.locked = {}
  OBVIOUS
<1> HIDE DEF began, rivals, q
<1>4. /\ req' \in [Requests -> Request]
      /\ req'[r] = began
      /\ \A s \in Requests \ {r} : req'[s] = req[s]
  BY <1>1, <1>2, GotoFacts
<1>5. InTransaction' = InTransaction \union {r}
  BY <1>3, <1>4 DEF InTransaction
<1> QED
  BY <1>1, <1>3, <1>4, <1>5 DEF rivals, q

\* The rows that the recheck lets through.
Qualifies(r, l) == l \in Rivals(req[r].key, req[r].fid, FALSE)

LEMMA DeactivateRivalFacts ==
  ASSUME Types, NEW r \in Requests, NEW l \in Rows, DeactivateRival(r, l)
  PROVE  LET q == req[r]
             p == req'[r]
         IN  /\ req' \in [Requests -> Request]
             /\ InTransaction' = InTransaction /\ r \in InTransaction
             /\ UNCHANGED <<device, met>>
             /\ ~Locked(l)
             /\ p.key = q.key /\ p.fid = q.fid /\ p.beside = q.beside
             /\ p.todo = q.todo \ {l}
             /\ p.locked = q.locked
                   \union (IF Qualifies(r, l) THEN {l} ELSE {})
             /\ \A s \in Requests \ {r} : req'[s] = req[s]
<1> DEFINE q == req[r]
           taken == {l} \intersect Rivals(q.key, q.fid, FALSE)
           next == [q EXCEPT !.todo = @ \ {l}, !.locked = @ \union taken]
<1>1. /\ q.pc = "write" /\ r \in InTransaction /\ ~Locked(l)
      /\ Goto(r, next) /\ UNCHANGED <<device, met>>
  BY DEF DeactivateRival, InTransaction
<1>2. q \in Writing
  BY <1>1, WritingFields DEF Types
<1>3. taken \in SUBSET Rows
        /\ taken = IF Qualifies(r, l) THEN {l} ELSE {}
  BY DEF Qualifies
<1> HIDE DEF taken
<1>4. /\ next \in Writing /\ next.pc = "write"
      /\ next.key = q.key /\ next.fid = q.fid /\ next.beside = q.beside
      /\ next.todo = q.todo \ {l} /\ next.locked = q.locked \union taken
  BY <1>2, <1>3 DEF Writing
<1>5. next \in Request
  BY <1>4 DEF Request
<1> HIDE DEF next, q
<1>6. /\ req' \in [Requests -> Request]
      /\ req'[r] = next
      /\ \A s \in Requests \ {r} : req'[s] = req[s]
  BY <1>1, <1>5, GotoFacts
<1>7. InTransaction' = InTransaction
  BY <1>1, <1>4, <1>6 DEF InTransaction
<1> QED
  BY <1>1, <1>3, <1>4, <1>6, <1>7 DEF q

LEMMA UpsertFacts ==
  ASSUME Types, LocksHold, NEW r \in Requests, Upsert(r)
  PROVE  LET q == req[r]
         IN  /\ r \in InTransaction
             /\ q.key \in Rows /\ q.beside \subseteq Rows /\ q.todo = {}
             /\ req' \in [Requests -> Request]
             /\ InTransaction' = InTransaction \ {r}
             /\ \A s \in InTransaction \ {r} :
                  /\ req'[s].key = req[s].key /\ req'[s].fid = req[s].fid
                  /\ req'[s].todo = req[s].todo
                  /\ req'[s].locked = req[s].locked
                  /\ req'[s].beside = req[s].beside \union {q.key}
             /\ \A s \in InTransaction \ {r} : q.key \notin req[s].locked
             /\ device' \in [Rows -> Device \union {NoRow}]
             /\ device'[q.key] = [fid |-> q.fid, active |-> TRUE]
             /\ \A k \in Rows \ {q.key} :
                  device'[k] = IF k \in q.locked THEN Deactivated(device[k])
                               ELSE device[k]
             /\ Committed(r, q)
<1> DEFINE q == req[r]
           saved == [fid |-> q.fid, active |-> TRUE]
           joined(s) == [req[s] EXCEPT !.beside = @ \union {q.key}]
<1>1. /\ r \in InTransaction /\ q.todo = {}
      /\ q.key \in Rows /\ q.fid \in Fids \union {NoFid}
      /\ q.beside \subseteq Rows
  BY WritingFields DEF Upsert, InTransaction, Types
<1>2. /\ Committed(r, q)
      /\ device' = [k \in Rows |->
                      IF k = q.key THEN saved
                      ELSE IF k \in q.locked THEN Deactivated(device[k])
                      ELSE device[k]]
      /\ \A s \in Requests : ~Waits(r, s)
  BY DEF Upsert
<1>3. \A s \in InTransaction \ {r} : q.key \notin req[s].locked
  BY <1>1, <1>2 DEF Waits, Wanted, InTransaction
<1>4. saved \in Device
  BY <1>1 DEF Device
<1>5. ASSUME NEW k \in Rows, k \in q.locked
      PROVE  Deactivated(device[k]) \in Device
  <2>1. device[k] \in Device
    BY <1>1, <1>5 DEF LocksHold, LocksOf, Active, Types
  <2> QED
    BY <2>1, DeactivatedFacts
<1> HIDE DEF saved
<1>6. device' \in [Rows -> Device \union {NoRow}]
  BY <1>2, <1>4, <1>5 DEF Types
<1>7. ASSUME NEW s \in InTransaction
      PROVE  /\ joined(s) \in Request
             /\ joined(s).pc = "write" /\ joined(s).key = req[s].key
             /\ joined(s).fid = req[s].fid /\ joined(s).todo = req[s].todo
             /\ joined(s).locked = req[s].locked
             /\ joined(s).beside = req[s].beside \union {q.key}
  <2>1. req[s] \in Writing
    BY WritingFields DEF Types, InTransaction
  <2> QED
    BY <1>1, <2>1 DEF Request, Writing
<1>8. [pc |-> "idle"] \in Request
  BY DEF Request, Idle
<1>9. req' = [s \in Requests |->
               IF s = r THEN [pc |-> "idle"]
               ELSE IF s \in InTransaction THEN joined(s) ELSE req[s]]
  BY <1>2 DEF Committed
<1> HIDE DEF joined
<1>10. /\ req' \in [Requests -> Request]
       /\ req'[r].pc = "idle"
       /\ \A s \in InTransaction \ {r} : req'[s] = joined(s)
       /\ \A s \in Requests \ InTransaction : s # r => req'[s] = req[s]
  BY <1>7, <1>8, <1>9 DEF Types, InTransaction
<1>11. InTransaction' = InTransaction \ {r}
  BY <1>7, <1>10 DEF InTransaction
<1> HIDE DEF q
<1> QED
  BY <1>1, <1>2, <1>3, <1>6, <1>7, <1>10, <1>11 DEF saved, q

LEMMA DeactivateFacts ==
  ASSUME Types, NEW k \in Rows, Deactivate(k)
  PROVE  /\ UNCHANGED req /\ ~Locked(k)
         /\ device' \in [Rows -> Device \union {NoRow}]
         /\ device'[k].active = FALSE /\ device'[k] # NoRow
         /\ \A l \in Rows \ {k} : device'[l] = device[l]
         /\ met' = {p \in met : k \notin p}
<1>1. device[k] \in Device
  BY DEF Deactivate, Types
<1>2. /\ Deactivated(device[k]) \in Device
      /\ Deactivated(device[k]).active = FALSE
  BY <1>1, DeactivatedFacts
<1>3. /\ UNCHANGED req /\ ~Locked(k)
      /\ device' = [device EXCEPT ![k] = Deactivated(device[k])]
      /\ met' = {p \in met : k \notin p}
  BY DEF Deactivate
<1> QED
  BY <1>2, <1>3, DevicesAssumption DEF Types

(***************************************************************************)
(* The invariant.  An active rival of the row that a save will make active *)
(* is one of those its UPDATE has still to take, or has locked, or it was  *)
(* saved since the UPDATE began.                                           *)
(***************************************************************************)
RivalOf(l, k, fid) ==
  l[2] = k[2] \/ (fid # NoFid /\ device[l].fid = fid)

RivalsOf(r) ==
  \A l \in Rows :
    /\ Active(l) /\ l # req[r].key
    /\ RivalOf(l, req[r].key, req[r].fid)
    => l \in req[r].todo \union req[r].locked \union req[r].beside
RivalsKnown == \A r \in InTransaction : RivalsOf(r)

DevicesInv == Types /\ LocksHold /\ RivalsKnown /\ ActiveIsExclusive

(***************************************************************************)
(* Steps that write no row and begin no transaction preserve it.           *)
(***************************************************************************)
LEMMA QuietStep ==
  ASSUME DevicesInv, req' \in [Requests -> Request],
         InTransaction' \subseteq InTransaction,
         \A s \in InTransaction' : req'[s] = req[s],
         UNCHANGED <<device, met>>
  PROVE  DevicesInv'
<1>1. Types'
  BY DEF DevicesInv, Types
<1>2. LocksHold'
  BY DEF DevicesInv, LocksHold, LocksOf, Active
<1>3. RivalsKnown'
  BY DEF DevicesInv, RivalsKnown, RivalsOf, RivalOf, Active
<1>4. ActiveIsExclusive'
  BY DEF DevicesInv, ActiveIsExclusive, Rivalry, Active
<1> QED
  BY <1>1, <1>2, <1>3, <1>4 DEF DevicesInv

LEMMA BeginStep ==
  ASSUME DevicesInv, NEW r \in Requests, BeginUpdate(r)
  PROVE  DevicesInv'
<1> DEFINE q == req[r]
<1>0. Types
  BY DEF DevicesInv
<1>1. /\ req' \in [Requests -> Request]
      /\ InTransaction' = InTransaction \union {r}
      /\ r \notin InTransaction
      /\ UNCHANGED <<device, met>>
      /\ req'[r].key = q.key /\ req'[r].fid = q.fid
      /\ req'[r].todo = Rivals(q.key, q.fid, q.found)
      /\ req'[r].locked = {}
      /\ \A s \in Requests \ {r} : req'[s] = req[s]
  BY <1>0, BeginUpdateFacts
<1> HIDE DEF q
<1>2. Types'
  BY <1>1 DEF DevicesInv, Types
<1>3. InTransaction \subseteq Requests
  BY DEF InTransaction
<1>4. LocksHold'
  BY <1>1, <1>3 DEF DevicesInv, LocksHold, LocksOf, Active
<1>5. RivalsKnown'
  <2>1. RivalsOf(r)'
    BY <1>1 DEF RivalsOf, RivalOf, Rivals, Active
  <2>2. ASSUME NEW s \in InTransaction
        PROVE  RivalsOf(s)'
    BY <1>1, <1>3 DEF DevicesInv, RivalsKnown, RivalsOf, RivalOf, Active
  <2> QED
    BY <1>1, <2>1, <2>2 DEF RivalsKnown
<1>6. ActiveIsExclusive'
  BY <1>1 DEF DevicesInv, ActiveIsExclusive, Rivalry, Active
<1> QED
  BY <1>2, <1>4, <1>5, <1>6 DEF DevicesInv

LEMMA TakeStep ==
  ASSUME DevicesInv, NEW r \in Requests, NEW l \in Rows,
         DeactivateRival(r, l)
  PROVE  DevicesInv'
<1> DEFINE q == req[r]
<1>0. Types
  BY DEF DevicesInv
<1>1. /\ req' \in [Requests -> Request]
      /\ InTransaction' = InTransaction /\ r \in InTransaction
      /\ UNCHANGED <<device, met>>
      /\ ~Locked(l)
      /\ req'[r].key = q.key /\ req'[r].fid = q.fid
      /\ req'[r].beside = q.beside
      /\ req'[r].todo = q.todo \ {l}
      /\ req'[r].locked = q.locked
            \union (IF Qualifies(r, l) THEN {l} ELSE {})
      /\ \A s \in Requests \ {r} : req'[s] = req[s]
  BY <1>0, DeactivateRivalFacts
<1>2. InTransaction \subseteq Requests
  BY DEF InTransaction
<1>3. Qualifies(r, l) <=> Active(l) /\ RivalOf(l, q.key, q.fid)
  BY DEF Qualifies, Rivals, RivalOf
<1>4. Types'
  BY <1>1 DEF DevicesInv, Types
<1>5. LocksHold'
  <2>1. \A s \in InTransaction : l \notin req[s].locked
    BY <1>1 DEF Locked
  <2>2. \A s \in InTransaction \ {r} : req'[s] = req[s]
    BY <1>1, <1>2
  <2>3. LocksOf(r)'
    BY <1>1, <1>3, <2>1, <2>2 DEF DevicesInv, LocksHold, LocksOf, Active
  <2>4. ASSUME NEW s \in InTransaction \ {r}
        PROVE  LocksOf(s)'
    BY <1>1, <2>1, <2>2 DEF DevicesInv, LocksHold, LocksOf, Active
  <2> QED
    BY <1>1, <2>3, <2>4 DEF LocksHold
<1>6. RivalsKnown'
  <2>1. RivalsOf(r)'
    BY <1>1, <1>3 DEF DevicesInv, RivalsKnown, RivalsOf, RivalOf, Active
  <2>2. ASSUME NEW s \in InTransaction \ {r}
        PROVE  RivalsOf(s)'
    BY <1>1, <1>2 DEF DevicesInv, RivalsKnown, RivalsOf, RivalOf, Active
  <2> QED
    BY <1>1, <2>1, <2>2 DEF RivalsKnown
<1>7. ActiveIsExclusive'
  BY <1>1 DEF DevicesInv, ActiveIsExclusive, Rivalry, Active
<1> QED
  BY <1>4, <1>5, <1>6, <1>7 DEF DevicesInv

LEMMA SaveStep ==
  ASSUME DevicesInv, NEW r \in Requests, Upsert(r)
  PROVE  DevicesInv'
<1> DEFINE q == req[r]
<1>0. Types /\ LocksHold
  BY DEF DevicesInv
<1>1. /\ r \in InTransaction
      /\ q.key \in Rows /\ q.beside \subseteq Rows /\ q.todo = {}
      /\ req' \in [Requests -> Request]
      /\ InTransaction' = InTransaction \ {r}
      /\ \A s \in InTransaction \ {r} :
           /\ req'[s].key = req[s].key /\ req'[s].fid = req[s].fid
           /\ req'[s].todo = req[s].todo
           /\ req'[s].locked = req[s].locked
           /\ req'[s].beside = req[s].beside \union {q.key}
      /\ \A s \in InTransaction \ {r} : q.key \notin req[s].locked
      /\ device' \in [Rows -> Device \union {NoRow}]
      /\ device'[q.key] = [fid |-> q.fid, active |-> TRUE]
      /\ \A k \in Rows \ {q.key} :
           device'[k] = IF k \in q.locked THEN Deactivated(device[k])
                        ELSE device[k]
      /\ Committed(r, q)
  BY <1>0, UpsertFacts
<1>2. \A s \in InTransaction : req[s].locked \subseteq Rows
  BY <1>0, WritingFields DEF Types, InTransaction
<1>3. InTransaction \subseteq Requests
  BY DEF InTransaction
<1> HIDE DEF q
\* Nothing but the saved row becomes active, or gets another fid.
<1>4. ASSUME NEW k \in Rows, k # q.key, Active(k)'
      PROVE  Active(k) /\ device'[k] = device[k] /\ k \notin q.locked
  <2>1. CASE k \in q.locked
    <3>1. device[k] \in Device
      BY <1>0, <1>1, <2>1 DEF LocksHold, LocksOf, Active, Types, q
    <3>2. device'[k].active = FALSE
      BY <1>1, <1>4, <2>1, <3>1, DeactivatedFacts
    <3> QED
      BY <1>4, <3>2 DEF Active
  <2>2. CASE k \notin q.locked
    BY <1>1, <1>4, <2>2 DEF Active
  <2> QED
    BY <2>1, <2>2
<1>5. met' = {p \in {m \in met : q.key \notin m}
                      \union {{q.key, l} : l \in q.beside \ {q.key}} :
                \A k, l \in p : Active(k)' /\ Rivalry(k, l)'}
  BY <1>1 DEF Committed
<1>6. Types'
  <2>1. met' \subseteq SUBSET Rows
    BY <1>0, <1>1, <1>5 DEF Types
  <2> QED
    BY <1>1, <2>1 DEF Types
<1>7. LocksHold'
  <2> SUFFICES ASSUME NEW s \in InTransaction \ {r} PROVE LocksOf(s)'
    BY <1>1 DEF LocksHold
  <2>1. req'[s].locked = req[s].locked
    BY <1>1
  <2>2. ASSUME NEW l \in req[s].locked
        PROVE  Active(l)'
    <3>1. /\ l \in Rows /\ l # q.key /\ l \notin q.locked
          /\ Active(l)
      BY <1>0, <1>1, <1>2, <2>2 DEF LocksHold, LocksOf, q
    <3> QED
      BY <1>1, <3>1 DEF Active
  <2>3. ASSUME NEW l \in req[s].locked, NEW p \in InTransaction' \ {s}
        PROVE  l \notin req'[p].locked
    BY <1>0, <1>1, <1>3, <2>3 DEF LocksHold, LocksOf
  <2> QED
    BY <2>1, <2>2, <2>3 DEF LocksOf
<1>8. RivalsKnown'
  <2> SUFFICES ASSUME NEW s \in InTransaction \ {r}, NEW l \in Rows,
                      Active(l)', l # req[s].key,
                      RivalOf(l, req[s].key, req[s].fid)'
               PROVE  l \in req'[s].todo \union req'[s].locked
                              \union req'[s].beside
    BY <1>1 DEF RivalsKnown, RivalsOf, RivalOf
  <2>1. CASE l = q.key
    BY <1>1, <2>1
  <2>2. CASE l # q.key
    <3>1. Active(l) /\ device'[l] = device[l]
      BY <1>4, <2>2
    <3>2. RivalOf(l, req[s].key, req[s].fid)
      BY <1>1, <1>3, <3>1 DEF RivalOf
    <3> QED
      BY <1>1, <3>1, <3>2 DEF DevicesInv, RivalsKnown, RivalsOf
  <2> QED
    BY <2>1, <2>2
<1>9. ASSUME NEW k \in Rows, k = q.key,
              NEW l \in Rows, l # k, Active(l)', Rivalry(k, l)'
       PROVE  {k, l} \in met'
  <2>1. Active(l) /\ device'[l] = device[l] /\ l \notin q.locked
    BY <1>4, <1>9
  <2>2. RivalOf(l, k, q.fid)
    BY <1>1, <1>9, <2>1 DEF Rivalry, RivalOf
  <2>3. l \in q.beside
    BY <1>1, <1>9, <2>1, <2>2 DEF DevicesInv, RivalsKnown, RivalsOf, q
  <2>4. Active(k)'
    <3>1. q.fid \in Fids \union {NoFid}
      BY <1>0, <1>1, WritingFields DEF Types, InTransaction, q
    <3>2. [fid |-> q.fid, active |-> TRUE] \in Device
      BY <3>1 DEF Device
    <3> QED
      BY <1>1, <1>9, <3>2, DevicesAssumption DEF Active
  <2>5. \A a, b \in {k, l} : Active(a)' /\ Rivalry(a, b)'
    BY <1>9, <2>4 DEF Rivalry
  <2>6. {k, l} \in {{q.key, o} : o \in q.beside \ {q.key}}
    BY <1>9, <2>3
  <2> QED
    BY <1>5, <2>5, <2>6
<1>10. ActiveIsExclusive'
  <2> SUFFICES ASSUME NEW k \in Rows, NEW l \in Rows, k # l,
                      Active(k)', Active(l)', Rivalry(k, l)'
               PROVE  {k, l} \in met'
    BY DEF ActiveIsExclusive, Rivalry, Active
  <2>1. CASE k = q.key
    BY <1>9, <2>1
  <2>2. CASE l = q.key
    <3>1. Rivalry(l, k)'
      BY DEF Rivalry
    <3> QED
      BY <1>9, <2>2, <3>1
  <2>3. CASE k # q.key /\ l # q.key
    <3>1. /\ Active(k) /\ device'[k] = device[k]
          /\ Active(l) /\ device'[l] = device[l]
      BY <1>4, <2>3
    <3>2. {k, l} \in met
      BY <3>1 DEF DevicesInv, ActiveIsExclusive, Rivalry
    <3>3. \A a, b \in {k, l} : Active(a)' /\ Rivalry(a, b)'
      BY DEF Rivalry
    <3> QED
      BY <1>5, <2>3, <3>2, <3>3
  <2> QED
    BY <2>1, <2>2, <2>3
<1> QED
  BY <1>6, <1>7, <1>8, <1>10 DEF DevicesInv

LEMMA DeactivateStep ==
  ASSUME DevicesInv, NEW k \in Rows, Deactivate(k)
  PROVE  DevicesInv'
<1>1. /\ UNCHANGED req /\ ~Locked(k)
      /\ device' \in [Rows -> Device \union {NoRow}]
      /\ device'[k].active = FALSE /\ device'[k] # NoRow
      /\ \A l \in Rows \ {k} : device'[l] = device[l]
      /\ met' = {p \in met : k \notin p}
  BY DeactivateFacts DEF DevicesInv
<1>2. InTransaction' = InTransaction
  BY <1>1 DEF InTransaction
<1>3. \A r \in InTransaction : req[r].locked \subseteq Rows
  BY WritingFields DEF DevicesInv, Types, InTransaction
<1>4. \A l \in Rows : Active(l)' => l # k /\ Active(l)
  BY <1>1 DEF Active
<1>5. Types'
  BY <1>1 DEF DevicesInv, Types
<1>6. LocksHold'
  BY <1>1, <1>2, <1>3 DEF DevicesInv, LocksHold, LocksOf, Locked, Active
<1>7. RivalsKnown'
  BY <1>1, <1>2, <1>4 DEF DevicesInv, RivalsKnown, RivalsOf, RivalOf
<1>8. ActiveIsExclusive'
  BY <1>1, <1>4 DEF DevicesInv, ActiveIsExclusive, Rivalry
<1> QED
  BY <1>5, <1>6, <1>7, <1>8 DEF DevicesInv

LEMMA DevicesInvStep == DevicesInv /\ [Next]_vars => DevicesInv'
<1> SUFFICES ASSUME DevicesInv, [Next]_vars PROVE DevicesInv'
  OBVIOUS
<1>0. Types
  BY DEF DevicesInv
<1>1. CASE UNCHANGED vars
  BY <1>0, <1>1, QuietStep DEF vars, Types, InTransaction
<1>2. ASSUME NEW r \in Requests, NEW k \in Rows,
             NEW fid \in Fids \union {NoFid}, Register(r, k, fid)
      PROVE  DevicesInv'
  <2>1. /\ req' \in [Requests -> Request]
        /\ \A q \in Requests \ {r} : req'[q] = req[q]
        /\ InTransaction' = InTransaction /\ r \notin InTransaction
        /\ UNCHANGED <<device, met>>
    BY <1>0, <1>2, RegisterFacts
  <2>2. \A s \in InTransaction' : req'[s] = req[s]
    BY <2>1 DEF InTransaction
  <2> QED
    BY <2>1, <2>2, QuietStep
<1>3. ASSUME NEW r \in Requests, AbortDeadlocked(r) \/ Fail(r)
      PROVE  DevicesInv'
  <2>1. Done(r) /\ UNCHANGED <<device, met>>
    BY <1>3 DEF AbortDeadlocked, Fail
  <2>2. /\ req' \in [Requests -> Request]
        /\ \A q \in Requests \ {r} : req'[q] = req[q]
        /\ InTransaction' = InTransaction \ {r}
    BY <1>0, <2>1, DoneFacts
  <2>3. \A s \in InTransaction' : req'[s] = req[s]
    BY <2>2 DEF InTransaction
  <2> QED
    BY <2>1, <2>2, <2>3, QuietStep
<1>4. ASSUME NEW r \in Requests, Step(r)
      PROVE  DevicesInv'
  BY <1>2, <1>3, <1>4, BeginStep, TakeStep, SaveStep
     DEF Step, DeactivateRivals
<1> QED
  BY <1>1, <1>4, DeactivateStep DEF Next

LEMMA DevicesInvAlways == Spec => []DevicesInv
<1>1. Init => DevicesInv
  <2> SUFFICES ASSUME Init PROVE DevicesInv
    OBVIOUS
  <2>1. InTransaction = {} /\ \A k \in Rows : ~Active(k)
    BY DEF Init, InTransaction, Active
  <2>2. Types
    BY DEF Init, Types, Request, Idle
  <2> QED
    BY <2>1, <2>2 DEF DevicesInv, LocksHold, RivalsKnown,
                      ActiveIsExclusive
<1> QED
  BY <1>1, DevicesInvStep, PTL DEF Spec

\* Every reachable state is well typed, and the row locks mean what they
\* say: a row that a save has changed is nobody else's until the save ends.
THEOREM DevicesTypeCorrect == Spec => []TypeOK
<1>1. DevicesInv => TypeOK
  BY TypeParts DEF DevicesInv
<1> QED
  BY <1>1, DevicesInvAlways, PTL

\* One active row for a client device and for a push token, but for rows
\* whose last saves were in flight together.
THEOREM ExclusiveUnlessTogether == Spec => []ActiveIsExclusive
<1>1. DevicesInv => ActiveIsExclusive
  BY DEF DevicesInv
<1> QED
  BY <1>1, DevicesInvAlways, PTL
=============================================================================
