--------------------------- MODULE AccountsSafety ---------------------------
(***************************************************************************)
(* The safety properties of Accounts as theorems, for any number of users, *)
(* requests and tokens.  Each rests on an invariant about what requests in *)
(* flight remember: a property of the tables alone is not inductive.       *)
(* First sessions and their rotation, and that they implement              *)
(* SessionStore; then what a status change achieves, and when a whole-row  *)
(* update loses another request's change.                                  *)
(***************************************************************************)
EXTENDS AccountsProofs, SequenceTheorems

-----------------------------------------------------------------------------
(* Sessions belong to proven addresses. *)

(***************************************************************************)
(* A row says "verified" or carries a googleId only for a proven address,  *)
(* in the table and in every copy a request is about to write; a request   *)
(* that is about to save a session works for a proven address.             *)
(***************************************************************************)
RowProven(u, k) == k.verified \/ k.google # NoSub => u \in proven
RowsProven == \A u \in Users : Exists(u) => RowProven(u, row[u])
RequestProven(q) ==
  /\ q.pc \in {"save", "verify", "link", "googleEmail", "googleCreate"} =>
       q.user \in proven
  /\ q.pc \in {"register", "googleCreate", "verify", "link", "reset"} =>
       RowProven(q.user, q.new)
RequestsProven == \A r \in Requests : RequestProven(req[r])
ProvenInv == SessionsAreProven /\ RowsProven /\ RequestsProven

LEMMA NewRowProven ==
  ASSUME NEW p, NEW n
  PROVE  /\ NewRow(p, NoSub, n).verified = FALSE
         /\ NewRow(p, NoSub, n).google = NoSub
BY DEF NewRow

LEMMA ProvenStep ==
  TypeInv /\ RowRefs /\ ProvenInv /\ [Next]_vars => ProvenInv'
<1> SUFFICES ASSUME TypeInv, RowRefs, ProvenInv, [Next]_vars
             PROVE  ProvenInv'
  OBVIOUS
<1>0. /\ TypeOK
      /\ Len(tokens) \in Nat
  BY TokenTypes DEF TypeInv
<1>1. proven \subseteq proven'
  BY ProvenGrows
<1>2. SessionsAreProven'
  <2>1. CASE TokensKept
    <3>1. \A t \in Issued : tokens'[t].owner \in proven'
      <4>1. \A t \in Issued : tokens'[t].owner = tokens[t].owner
        BY <2>1 DEF TokensKept
      <4>2. \A t \in Issued : tokens[t].owner \in proven
        BY DEF ProvenInv, SessionsAreProven
      <4> QED BY <4>1, <4>2, <1>1
    <3> QED BY <2>1, <3>1, IssuedKept DEF SessionsAreProven
  <2>a. ASSUME Len(tokens') = Len(tokens) + 1,
               \A t \in Issued : tokens'[t] = tokens[t],
               tokens'[Len(tokens) + 1].owner \in proven
        PROVE  SessionsAreProven'
    <3>1. \A t \in Issued : tokens'[t].owner \in proven'
      BY <2>a, <1>1 DEF ProvenInv, SessionsAreProven
    <3>2. \A t \in Issued' : tokens'[t].owner \in proven'
      BY <2>a, <3>1, <1>0, <1>1, IssuedGrows
    <3> QED BY <3>2 DEF SessionsAreProven
  <2>2. ASSUME NEW r \in Requests, SaveSession(r)
        PROVE  SessionsAreProven'
    <3>1. req[r].user \in proven
      BY <2>2 DEF SaveSession, ProvenInv, RequestsProven, RequestProven
    <3>2. tokens'[Len(tokens) + 1].owner = req[r].user
      <4>1. tokens'[Len(tokens) + 1] =
              [owner |-> req[r].user, parent |-> req[r].parent,
               revoked |-> FALSE, expired |-> FALSE,
               checked |-> req[r].checked, read |-> req[r].read,
               found |-> req[r].found]
        BY <2>2, SaveAppends
      <4> QED BY <4>1
    <3> QED BY <2>a, <2>2, <3>1, <3>2, SaveAppends
  <2>3. ASSUME NEW r \in Requests, GoogleCreate(r)
        PROVE  SessionsAreProven'
    <3>1. req[r].user \in proven
      BY <2>3 DEF GoogleCreate, ProvenInv, RequestsProven, RequestProven
    <3>2. tokens'[Len(tokens) + 1].owner = req[r].user
      <4>1. tokens'[Len(tokens) + 1] =
              [owner |-> req[r].user, parent |-> 0,
               revoked |-> FALSE, expired |-> FALSE,
               checked |-> TRUE, read |-> version[req[r].user] + 1,
               found |-> 0]
        BY <2>3, CreateAppends
      <4> QED BY <4>1
    <3> QED BY <2>a, <2>3, <3>1, <3>2, CreateAppends
  <2> QED BY <2>1, <2>2, <2>3, OnlySavesAppend
<1>3. RowsProven'
  <2>1. ASSUME NEW u \in Users, NEW new \in Row, WriteRow(u, new),
               RowProven(u, new)
        PROVE  RowsProven'
    BY <2>1, <1>0, <1>1, WriteRowFacts
       DEF RowsProven, RowProven, ProvenInv, Exists
  <2>2. ASSUME NEW r \in Requests,
               RegisterCreate(r) \/ GoogleCreate(r) \/ UpdateRow(r)
        PROVE  RowsProven'
    <3>1. /\ req[r].user \in Users /\ req[r].new \in Row
          /\ RowProven(req[r].user, req[r].new)
      BY <2>2, <1>0, RequestFields
         DEF RegisterCreate, GoogleCreate, UpdateRow, TypeOK, ProvenInv,
             RequestsProven, RequestProven
    <3> QED BY <2>1, <2>2, <3>1 DEF RegisterCreate, GoogleCreate, UpdateRow
  <2>3. ASSUME NEW r \in Requests, WriteProfile(r)
        PROVE  RowsProven'
    <3> DEFINE u == req[r].user
    <3>1. /\ u \in Users /\ req[r].name \in Names
          /\ Exists(u) /\ row[u] \in Row
      BY <2>3, <1>0, RequestFields
         DEF WriteProfile, TypeOK, RowRefs, Exists
    <3>2. RowProven(u, Renamed(row[u], req[r].name))
      BY <3>1, RenamedFacts DEF ProvenInv, RowsProven, RowProven
    <3> QED BY <2>1, <2>3, <3>1, <3>2, RenamedFacts DEF WriteProfile
  <2>4. ASSUME NEW r \in Requests, CommitStatus(r)
        PROVE  RowsProven'
    <3> DEFINE u == req[r].user
    <3>1. /\ u \in Users /\ req[r].status \in Status
          /\ Exists(u) /\ row[u] \in Row
      BY <2>4, <1>0, RequestFields
         DEF CommitStatus, TypeOK, RowRefs, Exists
    <3>2. RowProven(u, Restatused(row[u], req[r].status))
      BY <3>1, RestatusedFacts DEF ProvenInv, RowsProven, RowProven
    <3> QED BY <2>1, <2>4, <3>1, <3>2, RestatusedFacts DEF CommitStatus
  <2>5. CASE UNCHANGED row
    BY <2>5, <1>1 DEF ProvenInv, RowsProven, RowProven, Exists
  <2> QED
    BY <2>2, <2>3, <2>4, <2>5, RowWriters
<1>4. RequestsProven'
  <2>a. ASSUME NEW r \in Requests, NEW next, Goto(r, next),
               RequestProven(next)'
        PROVE  RequestsProven'
    BY <2>a, <1>0, <1>1
       DEF Goto, TypeOK, ProvenInv, RequestsProven, RequestProven, RowProven
  <2>b. ASSUME NEW r \in Requests, NEW next, Goto(r, next),
               next.pc \in {"idle", "refreshUser", "refreshRevoke",
                            "profile", "status", "commit"}
        PROVE  RequestsProven'
    BY <2>b, <2>a DEF RequestProven
  <2>c. ASSUME NEW r \in Requests, Done(r)
        PROVE  RequestsProven'
    BY <2>c, <2>b DEF Done
  <2>d. ASSUME UNCHANGED req
        PROVE  RequestsProven'
    BY <2>d, <1>1 DEF ProvenInv, RequestsProven, RequestProven, RowProven
  <2>1. ASSUME NEW r \in Requests, NEW u \in Users, NEW p \in Passwords,
             NEW n \in Names,
               Register(r, u, p, n)
        PROVE  RequestsProven'
    BY <2>1, <2>a, NewRowProven
       DEF Register, RequestProven, RowProven
  <2>2. ASSUME NEW r \in Requests,
               RegisterCreate(r)
        PROVE  RequestsProven'
    BY <2>2, <2>c DEF RegisterCreate
  <2>3. ASSUME NEW r \in Requests, NEW u \in Users,
               Login(r, u)
        PROVE  RequestsProven'
    <3>1. row[u].verified /\ u \in proven'
      BY <2>3, <1>1 DEF Login, MayLogin, Active, ProvenInv, RowsProven,
                        RowProven
    <3> QED BY <2>3, <3>1, <2>a DEF Login, NewSession, RequestProven
  <2>4. ASSUME NEW r \in Requests,
               SaveSession(r)
        PROVE  RequestsProven'
    BY <2>4, <2>c DEF SaveSession
  <2>5. ASSUME NEW r \in Requests, NEW u \in Users,
               VerifyEmail(r, u)
        PROVE  RequestsProven'
    <3>1. u \in proven'
      BY <2>5 DEF VerifyEmail
    <3> QED BY <2>5, <3>1, <2>a DEF VerifyEmail, RequestProven, RowProven
  <2>6. ASSUME NEW r \in Requests, NEW s \in Subs, NEW e \in Users,
               GoogleById(r, s, e)
        PROVE  RequestsProven'
    <3>1. PICK u \in Users : /\ Active(u) /\ row[u].google = s
                             /\ Goto(r, NewSession(u, TRUE, version[u]))
      BY <2>6 DEF GoogleById
    <3>2. u \in proven'
      BY <3>1, <1>1, AccountsAssumption
         DEF Active, ProvenInv, RowsProven, RowProven
    <3> QED BY <3>1, <3>2, <2>a DEF NewSession, RequestProven
  <2>7. ASSUME NEW r \in Requests, NEW s \in Subs, NEW e \in Users,
               GoogleUnknown(r, s, e)
        PROVE  RequestsProven'
    <3>1. e \in proven'
      BY <2>7 DEF GoogleUnknown
    <3> QED BY <2>7, <3>1, <2>a DEF GoogleUnknown, RequestProven
  <2>8. ASSUME NEW r \in Requests,
               GoogleByEmail(r)
        PROVE  RequestsProven'
    <3>1. req[r].user \in proven'
      BY <2>8, <1>1 DEF GoogleByEmail, ProvenInv, RequestsProven,
                        RequestProven
    <3> QED BY <2>8, <3>1, <2>a DEF GoogleByEmail, RequestProven, RowProven
  <2>9. ASSUME NEW r \in Requests,
               GoogleCreate(r)
        PROVE  RequestsProven'
    BY <2>9, <2>c DEF GoogleCreate
  <2>10. ASSUME NEW u \in Users,
               VerifyForgotPassword(u)
        PROVE  RequestsProven'
    BY <2>10, <2>d DEF VerifyForgotPassword
  <2>11. ASSUME NEW r \in Requests, NEW u \in Users, NEW p \in Passwords,
               ResetPassword(r, u, p)
        PROVE  RequestsProven'
    <3>1. row[u] \in Row /\ RowProven(u, row[u])
      BY <2>11, <1>0 DEF ResetPassword, Exists, TypeOK, ProvenInv, RowsProven
    <3>2. RowProven(u, Rekeyed(row[u], p))'
      BY <2>11, <3>1, RekeyedFacts DEF ResetPassword, RowProven
    <3> QED BY <2>11, <3>2, <2>a DEF ResetPassword, RequestProven
  <2>12. ASSUME NEW u \in Users,
               TempExpires(u)
        PROVE  RequestsProven'
    BY <2>12, <2>d DEF TempExpires
  <2>13. ASSUME NEW r \in Requests,
               UpdateRow(r)
        PROVE  RequestsProven'
    <3>1. CASE req[r].pc = "reset"
      BY <2>13, <3>1, <2>c DEF UpdateRow
    <3>2. CASE req[r].pc # "reset"
      <4>1. req[r].user \in proven'
        BY <2>13, <3>2, <1>1 DEF UpdateRow, ProvenInv, RequestsProven,
                                RequestProven
      <4> QED BY <2>13, <3>2, <4>1, <2>a DEF UpdateRow, NewSession,
                                            RequestProven
    <3> QED BY <3>1, <3>2
  <2>14. ASSUME NEW r \in Requests, NEW t \in Issued,
               RefreshFind(r, t)
        PROVE  RequestsProven'
    BY <2>14, <2>b DEF RefreshFind
  <2>15. ASSUME NEW r \in Requests,
               RefreshUser(r)
        PROVE  RequestsProven'
    BY <2>15, <2>b DEF RefreshUser
  <2>16. ASSUME NEW r \in Requests,
               RefreshRevoke(r)
        PROVE  RequestsProven'
    <3>1. /\ req[r].token \in Issued
          /\ tokens[req[r].token].owner \in proven'
      BY <2>16, <1>1 DEF RefreshRevoke, TypeInv, TokenRefs, ProvenInv,
                        SessionsAreProven
    <3> QED BY <2>16, <3>1, <2>a DEF RefreshRevoke, RequestProven
  <2>17. ASSUME NEW t \in Issued,
               Logout(t)
        PROVE  RequestsProven'
    BY <2>17, <2>d DEF Logout
  <2>18. ASSUME NEW t \in Issued,
               TokenExpires(t)
        PROVE  RequestsProven'
    BY <2>18, <2>d DEF TokenExpires
  <2>19. ASSUME NEW r \in Requests, NEW u \in Users, NEW n \in Names,
               UpdateProfile(r, u, n)
        PROVE  RequestsProven'
    BY <2>19, <2>b DEF UpdateProfile
  <2>20. ASSUME NEW r \in Requests,
               WriteProfile(r)
        PROVE  RequestsProven'
    BY <2>20, <2>c DEF WriteProfile
  <2>21. ASSUME NEW r \in Requests, NEW u \in Users, NEW s \in Status,
               UpdateStatus(r, u, s)
        PROVE  RequestsProven'
    BY <2>21, <2>b DEF UpdateStatus
  <2>22. ASSUME NEW r \in Requests,
               BeginStatus(r)
        PROVE  RequestsProven'
    BY <2>22, <2>b DEF BeginStatus
  <2>23. ASSUME NEW r \in Requests,
               CommitStatus(r)
        PROVE  RequestsProven'
    BY <2>23, <2>c DEF CommitStatus
  <2>24. ASSUME NEW r \in Requests,
               Fail(r)
        PROVE  RequestsProven'
    BY <2>24, <2>c DEF Fail
  <2>25. CASE UNCHANGED vars
    BY <2>25, <2>d DEF vars
  <2> QED
    BY <2>1, <2>2, <2>3, <2>4, <2>5, <2>6, <2>7, <2>8, <2>9, <2>10, <2>11,
       <2>12, <2>13, <2>14, <2>15, <2>16, <2>17, <2>18, <2>19, <2>20, <2>21,
       <2>22, <2>23, <2>24, <2>25
    DEF Next, Step
<1> QED BY <1>2, <1>3, <1>4 DEF ProvenInv

LEMMA ProvenInvariant == Spec => []ProvenInv
<1>1. Init => ProvenInv
  BY DEF Init, ProvenInv, SessionsAreProven, RowsProven, RequestsProven,
         RequestProven, Exists, Issued
<1>2. TypeInv /\ RowRefs /\ ProvenInv /\ [Next]_vars => ProvenInv'
  BY ProvenStep
<1> QED BY <1>1, <1>2, BaseInv, PTL DEF Spec

\* No session for an address nobody has proven to own: an invariant of the
\* account component for every number of concurrent requests.
THEOREM SessionsProven == Spec => []SessionsAreProven
BY ProvenInvariant, PTL DEF ProvenInv

-----------------------------------------------------------------------------
(* Rotation revokes the old token before its successor exists, and only *)
(* overlapping refreshes can give a token two successors. *)

(***************************************************************************)
(* Request q is past the look-up of token p and works on its successor.    *)
(***************************************************************************)
Rotates(q, p) ==
  \/ q.pc \in {"refreshUser", "refreshRevoke"} /\ q.token = p
  \/ q.pc = "save" /\ q.parent = p

(***************************************************************************)
(* When q looked p up, p was valid and so had no successor: every one that *)
(* it has by now was saved later.  A request that is about to save a       *)
(* successor has revoked p.                                                *)
(***************************************************************************)
Fresh(q, p) ==
  /\ q.found <= Len(tokens)
  /\ \A s \in Issued : tokens[s].parent = p => q.found < s
  /\ q.pc = "save" => tokens[p].revoked

RotationsFresh ==
  \A r \in Requests : \A p \in Issued : Rotates(req[r], p) => Fresh(req[r], p)

ParentsIssued == \A t \in Issued : tokens[t].parent \in Issued \union {0}

RotationInv ==
  ParentsIssued /\ RotatedIsRevoked /\ NoReplayAfterRotation /\ RotationsFresh

(***************************************************************************)
(* The steps after which a request is rotating a token: the three of a     *)
(* refresh, and those that do not concern the request.                     *)
(***************************************************************************)
LEMMA RotationWriters ==
  ASSUME TypeInv, [Next]_vars, NEW q \in Requests
  PROVE  \/ req'[q] = req[q]
         \/ req'[q].pc \notin {"refreshUser", "refreshRevoke", "save"}
         \/ req'[q].pc = "save" /\ req'[q].parent = 0
         \/ \E t \in Issued : RefreshFind(q, t)
         \/ RefreshUser(q) \/ RefreshRevoke(q)
<1> DEFINE Other == \/ req'[q] = req[q]
                    \/ req'[q].pc \notin {"refreshUser", "refreshRevoke",
                                          "save"}
                    \/ req'[q].pc = "save" /\ req'[q].parent = 0
<1>0. req \in [Requests -> Request]
  BY DEF TypeInv, TypeOK
<1>a. ASSUME NEW r \in Requests, NEW next, Goto(r, next),
             \/ next.pc \notin {"refreshUser", "refreshRevoke", "save"}
             \/ next.pc = "save" /\ next.parent = 0
      PROVE  Other
  BY <1>0, <1>a DEF Goto
<1>b. ASSUME NEW r \in Requests, Done(r)
      PROVE  Other
  BY <1>a, <1>b DEF Done
<1>c. ASSUME NEW r \in Requests, NEW next, Goto(r, next), r # q
      PROVE  Other
  BY <1>0, <1>c DEF Goto
<1>d. ASSUME UNCHANGED req
      PROVE  Other
  BY <1>d
<1>e. ASSUME NEW r \in Requests, NEW u, NEW c, NEW v,
             Goto(r, NewSession(u, c, v))
      PROVE  Other
  BY <1>a, <1>e DEF NewSession
<1> HIDE DEF Other
<1>1. ASSUME NEW r \in Requests, NEW u \in Users,
             Login(r, u) \/ VerifyEmail(r, u)
      PROVE  Other
  BY <1>1, <1>a, <1>e DEF Login, VerifyEmail
<1>2. ASSUME NEW r \in Requests, NEW u \in Users, NEW p \in Passwords,
             \/ ResetPassword(r, u, p)
             \/ \E n \in Names : Register(r, u, p, n)
      PROVE  Other
  BY <1>2, <1>a DEF ResetPassword, Register
<1>3. ASSUME NEW r \in Requests, NEW u \in Users, NEW s \in Subs,
             GoogleById(r, s, u) \/ GoogleUnknown(r, s, u)
      PROVE  Other
  BY <1>3, <1>a, <1>e DEF GoogleById, GoogleUnknown
<1>4. ASSUME NEW r \in Requests, NEW u \in Users,
             \/ \E n \in Names : UpdateProfile(r, u, n)
             \/ \E s \in Status : UpdateStatus(r, u, s)
      PROVE  Other
  BY <1>4, <1>a DEF UpdateProfile, UpdateStatus
<1>5. ASSUME NEW r \in Requests,
             \/ RegisterCreate(r) \/ SaveSession(r) \/ GoogleCreate(r)
             \/ WriteProfile(r) \/ CommitStatus(r) \/ Fail(r)
      PROVE  Other
  BY <1>5, <1>b DEF RegisterCreate, SaveSession, GoogleCreate, WriteProfile,
                    CommitStatus, Fail
<1>6. ASSUME NEW r \in Requests, GoogleByEmail(r) \/ BeginStatus(r)
      PROVE  Other
  BY <1>6, <1>a DEF GoogleByEmail, BeginStatus
<1>7. ASSUME NEW r \in Requests, UpdateRow(r)
      PROVE  Other
  BY <1>7, <1>b, <1>e DEF UpdateRow
<1>8. ASSUME NEW r \in Requests,
             \/ \E t \in Issued : RefreshFind(r, t)
             \/ RefreshUser(r) \/ RefreshRevoke(r)
      PROVE  Other \/ r = q
  BY <1>8, <1>c DEF RefreshFind, RefreshUser, RefreshRevoke
<1>9. ASSUME \/ \E u \in Users : VerifyForgotPassword(u) \/ TempExpires(u)
             \/ \E t \in Issued : Logout(t) \/ TokenExpires(t)
             \/ UNCHANGED vars
      PROVE  Other
  BY <1>9, <1>d DEF VerifyForgotPassword, TempExpires, Logout, TokenExpires,
                    vars
<1>10. ASSUME NEW r \in Requests, Step(r)
       PROVE  \/ Other
              \/ \E t \in Issued : RefreshFind(q, t)
              \/ RefreshUser(q) \/ RefreshRevoke(q)
  BY <1>10, <1>1, <1>2, <1>3, <1>4, <1>5, <1>6, <1>7, <1>8 DEF Step
<1> QED BY <1>9, <1>10 DEF Next, Other

(***************************************************************************)
(* What every step does to the table as far as rotation is concerned: old  *)
(* entries keep their parent and their "found" and stay revoked, and at    *)
(* most one entry is new.                                                  *)
(***************************************************************************)
OldKept ==
  \A t \in Issued : /\ tokens'[t].parent = tokens[t].parent
                    /\ tokens'[t].found = tokens[t].found
                    /\ tokens[t].revoked => tokens'[t].revoked

Appended(parent, found) ==
  /\ OldKept
  /\ Len(tokens') = Len(tokens) + 1
  /\ tokens'[Len(tokens) + 1].parent = parent
  /\ tokens'[Len(tokens) + 1].found = found

LEMMA TableSteps ==
  ASSUME TypeInv, [Next]_vars
  PROVE  \/ Len(tokens') = Len(tokens) /\ OldKept
         \/ Appended(0, 0)
         \/ \E r \in Requests : /\ req[r].pc = "save"
                                /\ Appended(req[r].parent, req[r].found)
<1>1. ASSUME TokensKept
      PROVE  Len(tokens') = Len(tokens) /\ OldKept
  BY <1>1 DEF TokensKept, OldKept
<1>2. ASSUME NEW r \in Requests, GoogleCreate(r)
      PROVE  Appended(0, 0)
  <2>1. /\ Len(tokens') = Len(tokens) + 1
        /\ \A t \in Issued : tokens'[t] = tokens[t]
        /\ tokens'[Len(tokens) + 1] =
             [owner |-> req[r].user, parent |-> 0,
              revoked |-> FALSE, expired |-> FALSE,
              checked |-> TRUE, read |-> version[req[r].user] + 1,
              found |-> 0]
    BY <1>2, CreateAppends
  <2>2. /\ tokens'[Len(tokens) + 1].parent = 0
        /\ tokens'[Len(tokens) + 1].found = 0
    BY <2>1
  <2> QED BY <2>1, <2>2 DEF Appended, OldKept
<1>3. ASSUME NEW r \in Requests, SaveSession(r)
      PROVE  req[r].pc = "save" /\ Appended(req[r].parent, req[r].found)
  <2>1. /\ req[r].pc = "save"
        /\ Len(tokens') = Len(tokens) + 1
        /\ \A t \in Issued : tokens'[t] = tokens[t]
        /\ tokens'[Len(tokens) + 1] =
             [owner |-> req[r].user, parent |-> req[r].parent,
              revoked |-> FALSE, expired |-> FALSE,
              checked |-> req[r].checked, read |-> req[r].read,
              found |-> req[r].found]
    BY <1>3, SaveAppends
  <2>2. /\ tokens'[Len(tokens) + 1].parent = req[r].parent
        /\ tokens'[Len(tokens) + 1].found = req[r].found
    BY <2>1
  <2> QED BY <2>1, <2>2 DEF Appended, OldKept
<1> QED BY <1>1, <1>2, <1>3, OnlySavesAppend

(***************************************************************************)
(* Both facts about the table survive an update of its entries, and the    *)
(* append of a session without a parent or of a fresh successor.           *)
(***************************************************************************)
TableInv == ParentsIssued /\ RotatedIsRevoked /\ NoReplayAfterRotation

LEMMA TableKept ==
  ASSUME TypeInv, TableInv, Len(tokens') = Len(tokens), OldKept
  PROVE  TableInv'
<1>1. Issued' = Issued
  BY DEF Issued
<1>2. ParentsIssued'
  BY <1>1 DEF TableInv, ParentsIssued, OldKept
<1>3. RotatedIsRevoked'
  BY <1>1 DEF TableInv, ParentsIssued, RotatedIsRevoked, OldKept
<1>4. NoReplayAfterRotation'
  BY <1>1 DEF TableInv, NoReplayAfterRotation, OldKept
<1> QED BY <1>2, <1>3, <1>4 DEF TableInv

LEMMA TableAppended ==
  ASSUME TypeInv, TableInv, NEW p \in Issued \union {0}, NEW f \in Nat,
         Appended(p, f),
         p # 0 => /\ tokens[p].revoked
                  /\ \A s \in Issued : tokens[s].parent = p => f < s
  PROVE  TableInv'
<1> DEFINE n == Len(tokens) + 1
<1>1. /\ Len(tokens) \in Nat
      /\ Len(tokens') = n
      /\ OldKept
      /\ tokens'[n].parent = p /\ tokens'[n].found = f
      /\ \A t \in Issued : tokens[t].parent \in Nat
  BY TokenTypes DEF Appended
<1>2. /\ \A t \in Issued' : t \in Issued \/ t = n
      /\ \A t \in Issued : t \in Issued' /\ t # 0 /\ t < n
      /\ n \in Issued'
  BY <1>1 DEF Issued
<1> HIDE DEF n
<1>3. ParentsIssued'
  BY <1>1, <1>2 DEF TableInv, ParentsIssued, OldKept
<1>4. RotatedIsRevoked'
  BY <1>1, <1>2 DEF TableInv, ParentsIssued, RotatedIsRevoked, OldKept
<1>5. NoReplayAfterRotation'
  <2> SUFFICES ASSUME NEW s \in Issued', NEW t \in Issued',
                      tokens'[s].parent = tokens'[t].parent,
                      tokens'[s].parent # 0, s < t
               PROVE  tokens'[t].found < s
    BY DEF NoReplayAfterRotation
  <2>1. s \in Issued
    BY <1>1, <1>2, n \in Nat DEF Issued, n
  <2>2. CASE t \in Issued
    BY <2>1, <2>2, <1>1 DEF TableInv, NoReplayAfterRotation, OldKept
  <2>3. CASE t = n
    BY <2>1, <2>3, <1>1 DEF OldKept
  <2> QED BY <2>2, <2>3, <1>2
<1> QED BY <1>3, <1>4, <1>5 DEF TableInv

LEMMA TableStep ==
  ASSUME TypeInv, RotationInv, [Next]_vars
  PROVE  TableInv'
<1>0. TableInv
  BY DEF RotationInv, TableInv
<1>1. CASE Len(tokens') = Len(tokens) /\ OldKept
  BY <1>0, <1>1, TableKept
<1>2. CASE Appended(0, 0)
  BY <1>0, <1>2, TableAppended
<1>3. ASSUME NEW r \in Requests, req[r].pc = "save",
             Appended(req[r].parent, req[r].found)
      PROVE  TableInv'
  <2>1. req[r].parent \in Issued \union {0}
    BY <1>3 DEF TypeInv, TokenRefs
  <2>2. req[r].found \in Nat
    BY <1>3, RequestFields DEF TypeInv, TypeOK
  <2>3. ASSUME req[r].parent # 0
        PROVE  /\ tokens[req[r].parent].revoked
               /\ \A s \in Issued : tokens[s].parent = req[r].parent =>
                                      req[r].found < s
    BY <1>3, <2>1, <2>3 DEF RotationInv, RotationsFresh, Rotates, Fresh
  <2> QED BY <1>0, <1>3, <2>1, <2>2, <2>3, TableAppended
<1> QED BY <1>1, <1>2, <1>3, TableSteps

(***************************************************************************)
(* A request that keeps rotating p stays fresh: entries that are new were  *)
(* saved after its look-up.                                                *)
(***************************************************************************)
LEMMA FreshKept ==
  ASSUME TypeInv, [Next]_vars,
         NEW q \in Requests, NEW p \in Issued,
         Rotates(req[q], p), Fresh(req[q], p)
  PROVE  /\ req[q].found <= Len(tokens')
         /\ \A s \in Issued' : tokens'[s].parent = p => req[q].found < s
         /\ tokens[p].revoked => tokens'[p].revoked
<1>1. /\ Len(tokens) \in Nat
      /\ req[q].found \in Nat
  BY TokenTypes, RequestFields DEF Rotates, TypeInv, TypeOK
<1>2. OldKept /\ Len(tokens') \in {Len(tokens), Len(tokens) + 1}
  BY TableSteps DEF Appended
<1>3. ASSUME NEW s \in Issued', tokens'[s].parent = p
      PROVE  req[q].found < s
  <2>1. s \in Issued \/ s = Len(tokens) + 1
    BY <1>1, <1>2 DEF Issued
  <2>2. CASE s \in Issued
    BY <2>2, <1>2, <1>3 DEF Fresh, OldKept
  <2>3. CASE s = Len(tokens) + 1
    BY <2>3, <1>1 DEF Fresh
  <2> QED BY <2>1, <2>2, <2>3
<1> QED BY <1>1, <1>2, <1>3 DEF Fresh, OldKept

LEMMA RotationsStep ==
  ASSUME TypeInv, RotationInv, [Next]_vars
  PROVE  RotationsFresh'
<1> SUFFICES ASSUME NEW q \in Requests, NEW p \in Issued',
                    Rotates(req'[q], p)
             PROVE  Fresh(req[q], p)'
  BY DEF RotationsFresh, Rotates
<1>0. /\ Len(tokens) \in Nat
      /\ req \in [Requests -> Request]
      /\ p # 0
      /\ \A r \in Requests : /\ req[r].pc \in {"refreshUser", "refreshRevoke"}
                                  => req[r].token \in Issued
                             /\ req[r].pc = "save"
                                  => req[r].parent \in Issued \union {0}
  BY TokenTypes DEF TypeInv, TypeOK, TokenRefs, Issued
<1>1. CASE req'[q] = req[q]
  <2>1. Rotates(req[q], p) /\ p \in Issued
    BY <1>0, <1>1 DEF Rotates
  <2>2. Fresh(req[q], p)
    BY <2>1 DEF RotationInv, RotationsFresh
  <2> QED BY <1>1, <2>1, <2>2, FreshKept DEF Fresh
<1>2. CASE req'[q].pc \notin {"refreshUser", "refreshRevoke", "save"}
  BY <1>2 DEF Rotates
<1>3. CASE req'[q].pc = "save" /\ req'[q].parent = 0
  BY <1>0, <1>3 DEF Rotates
<1>4. ASSUME NEW t \in Issued, RefreshFind(q, t)
      PROVE  Fresh(req[q], p)'
  <2>1. /\ req'[q] = [pc |-> "refreshUser", token |-> t,
                      found |-> Len(tokens)]
        /\ tokens' = tokens
        /\ ~tokens[t].revoked
    BY <1>0, <1>4 DEF RefreshFind, Goto, IsValid
  <2>2. /\ req'[q].pc = "refreshUser" /\ req'[q].token = t
        /\ req'[q].found = Len(tokens)
    BY <2>1
  <2>3. p = t /\ t # 0
    BY <1>0, <2>2 DEF Rotates
  <2>4. \A s \in Issued : tokens[s].parent # p
    BY <2>1, <2>3 DEF RotationInv, RotatedIsRevoked
  <2> QED BY <1>0, <2>1, <2>2, <2>4 DEF Fresh, Issued
<1>5. ASSUME RefreshUser(q)
      PROVE  Fresh(req[q], p)'
  <2>1. /\ req[q].pc = "refreshUser"
        /\ req'[q].pc = "refreshRevoke" /\ req'[q].token = req[q].token
        /\ req'[q].found = req[q].found
        /\ tokens' = tokens
    BY <1>0, <1>5 DEF RefreshUser, Goto
  <2>2. Rotates(req[q], p) /\ p \in Issued
    BY <1>0, <2>1 DEF Rotates
  <2>3. Fresh(req[q], p)
    BY <2>2 DEF RotationInv, RotationsFresh
  <2> QED BY <2>1, <2>2, <2>3, FreshKept DEF Fresh
<1>6. ASSUME RefreshRevoke(q)
      PROVE  Fresh(req[q], p)'
  <2>1. /\ req[q].pc = "refreshRevoke"
        /\ req'[q].pc = "save" /\ req'[q].parent = req[q].token
        /\ req'[q].found = req[q].found
        /\ RevokeTokens({req[q].token})
    BY <1>0, <1>6 DEF RefreshRevoke, Goto
  <2>2. Rotates(req[q], p) /\ p \in Issued /\ p = req[q].token
    BY <1>0, <2>1 DEF Rotates
  <2>3. Fresh(req[q], p)
    BY <2>2 DEF RotationInv, RotationsFresh
  <2>4. tokens'[p].revoked
    BY <2>1, <2>2, RevokeKeeps
  <2> QED BY <2>1, <2>2, <2>3, <2>4, FreshKept DEF Fresh
<1> QED BY <1>1, <1>2, <1>3, <1>4, <1>5, <1>6, RotationWriters

LEMMA RotationInvariant == Spec => []RotationInv
<1>1. Init => RotationInv
  BY DEF Init, RotationInv, ParentsIssued, RotatedIsRevoked,
         NoReplayAfterRotation, RotationsFresh, Rotates, Issued
<1>2. TypeInv /\ RowRefs /\ RotationInv /\ [Next]_vars => RotationInv'
  BY TableStep, RotationsStep DEF RotationInv, TableInv
<1> QED BY <1>1, <1>2, BaseInv, PTL DEF Spec

\* A token that has a successor is revoked: there is no moment, and no crash,
\* that leaves the old and the new session of one refresh both usable.
THEOREM RotationRevokes == Spec => []RotatedIsRevoked
BY RotationInvariant, PTL DEF RotationInv

\* Two successors of one token come only from refreshes that overlapped: a
\* token that is replayed after its rotation is refused.
THEOREM ReplayRefused == Spec => []NoReplayAfterRotation
BY RotationInvariant, PTL DEF RotationInv

-----------------------------------------------------------------------------
(* The session table of Accounts implements the one of SessionStore. *)

(***************************************************************************)
(* The refinement mapping: an entry of the abstract table for every token. *)
(***************************************************************************)
Entry(k) == [owner |-> k.owner, parent |-> k.parent, open |-> ~k.revoked]
Mapped == [t \in Issued |-> Entry(tokens[t])]
Entries == [owner : Users, parent : Nat, open : BOOLEAN]

LEMMA EntryType == ASSUME NEW k \in Token PROVE Entry(k) \in Entries
BY DEF Entry, Entries, Token

LEMMA MappedFacts ==
  ASSUME TypeInv
  PROVE  /\ Mapped \in Seq(Entries)
         /\ Len(Mapped) = Len(tokens)
         /\ DOMAIN Mapped = Issued
         /\ \A t \in Issued : Mapped[t] = Entry(tokens[t])
<1>1. \A t \in Issued : Entry(tokens[t]) \in Entries
  BY TokenTypes, EntryType
<1>2. Len(tokens) \in Nat
  BY TokenTypes
<1> QED BY <1>1, <1>2 DEF Mapped, Issued

LEMMA MappedStutter ==
  ASSUME TypeInv, Len(tokens') = Len(tokens),
         \A t \in Issued : Entry(tokens'[t]) = Entry(tokens[t])
  PROVE  Mapped' = Mapped
BY DEF Mapped, Issued

\* A new token is a new entry at the end of the abstract table.
LEMMA MappedAppend ==
  ASSUME TypeInv, TypeInv', NEW e \in Entries,
         Len(tokens') = Len(tokens) + 1,
         \A t \in Issued : tokens'[t] = tokens[t],
         Entry(tokens'[Len(tokens) + 1]) = e
  PROVE  Mapped' = Append(Mapped, e)
<1>1. /\ Mapped \in Seq(Entries)
      /\ Len(Mapped) = Len(tokens)
      /\ \A t \in Issued : Mapped[t] = Entry(tokens[t])
      /\ Len(tokens) \in Nat
  BY MappedFacts, TokenTypes
<1>2. /\ Mapped' \in Seq(Entries)
      /\ Len(Mapped') = Len(tokens')
      /\ \A t \in Issued' : Mapped'[t] = Entry(tokens'[t])
  <2>1. tokens' \in Seq(Token)
    BY DEF TypeInv, TypeOK
  <2>2. \A t \in Issued' : Entry(tokens'[t]) \in Entries
    BY <2>1, EntryType DEF Issued
  <2> QED BY <2>1, <2>2 DEF Mapped, Issued
<1>3. /\ Append(Mapped, e) \in Seq(Entries)
      /\ Len(Append(Mapped, e)) = Len(Mapped')
      /\ \A t \in 1..Len(Mapped') : Append(Mapped, e)[t] = Mapped'[t]
  BY <1>1, <1>2 DEF Issued
<1> QED BY <1>2, <1>3, SeqEqual

\* Revoking tokens closes their entries.
LEMMA MappedRevoke ==
  ASSUME TypeInv, NEW S, RevokeTokens(S)
  PROVE  Mapped' = [t \in DOMAIN Mapped |->
                      IF t \in S THEN [Mapped[t] EXCEPT !.open = FALSE]
                                 ELSE Mapped[t]]
<1>1. /\ Len(tokens') = Len(tokens)
      /\ \A t \in Issued :
           tokens'[t] = IF t \in S THEN Revoked(tokens[t]) ELSE tokens[t]
  BY RevokeFacts DEF TypeInv
<1>2. \A t \in Issued : tokens[t] \in Token
  BY TokenTypes
<1>3. ASSUME NEW t \in Issued
      PROVE  Entry(tokens'[t]) =
               IF t \in S THEN [Entry(tokens[t]) EXCEPT !.open = FALSE]
                          ELSE Entry(tokens[t])
  <2>1. CASE t \in S
    <3>1. /\ tokens'[t].owner = tokens[t].owner
          /\ tokens'[t].parent = tokens[t].parent
          /\ tokens'[t].revoked = TRUE
      BY <1>1, <1>2, <2>1, RevokedFacts
    <3> QED BY <2>1, <3>1 DEF Entry
  <2>2. CASE t \notin S
    BY <1>1, <2>2
  <2> QED BY <2>1, <2>2
<1>4. /\ DOMAIN Mapped = Issued
      /\ \A t \in Issued : Mapped[t] = Entry(tokens[t])
  BY MappedFacts
<1>5. Mapped' = [t \in Issued |-> Entry(tokens'[t])]
  BY <1>1 DEF Mapped, Issued
<1> QED BY <1>3, <1>4, <1>5

-----------------------------------------------------------------------------
(***************************************************************************)
(* A request about to save a successor works for the owner of the token it *)
(* has revoked.                                                            *)
(***************************************************************************)
SameOwner ==
  \A r \in Requests :
    req[r].pc = "save" /\ req[r].parent # 0 =>
      req[r].user = tokens[req[r].parent].owner

LEMMA SameOwnerStep ==
  ASSUME TypeInv, SameOwner, [Next]_vars
  PROVE  SameOwner'
<1> SUFFICES ASSUME NEW q \in Requests,
                    req'[q].pc = "save", req'[q].parent # 0
             PROVE  req'[q].user = tokens'[req'[q].parent].owner
  BY DEF SameOwner
<1>0. /\ req \in [Requests -> Request]
      /\ \A t \in Issued : tokens'[t].owner = tokens[t].owner
  BY OwnersKept DEF TypeInv, TypeOK
<1>1. CASE req'[q] = req[q]
  BY <1>0, <1>1 DEF SameOwner, TypeInv, TokenRefs
<1>2. CASE RefreshRevoke(q)
  <2>1. /\ req'[q] = [pc |-> "save", user |-> tokens[req[q].token].owner,
                      parent |-> req[q].token, found |-> req[q].found,
                      checked |-> TRUE, read |-> req[q].read]
        /\ req[q].token \in Issued
    BY <1>0, <1>2 DEF RefreshRevoke, Goto, TypeInv, TokenRefs
  <2> QED BY <1>0, <2>1
<1>3. ASSUME NEW t \in Issued, RefreshFind(q, t)
      PROVE  FALSE
  <2>1. req'[q].pc = "refreshUser"
    BY <1>0, <1>3 DEF RefreshFind, Goto
  <2> QED BY <2>1
<1>4. CASE RefreshUser(q)
  <2>1. req'[q].pc = "refreshRevoke"
    BY <1>0, <1>4 DEF RefreshUser, Goto
  <2> QED BY <2>1
<1> QED BY <1>1, <1>2, <1>3, <1>4, RotationWriters

LEMMA SameOwnerInvariant == Spec => []SameOwner
<1>1. Init => SameOwner
  BY DEF Init, SameOwner
<1>2. TypeInv /\ SameOwner /\ [Next]_vars => SameOwner'
  BY SameOwnerStep
<1> QED BY <1>1, <1>2, BaseInv, PTL DEF Spec

-----------------------------------------------------------------------------
(* Every step is a step of the session table, or a stutter. *)

\* The steps that confirm an address, and the rest that leave proven alone.
LEMMA ProvenWriters ==
  ASSUME [Next]_vars
  PROVE  \/ proven' = proven
         \/ UNCHANGED tokens /\ \E u \in Users : proven' = proven \union {u}
<1>1. CASE UNCHANGED vars
  BY <1>1 DEF vars
<1>2. ASSUME NEW r \in Requests, Step(r)
      PROVE  \/ proven' = proven
             \/ /\ UNCHANGED tokens
                /\ \E u \in Users : proven' = proven \union {u}
  <2>1. ASSUME NEW u \in Users,
               \/ VerifyEmail(r, u)
               \/ \E s \in Subs : GoogleById(r, s, u) \/ GoogleUnknown(r, s, u)
        PROVE  UNCHANGED tokens /\ proven' = proven \union {u}
    BY <2>1 DEF VerifyEmail, GoogleById, GoogleUnknown
  <2> QED BY <1>2, <2>1 DEF Step, Register, RegisterCreate, Login,
       SaveSession, GoogleByEmail, GoogleCreate, ResetPassword, UpdateRow,
       RefreshFind, RefreshUser, RefreshRevoke, UpdateProfile, WriteProfile,
       UpdateStatus, BeginStatus, CommitStatus, Fail
<1>3. ASSUME NEW u \in Users, VerifyForgotPassword(u) \/ TempExpires(u)
      PROVE  \/ proven' = proven
             \/ UNCHANGED tokens /\ proven' = proven \union {u}
  BY <1>3 DEF VerifyForgotPassword, TempExpires
<1>4. ASSUME NEW t \in Issued, Logout(t) \/ TokenExpires(t)
      PROVE  proven' = proven
  BY <1>4 DEF Logout, TokenExpires
<1> QED BY <1>1, <1>2, <1>3, <1>4 DEF Next

(***************************************************************************)
(* The actions of the abstract table, over the refinement mapping.         *)
(***************************************************************************)
LEMMA StoreActions ==
  ASSUME TypeInv
  PROVE  /\ \A u \in Users :
              /\ proven' = proven \union {u} /\ Mapped' = Mapped
              => Sessions!Next
         /\ \A u \in proven \intersect Users :
              /\ proven' = proven
              /\ Mapped' = Append(Mapped, [owner |-> u, parent |-> 0,
                                           open |-> TRUE])
              => Sessions!Next
         /\ \A t \in Issued :
              /\ proven' = proven
              /\ tokens[t].revoked
              /\ Mapped' = Append(Mapped, [owner |-> tokens[t].owner,
                                           parent |-> t, open |-> TRUE])
              => Sessions!Next
         /\ \A u \in Users : \A S \in SUBSET Issued :
              /\ proven' = proven
              /\ \A t \in S : tokens[t].owner = u
              /\ RevokeTokens(S)
              => Sessions!Next
<1>0. /\ DOMAIN Mapped = Issued
      /\ \A t \in Issued : Mapped[t] = Entry(tokens[t])
  BY MappedFacts
<1>1. ASSUME NEW u \in Users, proven' = proven \union {u}, Mapped' = Mapped
      PROVE  Sessions!Next
  <2>1. Sessions!Prove(u)
    BY <1>1 DEF Sessions!Prove, Mapped, Entry
  <2> QED BY <2>1 DEF Sessions!Next
<1>2. ASSUME NEW u \in proven \intersect Users, proven' = proven,
             Mapped' = Append(Mapped, [owner |-> u, parent |-> 0,
                                       open |-> TRUE])
      PROVE  Sessions!Next
  <2>1. Sessions!Open(u)
    BY <1>2 DEF Sessions!Open, Mapped, Entry
  <2> QED BY <2>1 DEF Sessions!Next
<1>3. ASSUME NEW t \in Issued, proven' = proven, tokens[t].revoked,
             Mapped' = Append(Mapped, [owner |-> tokens[t].owner,
                                       parent |-> t, open |-> TRUE])
      PROVE  Sessions!Next
  <2>1. ~Mapped[t].open /\ Mapped[t].owner = tokens[t].owner
    <3>1. tokens[t].revoked = TRUE
      BY <1>3, TokenTypes
    <3>2. Mapped[t] = [owner |-> tokens[t].owner, parent |-> tokens[t].parent,
                       open |-> FALSE]
      BY <1>0, <3>1 DEF Entry
    <3> QED BY <3>2
  <2>2. Sessions!Rotate(t)
    BY <1>3, <2>1 DEF Sessions!Rotate, Mapped, Entry
  <2>3. t \in DOMAIN Mapped
    BY <1>0
  <2> QED BY <2>2, <2>3 DEF Sessions!Next, Mapped, Entry
<1>4. ASSUME NEW u \in Users, NEW S \in SUBSET Issued, proven' = proven,
             \A t \in S : tokens[t].owner = u,
             RevokeTokens(S)
      PROVE  Sessions!Next
  <2>1. \A t \in S : Mapped[t].owner = u
    BY <1>0, <1>4 DEF Entry
  <2>2. Mapped' = [t \in DOMAIN Mapped |->
                     IF t \in S THEN [Mapped[t] EXCEPT !.open = FALSE]
                                ELSE Mapped[t]]
    BY <1>4, MappedRevoke
  <2>3. Sessions!Close(u, S)
    BY <1>4, <2>1, <2>2 DEF Sessions!Close, Mapped, Entry
  <2>4. S \in SUBSET (DOMAIN Mapped)
    BY <1>0
  <2> QED BY <2>3, <2>4 DEF Sessions!Next, Mapped, Entry
<1> QED BY <1>1, <1>2, <1>3, <1>4

LEMMA StoreStep ==
  ASSUME TypeInv, TypeInv', ProvenInv, RotationInv, SameOwner, [Next]_vars
  PROVE  Sessions!Next \/ UNCHANGED <<Mapped, proven>>
<1>0. /\ TypeOK
      /\ \A t \in Issued : tokens[t] \in Token /\ tokens[t].owner \in Users
      /\ Len(tokens) \in Nat
  BY TokenTypes DEF TypeInv
<1>1. CASE UNCHANGED tokens
  <2>1. Mapped' = Mapped
    BY <1>0, <1>1, MappedStutter
  <2>2. proven' = proven \/ \E u \in Users : proven' = proven \union {u}
    BY ProvenWriters
  <2> QED BY <2>1, <2>2, StoreActions
<1>2. ASSUME NEW r \in Requests, SaveSession(r)
      PROVE  Sessions!Next
  <2> DEFINE u == req[r].user
             p == req[r].parent
  <2>1. /\ req[r].pc = "save"
        /\ u \in Users /\ p \in Nat
        /\ Len(tokens') = Len(tokens) + 1
        /\ \A t \in Issued : tokens'[t] = tokens[t]
        /\ tokens'[Len(tokens) + 1] =
             [owner |-> u, parent |-> p, revoked |-> FALSE,
              expired |-> FALSE, checked |-> req[r].checked,
              read |-> req[r].read, found |-> req[r].found]
        /\ proven' = proven
    BY <1>2, SaveAppends DEF SaveSession
  <2>2. Mapped' = Append(Mapped, [owner |-> u, parent |-> p, open |-> TRUE])
    <3>1. /\ tokens'[Len(tokens) + 1].owner = u
          /\ tokens'[Len(tokens) + 1].parent = p
          /\ tokens'[Len(tokens) + 1].revoked = FALSE
      BY <2>1
    <3>2. Entry(tokens'[Len(tokens) + 1]) =
            [owner |-> u, parent |-> p, open |-> TRUE]
      BY <3>1 DEF Entry
    <3>3. [owner |-> u, parent |-> p, open |-> TRUE] \in Entries
      BY <2>1 DEF Entries
    <3> QED BY <2>1, <3>2, <3>3, MappedAppend
  <2>3. CASE p = 0
    <3>1. u \in proven
      BY <2>1 DEF ProvenInv, RequestsProven, RequestProven
    <3> QED BY <2>1, <2>2, <2>3, <3>1, StoreActions
  <2>4. CASE p # 0
    <3>1. p \in Issued
      BY <2>1, <2>4 DEF TypeInv, TokenRefs
    <3>2. tokens[p].revoked
      BY <2>1, <3>1 DEF RotationInv, RotationsFresh, Rotates, Fresh
    <3>3. u = tokens[p].owner
      BY <2>1, <2>4 DEF SameOwner
    <3> QED BY <2>1, <2>2, <3>1, <3>2, <3>3, StoreActions
  <2> QED BY <2>3, <2>4
<1>3. ASSUME NEW r \in Requests, GoogleCreate(r)
      PROVE  Sessions!Next
  <2> DEFINE u == req[r].user
  <2>1. /\ req[r].pc = "googleCreate"
        /\ u \in Users
        /\ Len(tokens') = Len(tokens) + 1
        /\ \A t \in Issued : tokens'[t] = tokens[t]
        /\ tokens'[Len(tokens) + 1] =
             [owner |-> u, parent |-> 0, revoked |-> FALSE,
              expired |-> FALSE, checked |-> TRUE,
              read |-> version[u] + 1, found |-> 0]
        /\ proven' = proven
    BY <1>3, CreateAppends DEF GoogleCreate
  <2>2. Mapped' = Append(Mapped, [owner |-> u, parent |-> 0, open |-> TRUE])
    <3>1. /\ tokens'[Len(tokens) + 1].owner = u
          /\ tokens'[Len(tokens) + 1].parent = 0
          /\ tokens'[Len(tokens) + 1].revoked = FALSE
      BY <2>1
    <3>2. Entry(tokens'[Len(tokens) + 1]) =
            [owner |-> u, parent |-> 0, open |-> TRUE]
      BY <3>1 DEF Entry
    <3>3. [owner |-> u, parent |-> 0, open |-> TRUE] \in Entries
      BY <2>1 DEF Entries
    <3> QED BY <2>1, <3>2, <3>3, MappedAppend
  <2>3. u \in proven
    BY <2>1 DEF ProvenInv, RequestsProven, RequestProven
  <2> QED BY <2>1, <2>2, <2>3, StoreActions
<1>4. ASSUME NEW r \in Requests, RefreshRevoke(r)
      PROVE  Sessions!Next
  <2>1. /\ req[r].token \in Issued
        /\ RevokeTokens({req[r].token})
        /\ proven' = proven
    BY <1>4 DEF RefreshRevoke, TypeInv, TokenRefs
  <2>2. {req[r].token} \in SUBSET Issued
    BY <2>1
  <2> QED BY <1>0, <2>1, <2>2, StoreActions
<1>5. ASSUME NEW t \in Issued, Logout(t)
      PROVE  Sessions!Next
  <2>1. {t} \in SUBSET Issued /\ RevokeTokens({t}) /\ proven' = proven
    BY <1>5 DEF Logout
  <2> QED BY <1>0, <2>1, StoreActions
<1>6. ASSUME NEW r \in Requests, CommitStatus(r), ~UNCHANGED tokens
      PROVE  Sessions!Next
  <2> DEFINE u == req[r].user
             S == Covered(u, req[r].cut) \intersect Issued
  <2>1. /\ u \in Users
        /\ RevokeTokens(Covered(u, req[r].cut))
        /\ proven' = proven
    BY <1>0, <1>6, RequestFields DEF CommitStatus, TypeOK
  <2>2. RevokeTokens(S)
    BY <2>1 DEF RevokeTokens
  <2>3. S \in SUBSET Issued /\ \A t \in S : tokens[t].owner = u
    BY DEF Covered
  <2> QED BY <2>1, <2>2, <2>3, StoreActions
<1>7. ASSUME NEW t \in Issued, TokenExpires(t)
      PROVE  UNCHANGED <<Mapped, proven>>
  <2>1. /\ Len(tokens') = Len(tokens)
        /\ \A s \in Issued :
             tokens'[s] = IF s = t THEN Expired(tokens[s]) ELSE tokens[s]
    BY <1>0, <1>7, ExpireFacts
  <2>2. \A s \in Issued : Entry(tokens'[s]) = Entry(tokens[s])
    BY <1>0, <2>1, ExpiredFacts DEF Entry
  <2> QED BY <1>7, <2>1, <2>2, MappedStutter DEF TokenExpires
<1> QED BY <1>1, <1>2, <1>3, <1>4, <1>5, <1>6, <1>7, TokenWriters

\* Rows, races and failures implement the session table that knows none of
\* them: a session opens only for a proven address or in place of a closed
\* one of the same owner, and what is closed stays closed.
THEOREM SessionStoreImplemented == Spec => ImplementsSessionStore
<1>1. Init => Sessions!Init
  <2> SUFFICES ASSUME Init PROVE Sessions!Init
    OBVIOUS
  <2>1. TypeInv
    BY InitType
  <2>2. Mapped \in Seq(Entries) /\ Len(Mapped) = 0
    BY <2>1, MappedFacts DEF Init
  <2>3. Mapped = <<>>
    BY <2>2, EmptySeq, SeqEqual
  <2> QED BY <2>3 DEF Sessions!Init, Init, Mapped, Entry
<1>2. /\ TypeInv /\ TypeInv' /\ ProvenInv /\ RotationInv /\ SameOwner
      /\ [Next]_vars
      => [Sessions!Next]_<<Mapped, proven>>
  BY StoreStep
<1> QED BY <1>1, <1>2, BaseInv, ProvenInvariant, RotationInvariant,
           SameOwnerInvariant, PTL
        DEF Spec, ImplementsSessionStore, Sessions!Spec, Mapped, Entry

-----------------------------------------------------------------------------
(* Lost updates. *)

(***************************************************************************)
(* A copy is as old as the version that was read, and while the row is     *)
(* still at that version the copy differs from it only in the columns that *)
(* the request means to change.                                            *)
(***************************************************************************)
CopyIsFaithful(q) ==
  q.pc \in {"verify", "link", "reset"} =>
    /\ q.read <= version[q.user]
    /\ q.read = version[q.user] => KeepsOthers(q.pc, row[q.user], q.new)

CopiesFaithful == \A r \in Requests : CopyIsFaithful(req[r])

LEMMA CopiesStep ==
  ASSUME TypeInv, RowRefs, CreatedActive, CopiesFaithful, [Next]_vars
  PROVE  CopiesFaithful'
<1> SUFFICES ASSUME NEW q \in Requests,
                    req'[q].pc \in {"verify", "link", "reset"}
             PROVE  /\ req'[q].read <= version'[req'[q].user]
                    /\ req'[q].read = version'[req'[q].user] =>
                         KeepsOthers(req'[q].pc, row'[req'[q].user],
                                     req'[q].new)
  BY DEF CopiesFaithful, CopyIsFaithful, KeepsOthers
<1>1. CASE req'[q] = req[q]
  <2>1. /\ req[q].pc \in {"verify", "link", "reset"}
        /\ req[q].user \in Users /\ req[q].read \in Nat
        /\ version[req[q].user] \in Nat
        /\ CopyIsFaithful(req[q])
    BY <1>1, RequestFields DEF TypeInv, TypeOK, CopiesFaithful
  <2>2. SameRow(req[q].user) \/ NewVersion(req[q].user)
    BY <2>1, RowSteps
  <2> QED BY <1>1, <2>1, <2>2 DEF CopyIsFaithful, SameRow, NewVersion
<1>2. CASE Step(q)
  <2>1. RefreshUser(q) => req'[q].pc = "refreshRevoke"
    BY GotoIsOwn DEF RefreshUser, TypeInv
  <2>2. RefreshRevoke(q) => req'[q].pc = "save"
    BY GotoIsOwn DEF RefreshRevoke, TypeInv
  <2>3. BeginStatus(q) => req'[q].pc = "commit"
    BY GotoIsOwn DEF BeginStatus, TypeInv
  <2>4. RowsAsRead /\ Copies(req'[q])
    BY <1>2, <2>1, <2>2, <2>3, OwnOutcome DEF Prepares, Checks, Neutral
  <2>5. version[req'[q].user] \in Nat
    BY <2>4 DEF Copies, TypeInv, TypeOK
  <2> QED BY <2>4, <2>5 DEF RowsAsRead, Copies
<1> QED BY <1>1, <1>2, OwnStep DEF TypeInv

LEMMA CopiesInvariant == Spec => [](CreatedActive /\ CopiesFaithful)
<1>1. Init => CreatedActive /\ CopiesFaithful
  BY DEF Init, CreatedActive, CopiesFaithful, CopyIsFaithful
<1>2. TypeInv /\ RowRefs /\ CreatedActive /\ CopiesFaithful /\ [Next]_vars
        => (CreatedActive /\ CopiesFaithful)'
  BY CreatedActiveStep, CopiesStep
<1> QED BY <1>1, <1>2, BaseInv, PTL DEF Spec

\* The steps a request can take that is about to write a whole row.
LEMMA UpdatingSteps ==
  ASSUME NEW r \in Requests, Step(r),
         req[r].pc \in {"verify", "link", "reset"}
  PROVE  UpdateRow(r) \/ UNCHANGED row
BY DEF Step, Register, RegisterCreate, Login, SaveSession, VerifyEmail,
       GoogleById, GoogleUnknown, GoogleByEmail, GoogleCreate,
       ResetPassword, RefreshFind, RefreshUser, RefreshRevoke, UpdateProfile,
       WriteProfile, UpdateStatus, BeginStatus, CommitStatus, Fail

\* A verification, a link or a reset writes every column of the row, yet it
\* undoes a block, a reset, a verification, a link or a profile of another
\* request only if the row was written between its read and its write.
THEOREM LostUpdatesAreRaces == Spec => LostUpdateNeedsARace
<1> DEFINE Inv == TypeInv /\ RowRefs /\ CreatedActive /\ CopiesFaithful
           Safe == \A r \in Requests :
                     /\ req[r].pc \in {"verify", "link", "reset"}
                     /\ req'[r] # req[r]
                     /\ row' # row
                     /\ req[r].read = version[req[r].user]
                     => KeepsOthers(req[r].pc, row[req[r].user],
                                    row'[req[r].user])
<1>1. Inv /\ [Next]_vars => Safe
  <2> SUFFICES ASSUME Inv, [Next]_vars, NEW r \in Requests,
                      req[r].pc \in {"verify", "link", "reset"},
                      req'[r] # req[r], row' # row,
                      req[r].read = version[req[r].user]
               PROVE  KeepsOthers(req[r].pc, row[req[r].user],
                                  row'[req[r].user])
    OBVIOUS
  <2>1. UpdateRow(r)
    BY OwnStep, UpdatingSteps DEF TypeInv
  <2>2. req[r].user \in Users /\ req[r].new \in Row
    BY RequestFields DEF TypeInv, TypeOK
  <2>3. row'[req[r].user] = req[r].new
    BY <2>1, <2>2, WriteRowFacts DEF UpdateRow, TypeInv
  <2>4. KeepsOthers(req[r].pc, row[req[r].user], req[r].new)
    BY DEF CopiesFaithful, CopyIsFaithful
  <2> QED BY <2>3, <2>4
<1>2. Inv /\ [Next]_vars => [Safe]_vars
  BY <1>1
<1> QED BY <1>2, BaseInv, CopiesInvariant, PTL
        DEF Spec, LostUpdateNeedsARace

-----------------------------------------------------------------------------
(* Sessions of accounts that are not ACTIVE. *)

(***************************************************************************)
(* A read of the row of u at version n is no later than the row is, and if *)
(* the account is not ACTIVE now, by a block and not by a stale copy, the  *)
(* read was earlier than the block.                                        *)
(***************************************************************************)
Behind(n, u) ==
  /\ Exists(u)
  /\ n <= version[u]
  /\ row[u].status # "ACTIVE" /\ u \notin clobbered => n < blockedAt[u]

\* It holds of the read of every session that checked the status, ...
TokensBehind ==
  \A t \in Issued :
    tokens[t].checked => Behind(tokens[t].read, tokens[t].owner)

\* ... of a request about to save such a session, and of a refresh between
\* its read of the row and the revocation.
RequestBehind(q) ==
  /\ q.pc = "save" /\ q.checked => Behind(q.read, q.user)
  /\ q.pc = "refreshRevoke" => Behind(q.read, tokens[q.token].owner)

RequestsBehind == \A r \in Requests : RequestBehind(req[r])

BlockInv == CreatedActive /\ TokensBehind /\ RequestsBehind

\* The same of the state after a step, for a value of the state before it.
BehindNow(n, u) ==
  /\ row'[u] # NoRow
  /\ n <= version'[u]
  /\ row'[u].status # "ACTIVE" /\ u \notin clobbered' => n < blockedAt'[u]

LEMMA BehindKept ==
  ASSUME TypeInv, RowRefs, CreatedActive, [Next]_vars,
         NEW n \in Nat, NEW u \in Users, Behind(n, u)
  PROVE  BehindNow(n, u)
<1>1. SameRow(u) \/ NewVersion(u)
  BY RowSteps
<1>2. /\ version[u] \in Nat
      /\ clobbered \subseteq clobbered'
  BY RowSteps DEF TypeInv, TypeOK
<1> QED BY <1>1, <1>2 DEF Behind, BehindNow, SameRow, NewVersion, Exists

LEMMA ReadIsBehind ==
  ASSUME TypeInv, RowsAsRead, NEW u \in Users, Active(u)
  PROVE  BehindNow(version[u], u)
BY DEF TypeInv, TypeOK, RowsAsRead, Active, BehindNow, Exists

LEMMA TokensBehindStep ==
  ASSUME TypeInv, RowRefs, BlockInv, [Next]_vars
  PROVE  TokensBehind'
<1>0. /\ Len(tokens) \in Nat
      /\ \A t \in Issued : tokens[t].owner \in Users /\ tokens[t].read \in Nat
  BY TokenTypes
<1>1. \A t \in Issued :
        tokens[t].checked => BehindNow(tokens[t].read, tokens[t].owner)
  BY <1>0, BehindKept DEF BlockInv, TokensBehind
<1>2. CASE TokensKept
  <2>1. Issued' = Issued
    BY <1>2, IssuedKept
  <2> QED BY <1>1, <1>2, <2>1
          DEF TokensKept, TokensBehind, Behind, BehindNow, Exists
<1>a. ASSUME NEW k, k = tokens'[Len(tokens) + 1],
             Len(tokens') = Len(tokens) + 1,
             \A t \in Issued : tokens'[t] = tokens[t],
             k.checked => BehindNow(k.read, k.owner)
      PROVE  TokensBehind'
  <2>1. \A t \in Issued' :
          tokens'[t].checked => BehindNow(tokens'[t].read, tokens'[t].owner)
    BY <1>0, <1>1, <1>a, IssuedGrows
  <2> QED BY <2>1 DEF TokensBehind, Behind, BehindNow, Exists
<1>3. ASSUME NEW r \in Requests, SaveSession(r)
      PROVE  TokensBehind'
  <2> DEFINE k == tokens'[Len(tokens) + 1]
  <2>1. /\ req[r].pc = "save"
        /\ req[r].user \in Users /\ req[r].read \in Nat
        /\ Len(tokens') = Len(tokens) + 1
        /\ \A t \in Issued : tokens'[t] = tokens[t]
        /\ k = [owner |-> req[r].user, parent |-> req[r].parent,
                revoked |-> FALSE, expired |-> FALSE,
                checked |-> req[r].checked, read |-> req[r].read,
                found |-> req[r].found]
    BY <1>3, SaveAppends
  <2>2. /\ k.checked = req[r].checked
        /\ k.read = req[r].read
        /\ k.owner = req[r].user
    BY <2>1
  <2>3. k.checked => BehindNow(k.read, k.owner)
    BY <2>1, <2>2, BehindKept DEF BlockInv, RequestsBehind, RequestBehind
  <2> QED BY <2>1, <2>3, <1>a
<1>4. ASSUME NEW r \in Requests, GoogleCreate(r)
      PROVE  TokensBehind'
  <2> DEFINE k == tokens'[Len(tokens) + 1]
             u == req[r].user
  <2>1. /\ req[r].pc = "googleCreate"
        /\ u \in Users
        /\ Len(tokens') = Len(tokens) + 1
        /\ \A t \in Issued : tokens'[t] = tokens[t]
        /\ k = [owner |-> u, parent |-> 0, revoked |-> FALSE,
                expired |-> FALSE, checked |-> TRUE,
                read |-> version[u] + 1, found |-> 0]
    BY <1>4, CreateAppends
  <2>2. k.read = version[u] + 1 /\ k.owner = u
    BY <2>1
  <2>3. /\ req[r].new \in Row
        /\ req[r].new.status = "ACTIVE"
        /\ version[u] \in Nat
    BY <2>1, RequestFields DEF TypeInv, TypeOK, BlockInv, CreatedActive
  <2>4. row'[u] = req[r].new /\ row'[u] # NoRow
        /\ version'[u] = version[u] + 1
    BY <1>4, <2>1, <2>3, RowWritten DEF GoogleCreate, TypeInv
  <2>5. BehindNow(k.read, k.owner)
    BY <2>2, <2>3, <2>4 DEF BehindNow
  <2> QED BY <2>1, <2>5, <1>a
<1> QED BY <1>2, <1>3, <1>4, OnlySavesAppend

LEMMA RequestsBehindStep ==
  ASSUME TypeInv, RowRefs, BlockInv, [Next]_vars
  PROVE  RequestsBehind'
<1> SUFFICES ASSUME NEW q \in Requests
             PROVE  RequestBehind(req[q])'
  BY DEF RequestsBehind
<1>0. /\ TypeOK
      /\ RequestBehind(req[q])
      /\ CreatedActive
      /\ \A t \in Issued : tokens[t].owner \in Users
      /\ \A t \in Issued : tokens'[t].owner = tokens[t].owner
  BY TokenTypes, OwnersKept DEF BlockInv, RequestsBehind, TypeInv
<1>a. ASSUME /\ req'[q].pc = "save" /\ req'[q].checked =>
                  BehindNow(req'[q].read, req'[q].user)
             /\ req'[q].pc = "refreshRevoke" =>
                  BehindNow(req'[q].read, tokens'[req'[q].token].owner)
      PROVE  RequestBehind(req[q])'
  BY <1>a DEF RequestBehind, Behind, BehindNow, Exists
<1>1. CASE req'[q] = req[q]
  <2>1. ASSUME req[q].pc = "save", req[q].checked
        PROVE  BehindNow(req[q].read, req[q].user)
    <3>1. req[q].user \in Users /\ req[q].read \in Nat
      BY <1>0, <2>1, RequestFields DEF TypeOK
    <3> QED BY <1>0, <2>1, <3>1, BehindKept DEF RequestBehind
  <2>2. ASSUME req[q].pc = "refreshRevoke"
        PROVE  BehindNow(req[q].read, tokens'[req[q].token].owner)
    <3>1. req[q].token \in Issued /\ req[q].read \in Nat
      BY <1>0, <2>2, RequestFields DEF TypeOK, TypeInv, TokenRefs
    <3> QED BY <1>0, <2>2, <3>1, BehindKept DEF RequestBehind
  <2> QED BY <1>1, <2>1, <2>2, <1>a
<1>2. CASE RefreshUser(q)
  <2> DEFINE t == req[q].token
             u == tokens[t].owner
  <2>1. /\ req'[q] = [pc |-> "refreshRevoke", token |-> t,
                      found |-> req[q].found, read |-> version[u]]
        /\ t \in Issued
        /\ Active(u)
        /\ RowsAsRead
    BY <1>0, <1>2, GotoIsOwn
       DEF RefreshUser, TypeInv, TokenRefs, RowsAsRead
  <2>2. /\ req'[q].pc = "refreshRevoke" /\ req'[q].token = t
        /\ req'[q].read = version[u]
    BY <2>1
  <2>3. BehindNow(version[u], u)
    BY <1>0, <2>1, ReadIsBehind
  <2> QED BY <1>0, <2>1, <2>2, <2>3, <1>a
<1>3. CASE RefreshRevoke(q)
  <2> DEFINE t == req[q].token
             u == tokens[t].owner
  <2>1. /\ req[q].pc = "refreshRevoke"
        /\ t \in Issued /\ req[q].read \in Nat
        /\ req'[q] = [pc |-> "save", user |-> u, parent |-> t,
                      found |-> req[q].found, checked |-> TRUE,
                      read |-> req[q].read]
    BY <1>0, <1>3, GotoIsOwn, RequestFields
       DEF RefreshRevoke, TypeInv, TokenRefs, TypeOK
  <2>2. req'[q].pc = "save" /\ req'[q].user = u /\ req'[q].read = req[q].read
    BY <2>1
  <2>3. BehindNow(req[q].read, u)
    BY <1>0, <2>1, BehindKept DEF RequestBehind
  <2> QED BY <2>2, <2>3, <1>a
<1>4. CASE BeginStatus(q)
  <2>1. req'[q].pc = "commit"
    BY <1>0, <1>4, GotoIsOwn DEF BeginStatus
  <2> QED BY <2>1, <1>a
<1>5. CASE RowsAsRead /\ Checks(req'[q])
  <2>1. BehindNow(req'[q].read, req'[q].user)
    BY <1>5, ReadIsBehind DEF Checks
  <2> QED BY <1>5, <2>1, <1>a DEF Checks
<1>6. CASE \/ req'[q].pc \in Neutral
           \/ Prepares(req'[q])
           \/ Copies(req'[q])
           \/ req'[q].pc = "save" /\ ~req'[q].checked
  BY <1>6, <1>a DEF Neutral, Prepares, Copies
<1> QED BY <1>1, <1>2, <1>3, <1>4, <1>5, <1>6, <1>0, OwnStep, OwnOutcome

LEMMA BlockInvariant == Spec => []BlockInv
<1>1. Init => BlockInv
  BY DEF Init, BlockInv, CreatedActive, TokensBehind, RequestsBehind,
         RequestBehind, Issued
<1>2. TypeInv /\ RowRefs /\ BlockInv /\ [Next]_vars => BlockInv'
  BY CreatedActiveStep, TokensBehindStep, RequestsBehindStep DEF BlockInv
<1> QED BY <1>1, <1>2, BaseInv, PTL DEF Spec

\* A session that login, refresh or sign-in by googleId opened for an account
\* that is blocked or inactive belongs to a request that had read the row
\* before the block, as long as no stale copy has overwritten the status.
THEOREM BlockedOpenNothing == Spec => []CheckedSessionsPredateBlock
<1>1. TypeInv /\ BlockInv => CheckedSessionsPredateBlock
  BY DEF BlockInv, TokensBehind, Behind, CheckedSessionsPredateBlock
<1> QED BY <1>1, BaseInv, BlockInvariant, PTL

-----------------------------------------------------------------------------
(* Blocking revokes every session. *)

(***************************************************************************)
(* A transaction, open or committed, covers only tokens that were issued   *)
(* when it began: a session saved afterwards is beyond every fence.        *)
(***************************************************************************)
FencesIssued ==
  /\ \A u \in Users : fence[u] <= Len(tokens)
  /\ \A r \in Requests : req[r].pc = "commit" => req[r].cut <= Len(tokens)

RevokeInv == RevokeAllIsComplete /\ FencesIssued

\* The only step that moves a fence.
LEMMA FenceWriters ==
  ASSUME [Next]_vars
  PROVE  fence' = fence \/ \E r \in Requests : CommitStatus(r)
<1>1. CASE UNCHANGED vars
  BY <1>1 DEF vars, history
<1>2. ASSUME NEW r \in Requests, Step(r)
      PROVE  fence' = fence \/ CommitStatus(r)
  BY <1>2 DEF Step, history, Register, RegisterCreate, Login, SaveSession,
       VerifyEmail, GoogleById, GoogleUnknown, GoogleByEmail, GoogleCreate,
       ResetPassword, UpdateRow, RefreshFind, RefreshUser, RefreshRevoke,
       UpdateProfile, WriteProfile, UpdateStatus, BeginStatus, Fail
<1>3. ASSUME NEW u \in Users, VerifyForgotPassword(u) \/ TempExpires(u)
      PROVE  fence' = fence
  BY <1>3 DEF VerifyForgotPassword, TempExpires, history
<1>4. ASSUME NEW t \in Issued, Logout(t) \/ TokenExpires(t)
      PROVE  fence' = fence
  BY <1>4 DEF Logout, TokenExpires, history
<1> QED BY <1>1, <1>2, <1>3, <1>4 DEF Next

LEMMA FencesStep ==
  ASSUME TypeInv, FencesIssued, [Next]_vars
  PROVE  FencesIssued'
<1>0. /\ Len(tokens) \in Nat /\ TypeOK
      /\ Len(tokens') \in Nat /\ Len(tokens') >= Len(tokens)
  <2>1. Len(tokens') \in {Len(tokens), Len(tokens) + 1}
    BY OnlySavesAppend, SaveAppends, CreateAppends DEF TokensKept
  <2> QED BY <2>1, TokenTypes DEF TypeInv
<1>1. \A u \in Users : fence'[u] <= Len(tokens')
  <2>1. CASE fence' = fence
    BY <1>0, <2>1 DEF FencesIssued, TypeOK
  <2>2. ASSUME NEW r \in Requests, CommitStatus(r)
        PROVE  \A u \in Users : fence'[u] <= Len(tokens')
    <3>1. /\ req[r].user \in Users /\ req[r].cut \in Nat
          /\ req[r].cut <= Len(tokens)
      BY <1>0, <2>2, RequestFields DEF CommitStatus, TypeOK, FencesIssued
    <3>2. \/ fence' = fence
          \/ fence' = [fence EXCEPT ![req[r].user] = req[r].cut]
      BY <2>2 DEF CommitStatus
    <3>3. ASSUME NEW u \in Users
          PROVE  fence'[u] \in {fence[u], req[r].cut}
      BY <1>0, <3>1, <3>2 DEF TypeOK
    <3>4. ASSUME NEW u \in Users
          PROVE  fence[u] \in Nat /\ fence[u] <= Len(tokens)
      BY <1>0 DEF TypeOK, FencesIssued
    <3> QED BY <1>0, <3>1, <3>3, <3>4
  <2> QED BY <2>1, <2>2, FenceWriters
<1>2. ASSUME NEW q \in Requests, req'[q].pc = "commit"
      PROVE  req'[q].cut <= Len(tokens')
  <2>1. CASE req'[q] = req[q]
    <3>1. req[q].cut \in Nat /\ req[q].cut <= Len(tokens)
      BY <1>0, <1>2, <2>1, RequestFields DEF TypeOK, FencesIssued
    <3> QED BY <1>0, <2>1, <3>1
  <2>2. CASE Step(q)
    <3>1. BeginStatus(q)
      <4>1. RefreshUser(q) => req'[q].pc = "refreshRevoke"
        BY <1>0, GotoIsOwn DEF RefreshUser
      <4>2. RefreshRevoke(q) => req'[q].pc = "save"
        BY <1>0, GotoIsOwn DEF RefreshRevoke
      <4> QED BY <1>2, <2>2, <4>1, <4>2, OwnOutcome
              DEF Prepares, Checks, Copies, Neutral
    <3>2. req'[q].cut = Len(tokens)
      BY <1>0, <3>1, GotoIsOwn DEF BeginStatus
    <3> QED BY <1>0, <3>2
  <2> QED BY <1>0, <2>1, <2>2, OwnStep
<1> QED BY <1>1, <1>2 DEF FencesIssued

LEMMA RevokeStep ==
  ASSUME TypeInv, RevokeInv, [Next]_vars
  PROVE  RevokeAllIsComplete'
<1>0. /\ Len(tokens) \in Nat /\ TypeOK
      /\ \A t \in Issued : tokens[t].owner \in Users
      /\ \A u \in Users : fence[u] \in Nat /\ fence[u] <= Len(tokens)
  BY TokenTypes DEF TypeInv, TypeOK, RevokeInv, FencesIssued
<1>1. CASE TokensKept /\ fence' = fence
  BY <1>1, IssuedKept DEF TokensKept, RevokeInv, RevokeAllIsComplete
<1>a. ASSUME Len(tokens') = Len(tokens) + 1, fence' = fence,
             \A t \in Issued : tokens'[t] = tokens[t],
             tokens'[Len(tokens) + 1].owner \in Users
      PROVE  RevokeAllIsComplete'
  <2>1. \A t \in Issued : t <= fence[tokens[t].owner] => tokens[t].revoked
    BY DEF RevokeInv, RevokeAllIsComplete
  <2>2. ~(Len(tokens) + 1 <= fence[tokens'[Len(tokens) + 1].owner])
    BY <1>0, <1>a
  <2> QED BY <1>0, <1>a, <2>1, <2>2, IssuedGrows DEF RevokeAllIsComplete
<1>2. ASSUME NEW r \in Requests, SaveSession(r)
      PROVE  RevokeAllIsComplete'
  <2>1. /\ req[r].user \in Users
        /\ Len(tokens') = Len(tokens) + 1
        /\ \A t \in Issued : tokens'[t] = tokens[t]
        /\ tokens'[Len(tokens) + 1] =
             [owner |-> req[r].user, parent |-> req[r].parent,
              revoked |-> FALSE, expired |-> FALSE,
              checked |-> req[r].checked, read |-> req[r].read,
              found |-> req[r].found]
    BY <1>2, SaveAppends
  <2>2. tokens'[Len(tokens) + 1].owner = req[r].user
    BY <2>1
  <2> QED BY <1>2, <1>a, <2>1, <2>2 DEF SaveSession, history
<1>3. ASSUME NEW r \in Requests, GoogleCreate(r)
      PROVE  RevokeAllIsComplete'
  <2>1. /\ req[r].user \in Users
        /\ Len(tokens') = Len(tokens) + 1
        /\ \A t \in Issued : tokens'[t] = tokens[t]
        /\ tokens'[Len(tokens) + 1] =
             [owner |-> req[r].user, parent |-> 0,
              revoked |-> FALSE, expired |-> FALSE,
              checked |-> TRUE, read |-> version[req[r].user] + 1,
              found |-> 0]
    BY <1>3, CreateAppends
  <2>2. tokens'[Len(tokens) + 1].owner = req[r].user
    BY <2>1
  <2> QED BY <1>3, <1>a, <2>1, <2>2 DEF GoogleCreate, history
<1>4. ASSUME NEW r \in Requests, CommitStatus(r)
      PROVE  RevokeAllIsComplete'
  <2> DEFINE u == req[r].user
             cut == req[r].cut
  <2>1. u \in Users /\ cut \in Nat
    BY <1>0, <1>4, RequestFields DEF CommitStatus, TypeOK
  <2>2. CASE UNCHANGED <<tokens, fence, blockedAt>>
    BY <2>2, <1>1, StutterKeeps
  <2>3. CASE /\ RevokeTokens(Covered(u, cut))
             /\ fence' = [fence EXCEPT ![u] = cut]
    <3>1. /\ TokensKept
          /\ \A t \in Issued : t \in Covered(u, cut) => tokens'[t].revoked
      BY <2>3, RevokeKeeps
    <3>2. Issued' = Issued
      BY <3>1, IssuedKept
    <3>3. ASSUME NEW t \in Issued, t <= fence'[tokens'[t].owner]
          PROVE  tokens'[t].revoked
      <4>1. CASE tokens[t].owner = u
        <5>1. t <= cut /\ t \in Nat /\ t >= 1
          BY <1>0, <2>1, <2>3, <3>1, <3>3, <4>1
             DEF TokensKept, TypeOK, Issued
        <5> QED BY <2>1, <3>1, <4>1, <5>1 DEF Covered
      <4>2. CASE tokens[t].owner # u
        <5>1. t <= fence[tokens[t].owner]
          BY <1>0, <2>3, <3>1, <3>3, <4>2 DEF TokensKept, TypeOK
        <5> QED BY <3>1, <5>1
                DEF RevokeInv, RevokeAllIsComplete, TokensKept
      <4> QED BY <4>1, <4>2
    <3> QED BY <3>2, <3>3 DEF RevokeAllIsComplete
  <2> QED BY <1>4, <2>2, <2>3 DEF CommitStatus
<1> QED BY <1>1, <1>2, <1>3, <1>4, OnlySavesAppend, FenceWriters

LEMMA RevokeInvariant == Spec => []RevokeInv
<1>1. Init => RevokeInv
  BY DEF Init, RevokeInv, RevokeAllIsComplete, FencesIssued, Issued
<1>2. TypeInv /\ RevokeInv /\ [Next]_vars => RevokeInv'
  BY FencesStep, RevokeStep DEF RevokeInv
<1> QED BY <1>1, <1>2, BaseInv, PTL DEF Spec

\* Blocking or deactivating an account revokes every session its transaction
\* could see, and none of them is revived by any later step.
THEOREM BlockingRevokesAll == Spec => []RevokeAllIsComplete
BY RevokeInvariant, PTL DEF RevokeInv
=============================================================================
