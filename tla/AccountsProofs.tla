--------------------------- MODULE AccountsProofs ---------------------------
(***************************************************************************)
(* Type correctness of Accounts, for any number of users, requests and     *)
(* tokens, and what a step may do to the table of tokens, to a row and to  *)
(* what a request remembers: the lemmas the safety proofs rest on.         *)
(***************************************************************************)
EXTENDS Accounts, TLAPS

(***************************************************************************)
(* What a request holds, by the call it makes next.                        *)
(***************************************************************************)
LEMMA RequestFields ==
  ASSUME NEW q \in Request
  PROVE  /\ q.pc \in {"register", "googleCreate"} =>
              q.user \in Users /\ q.new \in Row
         /\ q.pc \in {"verify", "link", "reset"} =>
              q.user \in Users /\ q.new \in Row /\ q.read \in Nat
         /\ q.pc = "save" =>
              /\ q.user \in Users /\ q.parent \in Nat /\ q.found \in Nat
              /\ q.checked \in BOOLEAN /\ q.read \in Nat
         /\ q.pc = "refreshUser" => q.token \in Nat /\ q.found \in Nat
         /\ q.pc = "refreshRevoke" =>
              q.token \in Nat /\ q.found \in Nat /\ q.read \in Nat
         /\ q.pc = "googleEmail" => q.user \in Users /\ q.sub \in Subs
         /\ q.pc = "profile" => q.user \in Users /\ q.name \in Names
         /\ q.pc = "status" => q.user \in Users /\ q.status \in Status
         /\ q.pc = "commit" =>
              q.user \in Users /\ q.status \in Status /\ q.cut \in Nat
BY DEF Request, Idle, Creating, Updating, Saving, FindingUser, Rotating,
       FindingEmail, SettingName, SettingStat, Committing

(***************************************************************************)
(* The token a refresh works on, and the parent of a session about to be   *)
(* saved, are tokens that have been issued.  Reading them is what makes    *)
(* TypeOK alone not inductive.                                             *)
(***************************************************************************)
TokenRefs ==
  \A r \in Requests :
    /\ req[r].pc \in {"refreshUser", "refreshRevoke"} =>
         req[r].token \in Issued
    /\ req[r].pc = "save" => req[r].parent \in Issued \union {0}

(***************************************************************************)
(* A row that a request is about to update exists: rows are never deleted. *)
(***************************************************************************)
RowRefs ==
  \A r \in Requests :
    req[r].pc \in {"verify", "link", "reset", "profile", "status", "commit"}
      => Exists(req[r].user)

TypeInv == TypeOK /\ TokenRefs

LEMMA InitType == Init => TypeInv
BY AccountsAssumption
   DEF Init, TypeInv, TypeOK, TokenRefs, Request, Idle

(***************************************************************************)
(* What the helpers do.                                                    *)
(***************************************************************************)
LEMMA GotoFacts ==
  ASSUME TypeOK, NEW r \in Requests, NEW next \in Request, Goto(r, next)
  PROVE  /\ req' \in [Requests -> Request]
         /\ req'[r] = next
         /\ \A q \in Requests : q # r => req'[q] = req[q]
BY DEF TypeOK, Goto

LEMMA IdleIsRequest == [pc |-> "idle"] \in Request
BY DEF Request, Idle

LEMMA DoneFacts ==
  ASSUME TypeOK, NEW r \in Requests, Done(r)
  PROVE  /\ req' \in [Requests -> Request]
         /\ req'[r] = [pc |-> "idle"]
         /\ \A q \in Requests : q # r => req'[q] = req[q]
BY GotoFacts, IdleIsRequest DEF Done

LEMMA WriteRowFacts ==
  ASSUME TypeOK, NEW u \in Users, NEW new \in Row, WriteRow(u, new)
  PROVE  /\ row' \in [Users -> Row \union {NoRow}]
         /\ version' \in [Users -> Nat]
         /\ row'[u] = new
         /\ version'[u] = version[u] + 1
         /\ \A v \in Users : v # u => /\ row'[v] = row[v]
                                      /\ version'[v] = version[v]
BY DEF TypeOK, WriteRow

LEMMA SaveTokenFacts ==
  ASSUME TypeOK, NEW u \in Users, NEW parent \in Nat, NEW found \in Nat,
         NEW checked \in BOOLEAN, NEW read \in Nat,
         SaveToken(u, parent, found, checked, read)
  PROVE  /\ tokens' \in Seq(Token)
         /\ Len(tokens) \in Nat
         /\ Len(tokens') = Len(tokens) + 1
         /\ \A t \in Issued : tokens'[t] = tokens[t]
         /\ tokens'[Len(tokens) + 1] =
              [owner |-> u, parent |-> parent, revoked |-> FALSE,
               expired |-> FALSE, checked |-> checked, read |-> read,
               found |-> found]
BY DEF TypeOK, SaveToken, Token, Issued

LEMMA RevokedFacts ==
  ASSUME NEW k \in Token
  PROVE  /\ Revoked(k) \in Token
         /\ Revoked(k).revoked = TRUE
         /\ Revoked(k).owner = k.owner
         /\ Revoked(k).parent = k.parent
         /\ Revoked(k).expired = k.expired
         /\ Revoked(k).checked = k.checked
         /\ Revoked(k).read = k.read
         /\ Revoked(k).found = k.found
BY DEF Revoked, Token

LEMMA RevokeFacts ==
  ASSUME TypeOK, NEW S, RevokeTokens(S)
  PROVE  /\ tokens' \in Seq(Token)
         /\ Len(tokens') = Len(tokens)
         /\ \A t \in Issued :
              tokens'[t] = IF t \in S THEN Revoked(tokens[t]) ELSE tokens[t]
<1> DEFINE f(t) == IF t \in S THEN Revoked(tokens[t]) ELSE tokens[t]
<1>1. \A t \in Issued : tokens[t] \in Token
  BY DEF TypeOK, Issued
<1>2. \A t \in Issued : f(t) \in Token
  BY <1>1, RevokedFacts
<1>3. tokens' = [t \in Issued |-> f(t)]
  BY DEF RevokeTokens
<1>4. Len(tokens) \in Nat
  BY DEF TypeOK
<1> HIDE DEF f
<1>5. /\ tokens' \in Seq(Token)
      /\ Len(tokens') = Len(tokens)
      /\ \A t \in Issued : tokens'[t] = f(t)
  BY <1>2, <1>3, <1>4 DEF Issued
<1> QED
  BY <1>5 DEF f

LEMMA NewRowType ==
  ASSUME NEW p \in Passwords \union {NoPassword},
         NEW s \in Subs \union {NoSub}, NEW n \in Names
  PROVE  NewRow(p, s, n) \in Row
BY DEF NewRow, Row, Status

LEMMA NewSessionType ==
  ASSUME NEW u \in Users, NEW checked \in BOOLEAN, NEW read \in Nat
  PROVE  NewSession(u, checked, read) \in Request
BY DEF NewSession, Request, Saving

LEMMA VerifiedFacts ==
  ASSUME NEW old \in Row
  PROVE  /\ Verified(old) \in Row
         /\ Verified(old).status = old.status
         /\ Verified(old).verified = TRUE
         /\ Verified(old).password = old.password
         /\ Verified(old).google = old.google
         /\ Verified(old).name = old.name
BY DEF Verified, Row

LEMMA LinkedFacts ==
  ASSUME NEW old \in Row, NEW s \in Subs
  PROVE  /\ Linked(old, s) \in Row
         /\ Linked(old, s).status = old.status
         /\ Linked(old, s).verified = TRUE
         /\ Linked(old, s).password = old.password
         /\ Linked(old, s).google = s
         /\ Linked(old, s).name = old.name
BY DEF Linked, Row

LEMMA RekeyedFacts ==
  ASSUME NEW old \in Row, NEW p \in Passwords
  PROVE  /\ Rekeyed(old, p) \in Row
         /\ Rekeyed(old, p).status = old.status
         /\ Rekeyed(old, p).verified = old.verified
         /\ Rekeyed(old, p).password = p
         /\ Rekeyed(old, p).google = old.google
         /\ Rekeyed(old, p).name = old.name
BY DEF Rekeyed, Row

LEMMA RenamedFacts ==
  ASSUME NEW old \in Row, NEW n \in Names
  PROVE  /\ Renamed(old, n) \in Row
         /\ Renamed(old, n).status = old.status
         /\ Renamed(old, n).verified = old.verified
         /\ Renamed(old, n).password = old.password
         /\ Renamed(old, n).google = old.google
         /\ Renamed(old, n).name = n
BY DEF Renamed, Row

LEMMA RestatusedFacts ==
  ASSUME NEW old \in Row, NEW s \in Status
  PROVE  /\ Restatused(old, s) \in Row
         /\ Restatused(old, s).status = s
         /\ Restatused(old, s).verified = old.verified
         /\ Restatused(old, s).password = old.password
         /\ Restatused(old, s).google = old.google
         /\ Restatused(old, s).name = old.name
BY DEF Restatused, Row

LEMMA ExpiredFacts ==
  ASSUME NEW k \in Token
  PROVE  /\ Expired(k) \in Token
         /\ Expired(k).owner = k.owner
         /\ Expired(k).parent = k.parent
         /\ Expired(k).revoked = k.revoked
         /\ Expired(k).checked = k.checked
         /\ Expired(k).read = k.read
         /\ Expired(k).found = k.found
BY DEF Expired, Token

LEMMA ExpireFacts ==
  ASSUME TypeOK, NEW t \in Issued, TokenExpires(t)
  PROVE  /\ tokens' \in Seq(Token)
         /\ Len(tokens') = Len(tokens)
         /\ \A s \in Issued :
              tokens'[s] = IF s = t THEN Expired(tokens[s]) ELSE tokens[s]
<1>1. tokens[t] \in Token
  BY DEF TypeOK, Issued
<1>2. Expired(tokens[t]) \in Token
  BY <1>1, ExpiredFacts
<1>3. tokens' = [tokens EXCEPT ![t] = Expired(tokens[t])]
  BY DEF TokenExpires
<1> QED
  BY <1>2, <1>3 DEF TypeOK, Issued

LEMMA UpdatingType ==
  ASSUME NEW pc \in {"verify", "link", "reset"}, NEW u \in Users,
         NEW new \in Row, NEW read \in Nat
  PROVE  [pc |-> pc, user |-> u, read |-> read, new |-> new] \in Request
BY DEF Request, Updating

(***************************************************************************)
(* Every step preserves TypeInv.                                           *)
(***************************************************************************)
LEMMA TypeStep == TypeInv /\ RowRefs /\ [Next]_vars => TypeInv'
<1> SUFFICES ASSUME TypeInv, RowRefs, [Next]_vars PROVE TypeInv'
  OBVIOUS
<1> USE DEF TypeInv
<1>0. /\ Len(tokens) \in Nat
      /\ \A t \in Issued : tokens[t].owner \in Users
  <2>1. \A t \in Issued : tokens[t] \in Token
    BY DEF TypeOK, Issued
  <2> QED BY <2>1 DEF TypeOK, Token
<1>a. ASSUME NEW r \in Requests, NEW next \in Request, Goto(r, next),
             next.pc \in {"refreshUser", "refreshRevoke"} =>
               next.token \in Issued,
             next.pc = "save" => next.parent \in Issued \union {0},
             Len(tokens') \in Nat, Len(tokens') >= Len(tokens)
      PROVE  req' \in [Requests -> Request] /\ TokenRefs'
  BY <1>a, <1>0, GotoFacts DEF TokenRefs, Issued
<1>b. ASSUME NEW r \in Requests, Done(r),
             Len(tokens') \in Nat, Len(tokens') >= Len(tokens)
      PROVE  req' \in [Requests -> Request] /\ TokenRefs'
  BY <1>b, <1>a, IdleIsRequest DEF Done
<1>c. ASSUME UNCHANGED req, Len(tokens') \in Nat, Len(tokens') >= Len(tokens)
      PROVE  req' \in [Requests -> Request] /\ TokenRefs'
  BY <1>c, <1>0 DEF TokenRefs, TypeOK, Issued
<1>1. ASSUME NEW r \in Requests, NEW u \in Users, NEW p \in Passwords,
             NEW n \in Names,
             Register(r, u, p, n)
      PROVE  TypeInv'
  <2>1. [pc |-> "register", user |-> u, new |-> NewRow(p, NoSub, n)]
          \in Request
    BY NewRowType DEF Request, Creating
  <2>2. req' \in [Requests -> Request] /\ TokenRefs'
    BY <1>1, <2>1, <1>0, <1>a DEF Register
  <2> QED BY <1>1, <2>2 DEF Register, TypeOK, history
<1>2. ASSUME NEW r \in Requests,
             RegisterCreate(r)
      PROVE  TypeInv'
  <2>1. req[r].user \in Users /\ req[r].new \in Row
    BY <1>2, RequestFields DEF RegisterCreate, TypeOK
  <2>2. req' \in [Requests -> Request] /\ TokenRefs'
    BY <1>2, <1>0, <1>b DEF RegisterCreate
  <2> QED BY <1>2, <2>1, <2>2, WriteRowFacts
          DEF RegisterCreate, TypeOK, history
<1>3. ASSUME NEW r \in Requests, NEW u \in Users,
             Login(r, u)
      PROVE  TypeInv'
  <2>1. NewSession(u, TRUE, version[u]) \in Request
    BY NewSessionType DEF TypeOK
  <2>2. req' \in [Requests -> Request] /\ TokenRefs'
    BY <1>3, <2>1, <1>0, <1>a DEF Login, NewSession
  <2> QED BY <1>3, <2>2 DEF Login, TypeOK, history
<1>4. ASSUME NEW r \in Requests,
             SaveSession(r)
      PROVE  TypeInv'
  <2>1. /\ req[r].user \in Users /\ req[r].parent \in Nat
        /\ req[r].found \in Nat /\ req[r].checked \in BOOLEAN
        /\ req[r].read \in Nat
    BY <1>4, RequestFields DEF SaveSession, TypeOK
  <2>2. tokens' \in Seq(Token) /\ Len(tokens') = Len(tokens) + 1
    <3>1. SaveToken(req[r].user, req[r].parent, req[r].found,
                    req[r].checked, req[r].read)
      BY <1>4 DEF SaveSession
    <3>2. TypeOK
      BY DEF TypeInv
    <3> QED BY <2>1, <3>1, <3>2, SaveTokenFacts
  <2>3. req' \in [Requests -> Request] /\ TokenRefs'
    BY <1>4, <2>2, <1>0, <1>b DEF SaveSession
  <2> QED BY <1>4, <2>2, <2>3 DEF SaveSession, TypeOK, history
<1>5. ASSUME NEW r \in Requests, NEW u \in Users,
             VerifyEmail(r, u)
      PROVE  TypeInv'
  <2>1. row[u] \in Row
    BY <1>5 DEF VerifyEmail, Exists, TypeOK
  <2>2. [pc |-> "verify", user |-> u, read |-> version[u],
         new |-> Verified(row[u])] \in Request
    BY <2>1, VerifiedFacts, UpdatingType DEF TypeOK
  <2>3. req' \in [Requests -> Request] /\ TokenRefs'
    BY <1>5, <2>2, <1>0, <1>a DEF VerifyEmail
  <2> QED BY <1>5, <2>3 DEF VerifyEmail, TypeOK, history
<1>6. ASSUME NEW r \in Requests, NEW s \in Subs, NEW e \in Users,
             GoogleById(r, s, e)
      PROVE  TypeInv'
  <2>1. PICK u \in Users : Goto(r, NewSession(u, TRUE, version[u]))
    BY <1>6 DEF GoogleById
  <2>2. NewSession(u, TRUE, version[u]) \in Request
    BY NewSessionType DEF TypeOK
  <2>3. req' \in [Requests -> Request] /\ TokenRefs'
    BY <1>6, <2>1, <2>2, <1>0, <1>a DEF GoogleById, NewSession
  <2> QED BY <1>6, <2>3 DEF GoogleById, TypeOK, history
<1>7. ASSUME NEW r \in Requests, NEW s \in Subs, NEW e \in Users,
             GoogleUnknown(r, s, e)
      PROVE  TypeInv'
  <2>1. [pc |-> "googleEmail", user |-> e, sub |-> s] \in Request
    BY DEF Request, FindingEmail
  <2>2. req' \in [Requests -> Request] /\ TokenRefs'
    BY <1>7, <2>1, <1>0, <1>a DEF GoogleUnknown
  <2> QED BY <1>7, <2>2 DEF GoogleUnknown, TypeOK, history
<1>8. ASSUME NEW r \in Requests,
             GoogleByEmail(r)
      PROVE  TypeInv'
  <2> DEFINE u == req[r].user
             s == req[r].sub
  <2>1. u \in Users /\ s \in Subs
    BY <1>8, RequestFields DEF GoogleByEmail, TypeOK
  <2>2. ASSUME Exists(u)
        PROVE  req' \in [Requests -> Request] /\ TokenRefs'
    <3>1. row[u] \in Row
      BY <2>1, <2>2 DEF Exists, TypeOK
    <3>2. [pc |-> "link", user |-> u, read |-> version[u],
           new |-> Linked(row[u], s)] \in Request
      BY <2>1, <3>1, LinkedFacts, UpdatingType DEF TypeOK
    <3> QED BY <1>8, <2>2, <3>2, <1>0, <1>a DEF GoogleByEmail
  <2>3. ASSUME ~Exists(u)
        PROVE  req' \in [Requests -> Request] /\ TokenRefs'
    <3>1. PICK n \in Names :
            Goto(r, [pc |-> "googleCreate", user |-> u,
                     new |-> NewRow(NoPassword, s, n)])
      BY <1>8, <2>3 DEF GoogleByEmail
    <3>2. [pc |-> "googleCreate", user |-> u,
           new |-> NewRow(NoPassword, s, n)] \in Request
      BY <2>1, NewRowType DEF Request, Creating
    <3> QED BY <1>8, <3>1, <3>2, <1>0, <1>a DEF GoogleByEmail
  <2>4. req' \in [Requests -> Request] /\ TokenRefs'
    BY <2>2, <2>3
  <2> QED BY <1>8, <2>4 DEF GoogleByEmail, TypeOK, history
<1>9. ASSUME NEW r \in Requests,
             GoogleCreate(r)
      PROVE  TypeInv'
  <2>1. req[r].user \in Users /\ req[r].new \in Row
    BY <1>9, RequestFields DEF GoogleCreate, TypeOK
  <2>2. tokens' \in Seq(Token) /\ Len(tokens') = Len(tokens) + 1
    <3>1. version[req[r].user] + 1 \in Nat
      BY <2>1 DEF TypeOK
    <3>2. SaveToken(req[r].user, 0, 0, TRUE, version[req[r].user] + 1)
      BY <1>9 DEF GoogleCreate
    <3>3. TypeOK
      BY DEF TypeInv
    <3> QED BY <2>1, <3>1, <3>2, <3>3, SaveTokenFacts
  <2>3. req' \in [Requests -> Request] /\ TokenRefs'
    BY <1>9, <2>2, <1>0, <1>b DEF GoogleCreate
  <2> QED BY <1>9, <2>1, <2>2, <2>3, WriteRowFacts
          DEF GoogleCreate, TypeOK, history
<1>10. ASSUME NEW u \in Users,
             VerifyForgotPassword(u)
      PROVE  TypeInv'
  BY <1>10, <1>0, <1>c DEF VerifyForgotPassword, TypeOK, history
<1>11. ASSUME NEW r \in Requests, NEW u \in Users, NEW p \in Passwords,
             ResetPassword(r, u, p)
      PROVE  TypeInv'
  <2>1. row[u] \in Row
    BY <1>11 DEF ResetPassword, Exists, TypeOK
  <2>2. [pc |-> "reset", user |-> u, read |-> version[u],
         new |-> Rekeyed(row[u], p)] \in Request
    BY <2>1, RekeyedFacts, UpdatingType DEF TypeOK
  <2>3. req' \in [Requests -> Request] /\ TokenRefs'
    BY <1>11, <2>2, <1>0, <1>a DEF ResetPassword
  <2> QED BY <1>11, <2>3 DEF ResetPassword, TypeOK, history
<1>12. ASSUME NEW u \in Users,
             TempExpires(u)
      PROVE  TypeInv'
  BY <1>12, <1>0, <1>c DEF TempExpires, TypeOK, history
<1>13. ASSUME NEW r \in Requests,
             UpdateRow(r)
      PROVE  TypeInv'
  <2>1. /\ req[r].user \in Users /\ req[r].new \in Row
        /\ req[r].read \in Nat
    BY <1>13, RequestFields DEF UpdateRow, TypeOK
  <2>2. NewSession(req[r].user, FALSE, req[r].read) \in Request
    BY <2>1, NewSessionType
  <2>3. req' \in [Requests -> Request] /\ TokenRefs'
    BY <1>13, <2>2, <1>a, <1>b, <1>0 DEF UpdateRow, NewSession
  <2>4. clobbered' \subseteq Users
    BY <1>13, <2>1 DEF UpdateRow, TypeOK
  <2> QED BY <1>13, <2>1, <2>3, <2>4, WriteRowFacts DEF UpdateRow, TypeOK
<1>14. ASSUME NEW r \in Requests, NEW t \in Issued,
             RefreshFind(r, t)
      PROVE  TypeInv'
  <2>1. [pc |-> "refreshUser", token |-> t, found |-> Len(tokens)]
          \in Request
    BY <1>0 DEF Request, FindingUser, Issued
  <2>2. req' \in [Requests -> Request] /\ TokenRefs'
    BY <1>14, <2>1, <1>0, <1>a DEF RefreshFind
  <2> QED BY <1>14, <2>2 DEF RefreshFind, TypeOK, history
<1>15. ASSUME NEW r \in Requests,
             RefreshUser(r)
      PROVE  TypeInv'
  <2>1. req[r].token \in Issued /\ req[r].found \in Nat
    BY <1>15, RequestFields DEF RefreshUser, TypeOK, TokenRefs
  <2>2. version[tokens[req[r].token].owner] \in Nat /\ req[r].token \in Nat
    BY <2>1, <1>0 DEF TypeOK, Issued
  <2>3. [pc |-> "refreshRevoke", token |-> req[r].token,
         found |-> req[r].found,
         read |-> version[tokens[req[r].token].owner]] \in Request
    BY <2>1, <2>2 DEF Request, Rotating
  <2>4. req' \in [Requests -> Request] /\ TokenRefs'
    BY <1>15, <2>1, <2>3, <1>0, <1>a DEF RefreshUser
  <2> QED BY <1>15, <2>4 DEF RefreshUser, TypeOK, history
<1>16. ASSUME NEW r \in Requests,
             RefreshRevoke(r)
      PROVE  TypeInv'
  <2> DEFINE t == req[r].token
  <2>1. t \in Issued /\ req[r].found \in Nat /\ req[r].read \in Nat
    BY <1>16, RequestFields DEF RefreshRevoke, TypeOK, TokenRefs
  <2>2. tokens[t].owner \in Users /\ t \in Nat
    BY <2>1, <1>0 DEF Issued
  <2>3. [pc |-> "save", user |-> tokens[t].owner, parent |-> t,
         found |-> req[r].found, checked |-> TRUE,
         read |-> req[r].read] \in Request
    BY <2>1, <2>2 DEF Request, Saving
  <2>4. tokens' \in Seq(Token) /\ Len(tokens') = Len(tokens)
    BY <1>16, RevokeFacts DEF RefreshRevoke
  <2>5. req' \in [Requests -> Request] /\ TokenRefs'
    BY <1>16, <2>1, <2>3, <2>4, <1>0, <1>a DEF RefreshRevoke
  <2> QED BY <1>16, <2>4, <2>5 DEF RefreshRevoke, TypeOK, history
<1>17. ASSUME NEW t \in Issued,
             Logout(t)
      PROVE  TypeInv'
  BY <1>17, <1>0, <1>c, RevokeFacts DEF Logout, TypeOK, history
<1>18. ASSUME NEW t \in Issued,
             TokenExpires(t)
      PROVE  TypeInv'
  <2>1. tokens' \in Seq(Token) /\ Len(tokens') = Len(tokens)
    BY <1>18, ExpireFacts
  <2> QED BY <1>18, <2>1, <1>0, <1>c DEF TokenExpires, TypeOK, history
<1>19. ASSUME NEW r \in Requests, NEW u \in Users, NEW n \in Names,
             UpdateProfile(r, u, n)
      PROVE  TypeInv'
  <2>1. [pc |-> "profile", user |-> u, name |-> n] \in Request
    BY DEF Request, SettingName
  <2>2. req' \in [Requests -> Request] /\ TokenRefs'
    BY <1>19, <2>1, <1>0, <1>a DEF UpdateProfile
  <2> QED BY <1>19, <2>2 DEF UpdateProfile, TypeOK, history
<1>20. ASSUME NEW r \in Requests,
             WriteProfile(r)
      PROVE  TypeInv'
  <2>1. req[r].user \in Users /\ req[r].name \in Names
    BY <1>20, RequestFields DEF WriteProfile, TypeOK
  <2>2. Renamed(row[req[r].user], req[r].name) \in Row
    BY <1>20, <2>1, RenamedFacts DEF WriteProfile, Exists, TypeOK, RowRefs
  <2>3. req' \in [Requests -> Request] /\ TokenRefs'
    BY <1>20, <1>0, <1>b DEF WriteProfile
  <2> QED BY <1>20, <2>1, <2>2, <2>3, WriteRowFacts
          DEF WriteProfile, TypeOK, history
<1>21. ASSUME NEW r \in Requests, NEW u \in Users, NEW s \in Status,
             UpdateStatus(r, u, s)
      PROVE  TypeInv'
  <2>1. [pc |-> "status", user |-> u, status |-> s] \in Request
    BY DEF Request, SettingStat
  <2>2. req' \in [Requests -> Request] /\ TokenRefs'
    BY <1>21, <2>1, <1>0, <1>a DEF UpdateStatus
  <2> QED BY <1>21, <2>2 DEF UpdateStatus, TypeOK, history
<1>22. ASSUME NEW r \in Requests,
             BeginStatus(r)
      PROVE  TypeInv'
  <2>1. req[r].user \in Users /\ req[r].status \in Status
    BY <1>22, RequestFields DEF BeginStatus, TypeOK
  <2>2. [pc |-> "commit", user |-> req[r].user, status |-> req[r].status,
         cut |-> Len(tokens)] \in Request
    BY <2>1, <1>0 DEF Request, Committing
  <2>3. req' \in [Requests -> Request] /\ TokenRefs'
    BY <1>22, <2>2, <1>0, <1>a DEF BeginStatus
  <2> QED BY <1>22, <2>3 DEF BeginStatus, TypeOK, history
<1>23. ASSUME NEW r \in Requests,
             CommitStatus(r)
      PROVE  TypeInv'
  <2> DEFINE u == req[r].user
  <2>1. u \in Users /\ req[r].status \in Status /\ req[r].cut \in Nat
    BY <1>23, RequestFields DEF CommitStatus, TypeOK
  <2>2. Restatused(row[u], req[r].status) \in Row
    BY <1>23, <2>1, RestatusedFacts DEF CommitStatus, Exists, TypeOK, RowRefs
  <2>3. tokens' \in Seq(Token) /\ Len(tokens') = Len(tokens)
    BY <1>23, RevokeFacts DEF CommitStatus, TypeOK
  <2>4. req' \in [Requests -> Request] /\ TokenRefs'
    BY <1>23, <2>3, <1>0, <1>b DEF CommitStatus
  <2>5. /\ row' \in [Users -> Row \union {NoRow}]
        /\ version' \in [Users -> Nat]
    BY <1>23, <2>1, <2>2, WriteRowFacts DEF CommitStatus
  <2>6. fence' \in [Users -> Nat] /\ blockedAt' \in [Users -> Nat]
    BY <1>23, <2>1, <2>5 DEF CommitStatus, TypeOK
  <2> QED BY <1>23, <2>3, <2>4, <2>5, <2>6 DEF CommitStatus, TypeOK
<1>24. ASSUME NEW r \in Requests,
             Fail(r)
      PROVE  TypeInv'
  <2>1. req' \in [Requests -> Request] /\ TokenRefs'
    BY <1>24, <1>0, <1>b DEF Fail
  <2> QED BY <1>24, <2>1 DEF Fail, TypeOK, history
<1>25. CASE UNCHANGED vars
  BY <1>25, <1>0, <1>c DEF vars, history, TypeOK
<1> QED
  BY <1>1, <1>2, <1>3, <1>4, <1>5, <1>6, <1>7, <1>8, <1>9, <1>10, <1>11,
     <1>12, <1>13, <1>14, <1>15, <1>16, <1>17, <1>18, <1>19, <1>20, <1>21,
     <1>22, <1>23, <1>24, <1>25
     DEF Next, Step

(***************************************************************************)
(* Rows are never deleted, so a row a request has read still exists when   *)
(* the request writes it.                                                  *)
(***************************************************************************)
LEMMA WriteKeepsRows ==
  ASSUME TypeOK, NEW u \in Users, NEW new \in Row, WriteRow(u, new)
  PROVE  \A v \in Users : Exists(v) => Exists(v)'
BY WriteRowFacts, AccountsAssumption DEF Exists

(***************************************************************************)
(* The steps that write the table of users.                                *)
(***************************************************************************)
LEMMA RowWriters ==
  ASSUME [Next]_vars
  PROVE  \/ UNCHANGED <<row, version, history>>
         \/ \E r \in Requests : \/ RegisterCreate(r) \/ GoogleCreate(r)
                                \/ UpdateRow(r) \/ WriteProfile(r)
                                \/ CommitStatus(r)
<1>1. CASE UNCHANGED vars
  BY <1>1 DEF vars
<1>2. ASSUME NEW r \in Requests, Step(r)
      PROVE  \/ UNCHANGED <<row, version, history>>
             \/ RegisterCreate(r) \/ GoogleCreate(r)
             \/ UpdateRow(r) \/ WriteProfile(r) \/ CommitStatus(r)
  BY <1>2 DEF Step, Register, Login, SaveSession, VerifyEmail,
       GoogleById, GoogleUnknown, GoogleByEmail, ResetPassword,
       RefreshFind, RefreshUser, RefreshRevoke, UpdateProfile, UpdateStatus,
       BeginStatus, Fail
<1>3. ASSUME NEW u \in Users, VerifyForgotPassword(u) \/ TempExpires(u)
      PROVE  UNCHANGED <<row, version, history>>
  BY <1>3 DEF VerifyForgotPassword, TempExpires
<1>4. ASSUME NEW t \in Issued, Logout(t) \/ TokenExpires(t)
      PROVE  UNCHANGED <<row, version, history>>
  BY <1>4 DEF Logout, TokenExpires
<1> QED BY <1>1, <1>2, <1>3, <1>4 DEF Next

LEMMA RowsStay ==
  ASSUME TypeInv, RowRefs, [Next]_vars
  PROVE  \A u \in Users : Exists(u) => Exists(u)'
<1> USE DEF TypeInv
<1>1. ASSUME NEW r \in Requests,
             RegisterCreate(r) \/ GoogleCreate(r) \/ UpdateRow(r)
      PROVE  \A u \in Users : Exists(u) => Exists(u)'
  <2>1. req[r].user \in Users /\ req[r].new \in Row
    BY <1>1, RequestFields DEF RegisterCreate, GoogleCreate, UpdateRow, TypeOK
  <2> QED BY <1>1, <2>1, WriteKeepsRows
          DEF RegisterCreate, GoogleCreate, UpdateRow
<1>2. ASSUME NEW r \in Requests, WriteProfile(r)
      PROVE  \A u \in Users : Exists(u) => Exists(u)'
  <2>1. req[r].user \in Users /\ req[r].name \in Names
    BY <1>2, RequestFields DEF WriteProfile, TypeOK
  <2>2. Renamed(row[req[r].user], req[r].name) \in Row
    BY <1>2, <2>1, RenamedFacts DEF WriteProfile, Exists, TypeOK, RowRefs
  <2> QED BY <1>2, <2>1, <2>2, WriteKeepsRows DEF WriteProfile
<1>3. ASSUME NEW r \in Requests, CommitStatus(r)
      PROVE  \A u \in Users : Exists(u) => Exists(u)'
  <2>1. req[r].user \in Users /\ req[r].status \in Status
    BY <1>3, RequestFields DEF CommitStatus, TypeOK
  <2>2. Restatused(row[req[r].user], req[r].status) \in Row
    BY <1>3, <2>1, RestatusedFacts DEF CommitStatus, Exists, TypeOK, RowRefs
  <2> QED BY <1>3, <2>1, <2>2, WriteKeepsRows DEF CommitStatus
<1>4. ASSUME UNCHANGED row
      PROVE  \A u \in Users : Exists(u) => Exists(u)'
  BY <1>4 DEF Exists
<1> QED
  BY <1>1, <1>2, <1>3, <1>4, RowWriters

LEMMA RowStep == TypeInv /\ RowRefs /\ [Next]_vars => RowRefs'
<1> SUFFICES ASSUME TypeInv, RowRefs, [Next]_vars PROVE RowRefs'
  OBVIOUS
<1> DEFINE Kinds == {"verify", "link", "reset", "profile", "status", "commit"}
<1>0. /\ TypeOK
      /\ \A u \in Users : Exists(u) => Exists(u)'
      /\ \A r \in Requests :
           req[r].pc \in Kinds => req[r].user \in Users /\ Exists(req[r].user)
  BY RowsStay, RequestFields DEF TypeInv, TypeOK, RowRefs
<1>a. ASSUME NEW r \in Requests, NEW next, Goto(r, next),
             next.pc \in Kinds => next.user \in Users /\ Exists(next.user)
      PROVE  RowRefs'
  BY <1>a, <1>0 DEF Goto, TypeOK, RowRefs
<1>b. ASSUME NEW r \in Requests, Done(r)
      PROVE  RowRefs'
  BY <1>b, <1>a DEF Done
<1>c. ASSUME UNCHANGED req
      PROVE  RowRefs'
  BY <1>c, <1>0 DEF RowRefs
<1>1. ASSUME NEW r \in Requests, NEW u \in Users, NEW p \in Passwords,
             NEW n \in Names,
             Register(r, u, p, n)
      PROVE  RowRefs'
  BY <1>1, <1>a DEF Register
<1>2. ASSUME NEW r \in Requests,
             RegisterCreate(r)
      PROVE  RowRefs'
  BY <1>2, <1>b DEF RegisterCreate
<1>3. ASSUME NEW r \in Requests, NEW u \in Users,
             Login(r, u)
      PROVE  RowRefs'
  BY <1>3, <1>a DEF Login, NewSession
<1>4. ASSUME NEW r \in Requests,
             SaveSession(r)
      PROVE  RowRefs'
  BY <1>4, <1>b DEF SaveSession
<1>5. ASSUME NEW r \in Requests, NEW u \in Users,
             VerifyEmail(r, u)
      PROVE  RowRefs'
  BY <1>5, <1>a DEF VerifyEmail
<1>6. ASSUME NEW r \in Requests, NEW s \in Subs, NEW e \in Users,
             GoogleById(r, s, e)
      PROVE  RowRefs'
  BY <1>6, <1>a DEF GoogleById, NewSession
<1>7. ASSUME NEW r \in Requests, NEW s \in Subs, NEW e \in Users,
             GoogleUnknown(r, s, e)
      PROVE  RowRefs'
  BY <1>7, <1>a DEF GoogleUnknown
<1>8. ASSUME NEW r \in Requests,
             GoogleByEmail(r)
      PROVE  RowRefs'
  <2>1. req[r].user \in Users
    BY <1>8, <1>0, RequestFields DEF GoogleByEmail, TypeOK
  <2> QED BY <1>8, <2>1, <1>a DEF GoogleByEmail
<1>9. ASSUME NEW r \in Requests,
             GoogleCreate(r)
      PROVE  RowRefs'
  BY <1>9, <1>b DEF GoogleCreate
<1>10. ASSUME NEW u \in Users,
             VerifyForgotPassword(u)
      PROVE  RowRefs'
  BY <1>10, <1>c DEF VerifyForgotPassword
<1>11. ASSUME NEW r \in Requests, NEW u \in Users, NEW p \in Passwords,
             ResetPassword(r, u, p)
      PROVE  RowRefs'
  BY <1>11, <1>a DEF ResetPassword
<1>12. ASSUME NEW u \in Users,
             TempExpires(u)
      PROVE  RowRefs'
  BY <1>12, <1>c DEF TempExpires
<1>13. ASSUME NEW r \in Requests,
             UpdateRow(r)
      PROVE  RowRefs'
  BY <1>13, <1>a, <1>b DEF UpdateRow, NewSession
<1>14. ASSUME NEW r \in Requests, NEW t \in Issued,
             RefreshFind(r, t)
      PROVE  RowRefs'
  BY <1>14, <1>a DEF RefreshFind
<1>15. ASSUME NEW r \in Requests,
             RefreshUser(r)
      PROVE  RowRefs'
  BY <1>15, <1>a DEF RefreshUser
<1>16. ASSUME NEW r \in Requests,
             RefreshRevoke(r)
      PROVE  RowRefs'
  BY <1>16, <1>a DEF RefreshRevoke
<1>17. ASSUME NEW t \in Issued,
             Logout(t)
      PROVE  RowRefs'
  BY <1>17, <1>c DEF Logout
<1>18. ASSUME NEW t \in Issued,
             TokenExpires(t)
      PROVE  RowRefs'
  BY <1>18, <1>c DEF TokenExpires
<1>19. ASSUME NEW r \in Requests, NEW u \in Users, NEW n \in Names,
             UpdateProfile(r, u, n)
      PROVE  RowRefs'
  BY <1>19, <1>a DEF UpdateProfile, Active
<1>20. ASSUME NEW r \in Requests,
             WriteProfile(r)
      PROVE  RowRefs'
  BY <1>20, <1>b DEF WriteProfile
<1>21. ASSUME NEW r \in Requests, NEW u \in Users, NEW s \in Status,
             UpdateStatus(r, u, s)
      PROVE  RowRefs'
  BY <1>21, <1>a DEF UpdateStatus
<1>22. ASSUME NEW r \in Requests,
             BeginStatus(r)
      PROVE  RowRefs'
  BY <1>22, <1>0, <1>a DEF BeginStatus
<1>23. ASSUME NEW r \in Requests,
             CommitStatus(r)
      PROVE  RowRefs'
  BY <1>23, <1>b DEF CommitStatus
<1>24. ASSUME NEW r \in Requests,
             Fail(r)
      PROVE  RowRefs'
  BY <1>24, <1>b DEF Fail
<1>25. CASE UNCHANGED vars
  BY <1>25, <1>c DEF vars
<1> QED
  BY <1>1, <1>2, <1>3, <1>4, <1>5, <1>6, <1>7, <1>8, <1>9, <1>10, <1>11,
     <1>12, <1>13, <1>14, <1>15, <1>16, <1>17, <1>18, <1>19, <1>20, <1>21,
     <1>22, <1>23, <1>24, <1>25
  DEF Next, Step

(***************************************************************************)
(* The type invariant, whatever requests interleave.                       *)
(***************************************************************************)
LEMMA BaseInv == Spec => [](TypeInv /\ RowRefs)
<1>1. Init => TypeInv /\ RowRefs
  BY InitType DEF Init, RowRefs
<1>2. TypeInv /\ RowRefs /\ [Next]_vars => (TypeInv /\ RowRefs)'
  BY TypeStep, RowStep
<1> QED BY <1>1, <1>2, PTL DEF Spec

\* Every reachable state is well typed: tokens, rows and the local state of
\* every request are what the code stores.
THEOREM TypeCorrect == Spec => []TypeOK
BY BaseInv, PTL DEF TypeInv

-----------------------------------------------------------------------------
(* How tokens change. *)

(***************************************************************************)
(* Which steps write which table.                                          *)
(***************************************************************************)
LEMMA TokenWriters ==
  ASSUME [Next]_vars
  PROVE  \/ UNCHANGED tokens
         \/ \E r \in Requests : \/ SaveSession(r) \/ GoogleCreate(r)
                                \/ RefreshRevoke(r) \/ CommitStatus(r)
         \/ \E t \in Issued : Logout(t) \/ TokenExpires(t)
<1>1. CASE UNCHANGED vars
  BY <1>1 DEF vars
<1>2. ASSUME NEW r \in Requests, Step(r)
      PROVE  \/ UNCHANGED tokens
             \/ SaveSession(r) \/ GoogleCreate(r)
             \/ RefreshRevoke(r) \/ CommitStatus(r)
  BY <1>2 DEF Step, Register, RegisterCreate, Login, VerifyEmail,
       GoogleById, GoogleUnknown, GoogleByEmail, ResetPassword, UpdateRow,
       RefreshFind, RefreshUser, UpdateProfile, WriteProfile, UpdateStatus,
       BeginStatus, Fail
<1>3. ASSUME NEW u \in Users, VerifyForgotPassword(u) \/ TempExpires(u)
      PROVE  UNCHANGED tokens
  BY <1>3 DEF VerifyForgotPassword, TempExpires
<1> QED BY <1>1, <1>2, <1>3 DEF Next

LEMMA ProvenGrows == [Next]_vars => proven \subseteq proven'
<1>1. CASE UNCHANGED vars
  BY <1>1 DEF vars
<1>2. ASSUME NEW r \in Requests, Step(r)
      PROVE  proven \subseteq proven'
  BY <1>2 DEF Step, Register, RegisterCreate, Login, VerifyEmail, SaveSession,
       GoogleById, GoogleUnknown, GoogleByEmail, GoogleCreate, ResetPassword,
       UpdateRow, RefreshFind, RefreshUser, RefreshRevoke, UpdateProfile,
       WriteProfile, UpdateStatus, BeginStatus, CommitStatus, Fail
<1>3. ASSUME NEW u \in Users, VerifyForgotPassword(u) \/ TempExpires(u)
      PROVE  proven \subseteq proven'
  BY <1>3 DEF VerifyForgotPassword, TempExpires
<1>4. ASSUME NEW t \in Issued, Logout(t) \/ TokenExpires(t)
      PROVE  proven \subseteq proven'
  BY <1>4 DEF Logout, TokenExpires
<1> QED BY <1>1, <1>2, <1>3, <1>4 DEF Next

(***************************************************************************)
(* What a step may do to the tokens that exist: revoke and expire them.    *)
(***************************************************************************)
TokensKept ==
  /\ Len(tokens') = Len(tokens)
  /\ \A t \in Issued : /\ tokens'[t].owner = tokens[t].owner
                       /\ tokens'[t].parent = tokens[t].parent
                       /\ tokens'[t].checked = tokens[t].checked
                       /\ tokens'[t].read = tokens[t].read
                       /\ tokens'[t].found = tokens[t].found
                       /\ tokens[t].revoked => tokens'[t].revoked

LEMMA TokenTypes ==
  ASSUME TypeInv
  PROVE  /\ Len(tokens) \in Nat
         /\ \A t \in Issued : /\ tokens[t] \in Token
                              /\ tokens[t].owner \in Users
                              /\ tokens[t].parent \in Nat
                              /\ tokens[t].revoked \in BOOLEAN
                              /\ tokens[t].read \in Nat
                              /\ tokens[t].found \in Nat
<1>1. \A t \in Issued : tokens[t] \in Token
  BY DEF TypeInv, TypeOK, Issued
<1>2. Len(tokens) \in Nat
  BY DEF TypeInv, TypeOK
<1> QED BY <1>1, <1>2 DEF Token

LEMMA RevokeKeeps ==
  ASSUME TypeInv, NEW S, RevokeTokens(S)
  PROVE  TokensKept /\ \A t \in Issued : t \in S => tokens'[t].revoked
<1>1. /\ Len(tokens') = Len(tokens)
      /\ \A t \in Issued :
           tokens'[t] = IF t \in S THEN Revoked(tokens[t]) ELSE tokens[t]
  BY RevokeFacts DEF TypeInv
<1>2. \A t \in Issued : tokens[t] \in Token
  BY TokenTypes
<1>3. ASSUME NEW t \in Issued
      PROVE  /\ tokens'[t].owner = tokens[t].owner
             /\ tokens'[t].parent = tokens[t].parent
             /\ tokens'[t].checked = tokens[t].checked
             /\ tokens'[t].read = tokens[t].read
             /\ tokens'[t].found = tokens[t].found
             /\ tokens[t].revoked => tokens'[t].revoked
             /\ t \in S => tokens'[t].revoked
  <2>1. CASE t \in S
    BY <2>1, <1>1, <1>2, RevokedFacts
  <2>2. CASE t \notin S
    BY <2>2, <1>1
  <2> QED BY <2>1, <2>2
<1> QED BY <1>1, <1>3 DEF TokensKept

LEMMA ExpireKeeps ==
  ASSUME TypeInv, NEW t \in Issued, TokenExpires(t)
  PROVE  TokensKept
BY TokenTypes, ExpireFacts, ExpiredFacts DEF TokensKept, TypeInv

LEMMA StutterKeeps == UNCHANGED tokens => TokensKept
BY DEF TokensKept

(***************************************************************************)
(* The steps that leave the table alone or only update tokens in it: every *)
(* one but the two that save a token.                                      *)
(***************************************************************************)
LEMMA OnlySavesAppend ==
  ASSUME TypeInv, [Next]_vars
  PROVE  \/ TokensKept
         \/ \E r \in Requests : SaveSession(r) \/ GoogleCreate(r)
<1>1. ASSUME NEW r \in Requests, RefreshRevoke(r)
      PROVE  TokensKept
  BY <1>1, RevokeKeeps DEF RefreshRevoke
<1>2. ASSUME NEW t \in Issued, Logout(t)
      PROVE  TokensKept
  BY <1>2, RevokeKeeps DEF Logout
<1>3. ASSUME NEW r \in Requests, CommitStatus(r)
      PROVE  TokensKept
  BY <1>3, RevokeKeeps, StutterKeeps DEF CommitStatus
<1> QED
  BY <1>1, <1>2, <1>3, StutterKeeps, ExpireKeeps, TokenWriters

LEMMA SaveAppends ==
  ASSUME TypeInv, NEW r \in Requests, SaveSession(r)
  PROVE  /\ req[r].pc = "save"
         /\ req[r].user \in Users /\ req[r].parent \in Nat
         /\ req[r].found \in Nat /\ req[r].read \in Nat
         /\ Len(tokens') = Len(tokens) + 1
         /\ \A t \in Issued : tokens'[t] = tokens[t]
         /\ tokens'[Len(tokens) + 1] =
              [owner |-> req[r].user, parent |-> req[r].parent,
               revoked |-> FALSE, expired |-> FALSE,
               checked |-> req[r].checked, read |-> req[r].read,
               found |-> req[r].found]
<1>1. /\ req[r].user \in Users /\ req[r].parent \in Nat
      /\ req[r].found \in Nat /\ req[r].checked \in BOOLEAN
      /\ req[r].read \in Nat
  BY RequestFields DEF SaveSession, TypeInv, TypeOK
<1>2. /\ req[r].pc = "save"
      /\ SaveToken(req[r].user, req[r].parent, req[r].found,
                   req[r].checked, req[r].read)
  BY DEF SaveSession
<1>3. TypeOK
  BY DEF TypeInv
<1> QED BY <1>1, <1>2, <1>3, SaveTokenFacts

LEMMA NewSessionSaved ==
  ASSUME TypeOK, NEW u \in Users, NEW read \in Nat,
         SaveToken(u, 0, 0, TRUE, read)
  PROVE  /\ Len(tokens') = Len(tokens) + 1
         /\ \A t \in Issued : tokens'[t] = tokens[t]
         /\ tokens'[Len(tokens) + 1] =
              [owner |-> u, parent |-> 0, revoked |-> FALSE,
               expired |-> FALSE, checked |-> TRUE, read |-> read,
               found |-> 0]
<1>1. Len(tokens) \in Nat /\ Issued = 1..Len(tokens)
  BY DEF TypeOK, Issued
<1>2. tokens' = Append(tokens, [owner |-> u, parent |-> 0, revoked |-> FALSE,
                               expired |-> FALSE, checked |-> TRUE,
                               read |-> read, found |-> 0])
  BY DEF SaveToken
<1>3. tokens \in Seq(Token)
  BY DEF TypeOK
<1> QED BY <1>1, <1>2, <1>3

LEMMA CreateAppends ==
  ASSUME TypeInv, NEW r \in Requests, GoogleCreate(r)
  PROVE  /\ req[r].pc = "googleCreate"
         /\ req[r].user \in Users
         /\ Len(tokens') = Len(tokens) + 1
         /\ \A t \in Issued : tokens'[t] = tokens[t]
         /\ tokens'[Len(tokens) + 1] =
              [owner |-> req[r].user, parent |-> 0,
               revoked |-> FALSE, expired |-> FALSE,
               checked |-> TRUE, read |-> version[req[r].user] + 1,
               found |-> 0]
<1>1. req[r].user \in Users /\ TypeOK
  BY RequestFields DEF GoogleCreate, TypeInv, TypeOK
<1>2. version[req[r].user] + 1 \in Nat
  BY <1>1 DEF TypeOK
<1>3. /\ SaveToken(req[r].user, 0, 0, TRUE, version[req[r].user] + 1)
      /\ req[r].pc = "googleCreate"
  BY DEF GoogleCreate
<1> QED BY <1>1, <1>2, <1>3, NewSessionSaved

(***************************************************************************)
(* The index set after a step that keeps, or appends to, the table.        *)
(***************************************************************************)
LEMMA IssuedKept == TokensKept => Issued' = Issued
BY DEF TokensKept, Issued

LEMMA IssuedGrows ==
  ASSUME Len(tokens) \in Nat, Len(tokens') = Len(tokens) + 1
  PROVE  /\ \A t \in Issued' : t \in Issued \/ t = Len(tokens) + 1
         /\ Len(tokens) + 1 \notin Issued
BY DEF Issued

LEMMA OwnersKept ==
  ASSUME TypeInv, [Next]_vars
  PROVE  /\ Len(tokens') >= Len(tokens)
         /\ \A t \in Issued : tokens'[t].owner = tokens[t].owner
<1>1. Len(tokens) \in Nat
  BY TokenTypes
<1>2. ASSUME TokensKept
      PROVE  /\ Len(tokens') >= Len(tokens)
             /\ \A t \in Issued : tokens'[t].owner = tokens[t].owner
  BY <1>1, <1>2 DEF TokensKept
<1>3. ASSUME NEW r \in Requests, SaveSession(r) \/ GoogleCreate(r)
      PROVE  /\ Len(tokens') >= Len(tokens)
             /\ \A t \in Issued : tokens'[t].owner = tokens[t].owner
  <2>1. /\ Len(tokens') = Len(tokens) + 1
        /\ \A t \in Issued : tokens'[t] = tokens[t]
    BY <1>3, SaveAppends, CreateAppends
  <2> QED BY <1>1, <2>1
<1> QED BY <1>2, <1>3, OnlySavesAppend

-----------------------------------------------------------------------------
(* How requests and rows change. *)

(***************************************************************************)
(* A step changes the memory of one request, the one that takes it.        *)
(***************************************************************************)
LEMMA GotoIsOwn ==
  ASSUME TypeOK, NEW r \in Requests, NEW next, Goto(r, next)
  PROVE  /\ req'[r] = next
         /\ \A q \in Requests : q # r => req'[q] = req[q]
BY DEF TypeOK, Goto

LEMMA OwnStep ==
  ASSUME TypeOK, [Next]_vars, NEW q \in Requests
  PROVE  req'[q] = req[q] \/ Step(q)
<1>a. ASSUME NEW r \in Requests, NEW next, Goto(r, next), r # q
      PROVE  req'[q] = req[q]
  BY <1>a, GotoIsOwn
<1>b. ASSUME NEW r \in Requests, Done(r), r # q
      PROVE  req'[q] = req[q]
  BY <1>a, <1>b DEF Done
<1>1. ASSUME NEW r \in Requests, Step(r), r # q
      PROVE  req'[q] = req[q]
  <2>1. ASSUME NEW u \in Users,
               \/ Login(r, u) \/ VerifyEmail(r, u)
               \/ \E p \in Passwords : \/ ResetPassword(r, u, p)
                                       \/ \E n \in Names :
                                            Register(r, u, p, n)
               \/ \E s \in Subs : \/ GoogleById(r, s, u)
                                  \/ GoogleUnknown(r, s, u)
               \/ \E n \in Names : UpdateProfile(r, u, n)
               \/ \E s \in Status : UpdateStatus(r, u, s)
        PROVE  req'[q] = req[q]
    BY <1>1, <1>a, <2>1
       DEF Login, VerifyEmail, ResetPassword, Register, GoogleById,
           GoogleUnknown, UpdateProfile, UpdateStatus
  <2>2. ASSUME \/ \E t \in Issued : RefreshFind(r, t)
               \/ GoogleByEmail(r) \/ RefreshUser(r) \/ RefreshRevoke(r)
               \/ BeginStatus(r)
        PROVE  req'[q] = req[q]
    BY <1>1, <1>a, <2>2
       DEF RefreshFind, GoogleByEmail, RefreshUser, RefreshRevoke,
           BeginStatus
  <2>3. ASSUME \/ RegisterCreate(r) \/ SaveSession(r) \/ GoogleCreate(r)
               \/ UpdateRow(r) \/ WriteProfile(r) \/ CommitStatus(r)
               \/ Fail(r)
        PROVE  req'[q] = req[q]
    BY <1>1, <1>a, <1>b, <2>3
       DEF RegisterCreate, SaveSession, GoogleCreate, UpdateRow,
           WriteProfile, CommitStatus, Fail
  <2> QED BY <1>1, <2>1, <2>2, <2>3 DEF Step
<1>2. ASSUME \/ \E u \in Users : VerifyForgotPassword(u) \/ TempExpires(u)
             \/ \E t \in Issued : Logout(t) \/ TokenExpires(t)
             \/ UNCHANGED vars
      PROVE  req'[q] = req[q]
  BY <1>2 DEF VerifyForgotPassword, TempExpires, Logout, TokenExpires, vars
<1> QED BY <1>1, <1>2 DEF Next

(***************************************************************************)
(* An account is created ACTIVE: every row about to be inserted says so.   *)
(***************************************************************************)
CreatedActive ==
  \A r \in Requests :
    req[r].pc \in {"register", "googleCreate"} => req[r].new.status = "ACTIVE"

SameRow(u) ==
  /\ row'[u] = row[u]
  /\ version'[u] = version[u]
  /\ blockedAt'[u] = blockedAt[u]

\* A write of the row, by what it does to the status: the account is ACTIVE
\* afterwards, or a stale copy has set the status, or the account remains
\* blocked since the version it was, or it is blocked by this write.
NewVersion(u) ==
  /\ version'[u] = version[u] + 1
  /\ row'[u] # NoRow
  /\ \/ row'[u].status = "ACTIVE"
     \/ u \in clobbered'
     \/ /\ Exists(u)
        /\ row[u].status # "ACTIVE"
        /\ blockedAt'[u] = blockedAt[u]
     \/ blockedAt'[u] = version[u] + 1

LEMMA RowWritten ==
  ASSUME TypeOK, NEW u \in Users, NEW new \in Row, WriteRow(u, new)
  PROVE  /\ row'[u] = new /\ new # NoRow
         /\ version'[u] = version[u] + 1
         /\ \A v \in Users : v # u => /\ row'[v] = row[v]
                                      /\ version'[v] = version[v]
BY WriteRowFacts, AccountsAssumption

LEMMA RowSteps ==
  ASSUME TypeInv, RowRefs, CreatedActive, [Next]_vars, NEW u \in Users
  PROVE  /\ SameRow(u) \/ NewVersion(u)
         /\ clobbered \subseteq clobbered'
<1>0. TypeOK
  BY DEF TypeInv
<1>1. ASSUME NEW r \in Requests, RegisterCreate(r) \/ GoogleCreate(r)
      PROVE  /\ SameRow(u) \/ NewVersion(u)
             /\ clobbered \subseteq clobbered'
  <2>1. /\ req[r].user \in Users /\ req[r].new \in Row
        /\ req[r].new.status = "ACTIVE"
        /\ WriteRow(req[r].user, req[r].new)
        /\ UNCHANGED history
    BY <1>0, <1>1, RequestFields
       DEF RegisterCreate, GoogleCreate, TypeOK, CreatedActive
  <2> QED BY <1>0, <2>1, RowWritten DEF SameRow, NewVersion, history
<1>2. ASSUME NEW r \in Requests, UpdateRow(r)
      PROVE  /\ SameRow(u) \/ NewVersion(u)
             /\ clobbered \subseteq clobbered'
  <2>1. /\ req[r].user \in Users /\ req[r].new \in Row
        /\ Exists(req[r].user)
        /\ WriteRow(req[r].user, req[r].new)
        /\ blockedAt' = blockedAt
        /\ \/ req[r].new.status = row[req[r].user].status
           \/ req[r].user \in clobbered'
        /\ clobbered \subseteq clobbered'
    BY <1>0, <1>2, RequestFields DEF UpdateRow, TypeOK, RowRefs
  <2> QED BY <1>0, <2>1, RowWritten DEF SameRow, NewVersion
<1>3. ASSUME NEW r \in Requests, WriteProfile(r)
      PROVE  /\ SameRow(u) \/ NewVersion(u)
             /\ clobbered \subseteq clobbered'
  <2>1. /\ req[r].user \in Users /\ req[r].name \in Names
        /\ Exists(req[r].user) /\ row[req[r].user] \in Row
        /\ WriteRow(req[r].user, Renamed(row[req[r].user], req[r].name))
        /\ UNCHANGED history
    BY <1>0, <1>3, RequestFields
       DEF WriteProfile, TypeOK, RowRefs, Exists
  <2> QED BY <1>0, <2>1, RowWritten, RenamedFacts
          DEF SameRow, NewVersion, history
<1>4. ASSUME NEW r \in Requests, CommitStatus(r)
      PROVE  /\ SameRow(u) \/ NewVersion(u)
             /\ clobbered \subseteq clobbered'
  <2> DEFINE v == req[r].user
             s == req[r].status
  <2>1. /\ v \in Users /\ s \in Status
        /\ Exists(v) /\ row[v] \in Row
        /\ WriteRow(v, Restatused(row[v], s))
        /\ clobbered' = clobbered
        /\ s = "ACTIVE" => blockedAt' = blockedAt
        /\ s # "ACTIVE" =>
             blockedAt' = IF row[v].status = "ACTIVE"
                          THEN [blockedAt EXCEPT ![v] = version'[v]]
                          ELSE blockedAt
    BY <1>0, <1>4, RequestFields
       DEF CommitStatus, TypeOK, RowRefs, Exists
  <2>2. /\ row'[v].status = s /\ row'[v] # NoRow
        /\ version'[v] = version[v] + 1
        /\ \A w \in Users : w # v => /\ row'[w] = row[w]
                                     /\ version'[w] = version[w]
    BY <1>0, <2>1, RowWritten, RestatusedFacts
  <2>3. /\ \A w \in Users : w # v => blockedAt'[w] = blockedAt[w]
        /\ \/ s = "ACTIVE"
           \/ row[v].status # "ACTIVE" /\ blockedAt'[v] = blockedAt[v]
           \/ blockedAt'[v] = version[v] + 1
    BY <1>0, <2>1, <2>2 DEF TypeOK
  <2> HIDE DEF v, s
  <2> QED BY <2>1, <2>2, <2>3 DEF SameRow, NewVersion
<1>5. ASSUME UNCHANGED <<row, version, history>>
      PROVE  /\ SameRow(u)
             /\ clobbered \subseteq clobbered'
  BY <1>5 DEF SameRow, history
<1> QED BY <1>1, <1>2, <1>3, <1>4, <1>5, RowWriters

(***************************************************************************)
(* What a request remembers after a step of its own, as far as rows and    *)
(* revocations are concerned.                                              *)
(***************************************************************************)
RowsAsRead == UNCHANGED <<row, version, history>>

\* A path that checked the status of the row it read.
Checks(q) ==
  /\ q.pc = "save" /\ q.parent = 0
  /\ q.user \in Users
  /\ Active(q.user)
  /\ q.read = version[q.user]

\* A path that copied the row it read, to write the whole copy back.
Copies(q) ==
  /\ q.pc \in {"verify", "link", "reset"}
  /\ q.user \in Users
  /\ q.read = version[q.user]
  /\ KeepsOthers(q.pc, row[q.user], q.new)

Prepares(q) == q.pc \in {"register", "googleCreate"} /\ q.new.status = "ACTIVE"

Neutral == {"idle", "googleEmail", "profile", "status", "refreshUser"}

LEMMA OwnOutcome ==
  ASSUME TypeInv, NEW q \in Requests, Step(q)
  PROVE  \/ req'[q].pc \in Neutral
         \/ Prepares(req'[q])
         \/ RowsAsRead /\ (Checks(req'[q]) \/ Copies(req'[q]))
         \/ UpdateRow(q) /\ req'[q].pc = "save" /\ ~req'[q].checked
         \/ RefreshUser(q) \/ RefreshRevoke(q) \/ BeginStatus(q)
<1>0. TypeOK
  BY DEF TypeInv
<1>a. ASSUME NEW next, Goto(q, next), next.pc \in Neutral
      PROVE  req'[q].pc \in Neutral
  BY <1>0, <1>a, GotoIsOwn
<1>b. ASSUME Done(q)
      PROVE  req'[q].pc \in Neutral
  BY <1>a, <1>b DEF Done, Neutral
<1>c. ASSUME NEW u \in Users, Active(u),
             Goto(q, NewSession(u, TRUE, version[u]))
      PROVE  Checks(req'[q])
  BY <1>0, <1>c, GotoIsOwn DEF Checks, NewSession
<1>d. ASSUME NEW p, NEW s, NEW n, NEW u,
             NEW pc \in {"register", "googleCreate"},
             Goto(q, [pc |-> pc, user |-> u, new |-> NewRow(p, s, n)])
      PROVE  Prepares(req'[q])
  BY <1>0, <1>d, GotoIsOwn DEF Prepares, NewRow
<1>e. ASSUME NEW u \in Users, NEW new, NEW pc \in {"verify", "link", "reset"},
             KeepsOthers(pc, row[u], new),
             Goto(q, [pc |-> pc, user |-> u, read |-> version[u],
                      new |-> new])
      PROVE  Copies(req'[q])
  BY <1>0, <1>e, GotoIsOwn DEF Copies
<1>f. ASSUME NEW u \in Users, Exists(u)
      PROVE  row[u] \in Row
  BY <1>0, <1>f DEF TypeOK, Exists
<1>1. ASSUME NEW u \in Users, Login(q, u)
      PROVE  RowsAsRead /\ Checks(req'[q])
  BY <1>1, <1>c DEF Login, MayLogin, RowsAsRead
<1>2. ASSUME NEW u \in Users, VerifyEmail(q, u)
      PROVE  RowsAsRead /\ Copies(req'[q])
  <2>1. KeepsOthers("verify", row[u], Verified(row[u]))
    BY <1>2, <1>f, VerifiedFacts DEF VerifyEmail, KeepsOthers
  <2> QED BY <1>2, <2>1, <1>e DEF VerifyEmail, RowsAsRead
<1>3. ASSUME NEW u \in Users, NEW p \in Passwords, ResetPassword(q, u, p)
      PROVE  RowsAsRead /\ Copies(req'[q])
  <2>1. KeepsOthers("reset", row[u], Rekeyed(row[u], p))
    BY <1>3, <1>f, RekeyedFacts DEF ResetPassword, KeepsOthers
  <2> QED BY <1>3, <2>1, <1>e DEF ResetPassword, RowsAsRead
<1>4. ASSUME NEW u \in Users, NEW p \in Passwords, NEW n \in Names,
             Register(q, u, p, n)
      PROVE  Prepares(req'[q])
  BY <1>4, <1>d DEF Register
<1>5. ASSUME NEW s \in Subs, NEW e \in Users, GoogleById(q, s, e)
      PROVE  RowsAsRead /\ Checks(req'[q])
  BY <1>5, <1>c DEF GoogleById, RowsAsRead
<1>6. ASSUME NEW s \in Subs, NEW e \in Users, GoogleUnknown(q, s, e)
      PROVE  req'[q].pc \in Neutral
  BY <1>6, <1>a DEF GoogleUnknown, Neutral
<1>7. ASSUME GoogleByEmail(q)
      PROVE  Prepares(req'[q]) \/ (RowsAsRead /\ Copies(req'[q]))
  <2> DEFINE u == req[q].user
             s == req[q].sub
  <2>1. u \in Users /\ s \in Subs
    BY <1>0, <1>7, RequestFields DEF GoogleByEmail, TypeOK
  <2>2. CASE Exists(u)
    <3>1. KeepsOthers("link", row[u], Linked(row[u], s))
      BY <2>1, <2>2, <1>f, LinkedFacts DEF KeepsOthers
    <3> QED BY <1>7, <2>1, <2>2, <3>1, <1>e DEF GoogleByEmail, RowsAsRead
  <2>3. CASE ~Exists(u)
    <3>1. PICK n \in Names :
            Goto(q, [pc |-> "googleCreate", user |-> u,
                     new |-> NewRow(NoPassword, s, n)])
      BY <1>7, <2>3 DEF GoogleByEmail
    <3>2. req'[q] = [pc |-> "googleCreate", user |-> u,
                     new |-> NewRow(NoPassword, s, n)]
      BY <1>0, <3>1, GotoIsOwn
    <3>3. NewRow(NoPassword, s, n).status = "ACTIVE"
      BY DEF NewRow
    <3>4. /\ req'[q].pc = "googleCreate"
          /\ req'[q].new = NewRow(NoPassword, s, n)
      BY <3>2
    <3> QED BY <3>3, <3>4 DEF Prepares
  <2> QED BY <2>2, <2>3
<1>8. ASSUME UpdateRow(q)
      PROVE  \/ req'[q].pc \in Neutral
             \/ req'[q].pc = "save" /\ ~req'[q].checked
  <2>1. \/ Done(q)
        \/ Goto(q, NewSession(req[q].user, FALSE, req[q].read))
    BY <1>8 DEF UpdateRow
  <2> QED BY <2>1, <1>0, <1>b, GotoIsOwn DEF NewSession
<1>9. ASSUME NEW t \in Issued, RefreshFind(q, t)
      PROVE  req'[q].pc \in Neutral
  BY <1>9, <1>a DEF RefreshFind, Neutral
<1>10. ASSUME NEW u \in Users,
              \/ \E n \in Names : UpdateProfile(q, u, n)
              \/ \E s \in Status : UpdateStatus(q, u, s)
       PROVE  req'[q].pc \in Neutral
  BY <1>10, <1>a DEF UpdateProfile, UpdateStatus, Neutral
<1>11. ASSUME \/ RegisterCreate(q) \/ SaveSession(q) \/ GoogleCreate(q)
              \/ WriteProfile(q) \/ CommitStatus(q) \/ Fail(q)
       PROVE  req'[q].pc \in Neutral
  BY <1>11, <1>b DEF RegisterCreate, SaveSession, GoogleCreate, WriteProfile,
                     CommitStatus, Fail
<1> QED
  BY <1>1, <1>2, <1>3, <1>4, <1>5, <1>6, <1>7, <1>8, <1>9, <1>10, <1>11
  DEF Step

(***************************************************************************)
(* Rows about to be inserted are ACTIVE.                                   *)
(***************************************************************************)
LEMMA CreatedActiveStep ==
  ASSUME TypeInv, CreatedActive, [Next]_vars
  PROVE  CreatedActive'
<1> SUFFICES ASSUME NEW q \in Requests,
                    req'[q].pc \in {"register", "googleCreate"}
             PROVE  req'[q].new.status = "ACTIVE"
  BY DEF CreatedActive
<1>1. CASE req'[q] = req[q]
  BY <1>1 DEF CreatedActive
<1>2. CASE Step(q)
  <2>1. RefreshUser(q) => req'[q].pc = "refreshRevoke"
    BY GotoIsOwn DEF RefreshUser, TypeInv
  <2>2. RefreshRevoke(q) => req'[q].pc = "save"
    BY GotoIsOwn DEF RefreshRevoke, TypeInv
  <2>3. BeginStatus(q) => req'[q].pc = "commit"
    BY GotoIsOwn DEF BeginStatus, TypeInv
  <2> QED BY <1>2, <2>1, <2>2, <2>3, OwnOutcome
          DEF Prepares, Checks, Copies, Neutral
<1> QED BY <1>1, <1>2, OwnStep DEF TypeInv
=============================================================================
