------------------------------ MODULE Accounts ------------------------------
(***************************************************************************)
(* Customer accounts and their refresh-token sessions: the rows of "users" *)
(* and "refresh_tokens", and the use cases that read and write them.       *)
(*                                                                         *)
(* A request is a sequence of database calls.  Every call (one statement,  *)
(* or one transaction) is a step; between two calls of one request any     *)
(* call of another may run, so what a request has read may be stale when   *)
(* it is used.  A request that is refused changes nothing and is not a     *)
(* step; one that fails half way (database error, crash) is Fail.          *)
(*                                                                         *)
(* A user is identified by the e-mail address: it is unique, never changes *)
(* and no use case deletes a row.  A refresh token is identified by its    *)
(* index in the table of issued tokens (its hash is of 64 random bytes).   *)
(***************************************************************************)
EXTENDS Integers, Sequences

CONSTANTS
  Users,        \* e-mail addresses that may own an account
  Requests,     \* slots for HTTP requests in flight at the same time
  Passwords,    \* password hashes
  Subs,         \* Google account ids (the "sub" of an ID token)
  Names,        \* values of the profile columns
  NoRow, NoPassword, NoSub,
  MaxTokens,    \* bound: refresh tokens ever issued
  MaxVersion    \* bound: writes of one user row

Status == {"ACTIVE", "INACTIVE", "BLOCKED"}

Row == [status   : Status,
        verified : BOOLEAN,
        password : Passwords \union {NoPassword},
        google   : Subs \union {NoSub},
        name     : Names]

ASSUME AccountsAssumption ==
  /\ NoRow \notin Row
  /\ NoPassword \notin Passwords
  /\ NoSub \notin Subs
  /\ MaxTokens \in Nat
  /\ MaxVersion \in Nat

VARIABLES
  row,       \* row[u]: the user row, NoRow before registration
  tokens,    \* refresh tokens in the order they were saved
  temp,      \* users with an unexpired password-reset token (a JWT)
  req,       \* req[r]: what request r remembers between its database calls
  \* History variables: no code reads them.
  proven,    \* addresses whose ownership an OTP or Google has confirmed
  version,   \* version[u]: number of writes of row[u]
  fence,     \* fence[u]: last token covered by a committed revoke-all
  blockedAt, \* blockedAt[u]: version at which u last ceased to be ACTIVE
  clobbered  \* users whose status a whole-row update has overwritten

history == <<fence, blockedAt, clobbered>>
vars == <<row, tokens, temp, req, proven, version, history>>

\* The refresh token row, with three history fields: what the request that
\* saved it had read, and whether its path checks the account's status.
Token == [owner   : Users,
          parent  : Nat,      \* the token it replaces, 0 for a new session
          revoked : BOOLEAN,
          expired : BOOLEAN,
          checked : BOOLEAN,
          read    : Nat,      \* version of the row it read
          found   : Nat]      \* tokens issued when its parent was looked up

\* A request between two of its database calls, named after the next one.
Idle         == [pc : {"idle"}]
Creating     == [pc : {"register", "googleCreate"}, user : Users, new : Row]
Updating     == [pc : {"verify", "link", "reset"}, user : Users,
                 new : Row, read : Nat]
Saving       == [pc : {"save"}, user : Users, parent : Nat, found : Nat,
                 checked : BOOLEAN, read : Nat]
FindingUser  == [pc : {"refreshUser"}, token : Nat, found : Nat]
Rotating     == [pc : {"refreshRevoke"}, token : Nat, found : Nat, read : Nat]
FindingEmail == [pc : {"googleEmail"}, user : Users, sub : Subs]
SettingName  == [pc : {"profile"}, user : Users, name : Names]
SettingStat  == [pc : {"status"}, user : Users, status : Status]
Committing   == [pc : {"commit"}, user : Users, status : Status, cut : Nat]

Request == Idle \union Creating \union Updating \union Saving
           \union FindingUser \union Rotating \union FindingEmail
           \union SettingName \union SettingStat \union Committing

TypeOK ==
  /\ row \in [Users -> Row \union {NoRow}]
  /\ tokens \in Seq(Token)
  /\ temp \subseteq Users
  /\ req \in [Requests -> Request]
  /\ proven \subseteq Users
  /\ version \in [Users -> Nat]
  /\ fence \in [Users -> Nat]
  /\ blockedAt \in [Users -> Nat]
  /\ clobbered \subseteq Users

Init ==
  /\ row = [u \in Users |-> NoRow]
  /\ tokens = <<>>
  /\ temp = {}
  /\ req = [r \in Requests |-> [pc |-> "idle"]]
  /\ proven = {}
  /\ version = [u \in Users |-> 0]
  /\ fence = [u \in Users |-> 0]
  /\ blockedAt = [u \in Users |-> 0]
  /\ clobbered = {}

-----------------------------------------------------------------------------
(* Helpers. *)

Exists(u) == row[u] # NoRow

\* The status check of login, refresh, sign-in by googleId and profile
\* update; the first form forgets that an account may be INACTIVE.
ActiveMutant(u) == Exists(u) /\ row[u].status # "BLOCKED"
Active(u) == Exists(u) /\ row[u].status = "ACTIVE"

\* What login demands of the row; the first form does not ask for the
\* verification.
MayLoginMutant(u) == Active(u) /\ row[u].password # NoPassword
MayLogin(u) == Active(u) /\ row[u].password # NoPassword /\ row[u].verified

\* RefreshTokenEntity.isValid; the first form looks at the expiry alone.
IsValidMutant(t) == ~tokens[t].expired
IsValid(t) == ~tokens[t].revoked /\ ~tokens[t].expired

Issued == 1..Len(tokens)

Goto(r, next) == req' = [req EXCEPT ![r] = next]
Done(r) == Goto(r, [pc |-> "idle"])

\* What a path remembers until it saves its session; a new session has no
\* parent.
NewSession(u, checked, read) ==
  [pc |-> "save", user |-> u, parent |-> 0, found |-> 0,
   checked |-> checked, read |-> read]

\* markEmailAsVerified; the first form activates the account as well.
VerifiedMutant(old) == [old EXCEPT !.verified = TRUE, !.status = "ACTIVE"]
Verified(old) == [old EXCEPT !.verified = TRUE]

\* linkGoogleAccount, changePassword, and the SET of the two UPDATEs that
\* write only the columns they mean to.
Linked(old, sub) == [old EXCEPT !.google = sub, !.verified = TRUE]
Rekeyed(old, password) == [old EXCEPT !.password = password]
Renamed(old, name) == [old EXCEPT !.name = name]
Restatused(old, status) == [old EXCEPT !.status = status]

\* UserEntity.create: every account starts ACTIVE; the first form invents a
\* status the schema does not have.
NewRowMutant(password, sub, name) ==
  [status |-> "PENDING", verified |-> sub # NoSub, password |-> password,
   google |-> sub, name |-> name]
NewRow(password, sub, name) ==
  [status |-> "ACTIVE", verified |-> sub # NoSub, password |-> password,
   google |-> sub, name |-> name]

\* One INSERT into refresh_tokens.
SaveToken(u, parent, found, checked, read) ==
  /\ Len(tokens) < MaxTokens
  /\ tokens' = Append(tokens, [owner |-> u, parent |-> parent,
                               revoked |-> FALSE, expired |-> FALSE,
                               checked |-> checked, read |-> read,
                               found |-> found])

\* UPDATE refresh_tokens SET revoked_at for the tokens in S; the first form
\* updates only those that have not expired.
Revoked(token) == [token EXCEPT !.revoked = TRUE]
RevokeTokensMutant(S) ==
  tokens' = [t \in Issued |->
               IF t \in S /\ ~tokens[t].expired
               THEN Revoked(tokens[t]) ELSE tokens[t]]
RevokeTokens(S) ==
  tokens' = [t \in Issued |->
               IF t \in S THEN Revoked(tokens[t]) ELSE tokens[t]]

\* The tokens the UPDATE of a status change sees: all of the user's that
\* were saved before it; the first form misses the newest of them.
CoveredMutant(u, cut) == {t \in 1..(cut - 1) : tokens[t].owner = u}
Covered(u, cut) == {t \in 1..cut : tokens[t].owner = u}

\* One UPDATE or INSERT of the row of u.
WriteRow(u, new) ==
  /\ version[u] < MaxVersion
  /\ row' = [row EXCEPT ![u] = new]
  /\ version' = [version EXCEPT ![u] = @ + 1]

\* Tokens that a status transaction has updated and not yet committed are
\* locked: another UPDATE of them waits.
Locked(t) ==
  \E r \in Requests : /\ req[r].pc = "commit"
                      /\ req[r].status # "ACTIVE"
                      /\ t \in Covered(req[r].user, req[r].cut)

\* So is the row: another UPDATE of it waits for the commit.
RowLocked(u) ==
  \E r \in Requests : req[r].pc = "commit" /\ req[r].user = u

-----------------------------------------------------------------------------
(* Registration. *)

\* RegisterUserUseCase up to the INSERT: the e-mail must be free when read.
Register(r, u, password, name) ==
  /\ req[r].pc = "idle"
  /\ ~Exists(u)
  /\ Goto(r, [pc |-> "register", user |-> u,
              new |-> NewRow(password, NoSub, name)])
  /\ UNCHANGED <<row, tokens, temp, proven, version, history>>

\* The INSERT.  If the e-mail was taken meanwhile the unique index refuses
\* it, and the request ends as any failed one does.
RegisterCreate(r) ==
  /\ req[r].pc = "register"
  /\ ~Exists(req[r].user)
  /\ WriteRow(req[r].user, req[r].new)
  /\ Done(r)
  /\ UNCHANGED <<tokens, temp, proven, history>>

-----------------------------------------------------------------------------
(* Ways to open a session. *)

\* LoginUseCase up to the INSERT of its token: one read of the row, on
\* which the password, the verification and the status are checked.
Login(r, u) ==
  /\ req[r].pc = "idle"
  /\ MayLogin(u)
  /\ Goto(r, NewSession(u, TRUE, version[u]))
  /\ UNCHANGED <<row, tokens, temp, proven, version, history>>

\* The INSERT that ends login, verify-email, Google sign-in and refresh.
SaveSession(r) ==
  /\ req[r].pc = "save"
  /\ SaveToken(req[r].user, req[r].parent, req[r].found,
               req[r].checked, req[r].read)
  /\ Done(r)
  /\ UNCHANGED <<row, temp, proven, version, history>>

\* VerifyEmailOtpUseCase once the OTP is accepted: reads the row, sets
\* isEmailVerified in the copy.  The status is not checked.
VerifyEmail(r, u) ==
  /\ req[r].pc = "idle"
  /\ Exists(u)
  /\ proven' = proven \union {u}
  /\ Goto(r, [pc |-> "verify", user |-> u, read |-> version[u],
              new |-> Verified(row[u])])
  /\ UNCHANGED <<row, tokens, temp, version, history>>

\* GoogleAuthUseCase, an account found by googleId: it must be ACTIVE.
GoogleById(r, s, email) ==
  /\ req[r].pc = "idle"
  /\ proven' = proven \union {email}
  /\ \E u \in Users : /\ Active(u)
                      /\ row[u].google = s
                      /\ Goto(r, NewSession(u, TRUE, version[u]))
  /\ UNCHANGED <<row, tokens, temp, version, history>>

\* GoogleAuthUseCase, no account has this googleId: look by e-mail next.
GoogleUnknown(r, s, email) ==
  /\ req[r].pc = "idle"
  /\ \A u \in Users : Exists(u) => row[u].google # s
  /\ proven' = proven \union {email}
  /\ Goto(r, [pc |-> "googleEmail", user |-> email, sub |-> s])
  /\ UNCHANGED <<row, tokens, temp, version, history>>

\* findByEmail: an existing account is linked (the mapper never yields a
\* null passwordHash, so the test before the link always passes, and the
\* status is not checked); otherwise a new account is prepared.
GoogleByEmail(r) ==
  LET u == req[r].user
      s == req[r].sub
  IN  /\ req[r].pc = "googleEmail"
      /\ IF Exists(u)
         THEN Goto(r, [pc |-> "link", user |-> u, read |-> version[u],
                       new |-> Linked(row[u], s)])
         ELSE \E n \in Names :
                Goto(r, [pc |-> "googleCreate", user |-> u,
                         new |-> NewRow(NoPassword, s, n)])
      /\ UNCHANGED <<row, tokens, temp, proven, version, history>>

\* createWithSession: the row and its first token in one transaction.
GoogleCreate(r) ==
  LET u == req[r].user
  IN  /\ req[r].pc = "googleCreate"
      /\ ~Exists(u)
      /\ WriteRow(u, req[r].new)
      /\ SaveToken(u, 0, 0, TRUE, version[u] + 1)
      /\ Done(r)
      /\ UNCHANGED <<temp, proven, history>>

-----------------------------------------------------------------------------
(* Password reset. *)

\* CustomerVerifyForgotPasswordUseCase, the OTP accepted: a reset token.
VerifyForgotPassword(u) ==
  /\ Exists(u)
  /\ temp' = temp \union {u}
  /\ proven' = proven \union {u}
  /\ UNCHANGED <<row, tokens, req, version, history>>

\* CustomerResetPasswordUseCase: reads the row, sets the hash in the copy.
ResetPassword(r, u, password) ==
  /\ req[r].pc = "idle"
  /\ u \in temp
  /\ Exists(u)
  /\ Goto(r, [pc |-> "reset", user |-> u, read |-> version[u],
              new |-> Rekeyed(row[u], password)])
  /\ UNCHANGED <<row, tokens, temp, proven, version, history>>

TempExpires(u) ==
  /\ u \in temp
  /\ temp' = temp \ {u}
  /\ UNCHANGED <<row, tokens, req, proven, version, history>>

\* PrismaBaseRepository.update: every column of the copy is written, the
\* ones the request never meant to change included.  A reset ends here,
\* the other two go on to save a session.
UpdateRow(r) ==
  LET u == req[r].user
  IN  /\ req[r].pc \in {"verify", "link", "reset"}
      /\ ~RowLocked(u)
      /\ WriteRow(u, req[r].new)
      /\ IF req[r].pc = "reset" THEN Done(r)
         ELSE Goto(r, NewSession(u, FALSE, req[r].read))
      /\ clobbered' = IF req[r].new.status = row[u].status THEN clobbered
                      ELSE clobbered \union {u}
      /\ UNCHANGED <<tokens, temp, proven, fence, blockedAt>>

-----------------------------------------------------------------------------
(* Refresh and logout. *)

\* RefreshTokenUseCase: findByTokenHash, the token must be valid.
RefreshFind(r, t) ==
  /\ req[r].pc = "idle"
  /\ IsValid(t)
  /\ Goto(r, [pc |-> "refreshUser", token |-> t, found |-> Len(tokens)])
  /\ UNCHANGED <<row, tokens, temp, proven, version, history>>

\* findById: the owner must be ACTIVE.
RefreshUser(r) ==
  LET u == tokens[req[r].token].owner
  IN  /\ req[r].pc = "refreshUser"
      /\ Active(u)
      /\ Goto(r, [pc |-> "refreshRevoke", token |-> req[r].token,
                  found |-> req[r].found, read |-> version[u]])
      /\ UNCHANGED <<row, tokens, temp, proven, version, history>>

\* revoke: the old token is revoked whatever became of it meanwhile.
RefreshRevoke(r) ==
  LET t == req[r].token
  IN  /\ req[r].pc = "refreshRevoke"
      /\ ~Locked(t)
      /\ RevokeTokens({t})
      /\ Goto(r, [pc |-> "save", user |-> tokens[t].owner, parent |-> t,
                  found |-> req[r].found, checked |-> TRUE,
                  read |-> req[r].read])
      /\ UNCHANGED <<row, temp, proven, version, history>>

\* LogoutUseCase.
Logout(t) ==
  /\ ~Locked(t)
  /\ RevokeTokens({t})
  /\ UNCHANGED <<row, temp, req, proven, version, history>>

Expired(token) == [token EXCEPT !.expired = TRUE]
TokenExpires(t) ==
  /\ tokens' = [tokens EXCEPT ![t] = Expired(@)]
  /\ UNCHANGED <<row, temp, req, proven, version, history>>

-----------------------------------------------------------------------------
(* Profile and status. *)

\* UpdateCustomerProfileUseCase: the account must be ACTIVE when read.
UpdateProfile(r, u, name) ==
  /\ req[r].pc = "idle"
  /\ Active(u)
  /\ Goto(r, [pc |-> "profile", user |-> u, name |-> name])
  /\ UNCHANGED <<row, tokens, temp, proven, version, history>>

\* updateProfile: only the profile's columns are written.
WriteProfile(r) ==
  LET u == req[r].user
  IN  /\ req[r].pc = "profile"
      /\ ~RowLocked(u)
      /\ WriteRow(u, Renamed(row[u], req[r].name))
      /\ Done(r)
      /\ UNCHANGED <<tokens, temp, proven, history>>

\* UpdateCustomerStatusUseCase: nothing to do if the status is already so.
UpdateStatus(r, u, status) ==
  /\ req[r].pc = "idle"
  /\ Exists(u)
  /\ row[u].status # status
  /\ Goto(r, [pc |-> "status", user |-> u, status |-> status])
  /\ UNCHANGED <<row, tokens, temp, proven, version, history>>

\* The statements of updateStatus' transaction: the row is locked until the
\* commit, and the tokens it will revoke are those its UPDATE can see.
BeginStatus(r) ==
  LET u == req[r].user
  IN  /\ req[r].pc = "status"
      /\ ~RowLocked(u)
      /\ Goto(r, [pc |-> "commit", user |-> u, status |-> req[r].status,
                  cut |-> Len(tokens)])
      /\ UNCHANGED <<row, tokens, temp, proven, version, history>>

\* The commit: status and revocations become visible together.
CommitStatus(r) ==
  LET u == req[r].user
      s == req[r].status
      cut == req[r].cut
  IN  /\ req[r].pc = "commit"
      /\ WriteRow(u, Restatused(row[u], s))
      /\ IF s = "ACTIVE"
         THEN UNCHANGED <<tokens, fence, blockedAt>>
         ELSE /\ RevokeTokens(Covered(u, cut))
              /\ fence' = [fence EXCEPT ![u] = cut]
              /\ blockedAt' = IF row[u].status = "ACTIVE"
                              THEN [blockedAt EXCEPT ![u] = version'[u]]
                              ELSE blockedAt
      /\ Done(r)
      /\ UNCHANGED <<temp, proven, clobbered>>

-----------------------------------------------------------------------------

\* The request fails: refused by a check or a unique index, a database
\* error, or the process dies.  What it has committed stays.
Fail(r) ==
  /\ req[r].pc # "idle"
  /\ Done(r)
  /\ UNCHANGED <<row, tokens, temp, proven, version, history>>

Step(r) ==
  \/ \E u \in Users : \/ Login(r, u) \/ VerifyEmail(r, u)
                      \/ \E p \in Passwords : \/ ResetPassword(r, u, p)
                                              \/ \E n \in Names :
                                                   Register(r, u, p, n)
                      \/ \E s \in Subs : \/ GoogleById(r, s, u)
                                         \/ GoogleUnknown(r, s, u)
                      \/ \E n \in Names : UpdateProfile(r, u, n)
                      \/ \E s \in Status : UpdateStatus(r, u, s)
  \/ \E t \in Issued : RefreshFind(r, t)
  \/ RegisterCreate(r) \/ SaveSession(r) \/ GoogleByEmail(r)
  \/ GoogleCreate(r) \/ UpdateRow(r) \/ RefreshUser(r) \/ RefreshRevoke(r)
  \/ WriteProfile(r) \/ BeginStatus(r) \/ CommitStatus(r) \/ Fail(r)

Next ==
  \/ \E r \in Requests : Step(r)
  \/ \E u \in Users : VerifyForgotPassword(u) \/ TempExpires(u)
  \/ \E t \in Issued : Logout(t) \/ TokenExpires(t)

Spec == Init /\ [][Next]_vars

-----------------------------------------------------------------------------
(* Properties. *)

\* Every session belongs to an address whose ownership was confirmed, by an
\* OTP or by Google: registering alone never opens one, whatever requests
\* interleave and whichever stale copy of the row is written back.
SessionsAreProven ==
  \A t \in Issued : tokens[t].owner \in proven

\* Rotation revokes before it replaces: a refresh token that has a
\* successor is revoked, also when the request dies between the two.
RotatedIsRevoked ==
  \A t \in Issued : tokens[t].parent # 0 => tokens[tokens[t].parent].revoked

\* A token is rotated twice only by refreshes that overlap: the one that
\* saved the later successor had looked the token up before the earlier
\* successor existed.  A replay after the rotation finished is refused.
NoReplayAfterRotation ==
  \A s, t \in Issued :
    /\ tokens[s].parent = tokens[t].parent
    /\ tokens[s].parent # 0
    /\ s < t
    => tokens[t].found < s

\* Blocking or deactivating an account revokes every session its
\* transaction could see, and no later step revives one of them.
RevokeAllIsComplete ==
  \A t \in Issued : t <= fence[tokens[t].owner] => tokens[t].revoked

\* A session that login, refresh or sign-in by googleId opens for an
\* account that is not ACTIVE belongs to a request that had read the row
\* before the block, unless a stale copy has overwritten the status.
CheckedSessionsPredateBlock ==
  \A t \in Issued :
    LET u == tokens[t].owner
    IN  /\ row[u].status # "ACTIVE"
        /\ u \notin clobbered
        /\ tokens[t].checked
        => tokens[t].read < blockedAt[u]

\* What a whole-row update of each kind is meant to leave alone.
KeepsOthers(pc, old, new) ==
  /\ new.status = old.status
  /\ new.name = old.name
  /\ pc # "reset" => new.password = old.password
  /\ pc # "link" => new.google = old.google
  /\ pc = "reset" => new.verified = old.verified

\* A whole-row update loses another request's change (a block, a reset, a
\* verification, a link, a profile) only if the row was written between
\* the update's read and its write.
LostUpdateNeedsARace ==
  [][\A r \in Requests :
       /\ req[r].pc \in {"verify", "link", "reset"}
       /\ req'[r] # req[r]
       /\ row' # row
       /\ req[r].read = version[req[r].user]
       => KeepsOthers(req[r].pc, row[req[r].user], row'[req[r].user])]_vars

\* The session table is an append-only table in which an entry opens only
\* for a proven address or in place of a closed one, and never re-opens.
Sessions == INSTANCE SessionStore WITH
  sessions <- [t \in Issued |-> [owner  |-> tokens[t].owner,
                                 parent |-> tokens[t].parent,
                                 open   |-> ~tokens[t].revoked]]

ImplementsSessionStore == Sessions!Spec
=============================================================================
