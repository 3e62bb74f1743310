\* One account that is only ever created, and enough tokens for a session and
\* two successors.
CONSTANTS
  r1 = r1
  r2 = r2
  Requests <- MCRequests
  Users = {u1}
  Passwords = {pw1}
  Subs = {g1}
  Names = {n1}
  NoRow = NoRow
  NoPassword = NoPassword
  NoSub = NoSub
  MaxTokens = 3
  MaxVersion = 1
SYMMETRY RequestSymmetry
SPECIFICATION Spec
INVARIANTS
  SessionsAreProven
  RotatedIsRevoked
  NoReplayAfterRotation
PROPERTY ImplementsSessionStore
