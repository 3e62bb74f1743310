\* One customer; room for a block and two sessions it must revoke, and two
\* values of the profile, so that a lost update shows.
CONSTANTS
  r1 = r1
  r2 = r2
  Requests <- MCRequests
  Users = {u1}
  Passwords = {pw1}
  Subs = {g1}
  Names = {n1, n2}
  NoRow = NoRow
  NoPassword = NoPassword
  NoSub = NoSub
  MaxTokens = 2
  MaxVersion = 3
SYMMETRY RequestSymmetry
SPECIFICATION Spec
INVARIANTS
  TypeOK
  CheckedSessionsPredateBlock
  RevokeAllIsComplete
PROPERTY LostUpdateNeedsARace
