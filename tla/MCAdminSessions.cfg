\* One admin, clock readings 0 to 3, tokens that live for two: long enough for a
\* token to expire before, between and after the awaits of two requests.
CONSTANTS
  r1 = r1
  r2 = r2
  Requests <- MCRequests
  Admins = {a1}
  Lifetime = 2
  Week = 3
  MaxTime = 3
SYMMETRY RequestSymmetry
SPECIFICATION Spec
INVARIANTS
  TypeOK
  RevocationOutlivesToken
  RevokedIsRefused
  RotatedIsRevoked
