\* The test's title: a refresh rotates the token.
CONSTANTS
  Requests = {r1}
  Admins = {a1}
  Lifetime = 2
  Week = 3
  MaxTime = 2
SPECIFICATION Spec
PROPERTY RotationRenews
