\* Four customers, pages of one or two.  The walk ends for good.
CONSTANTS
  Customers = {1, 2, 3, 4}
  DefaultLimit = 1
  MaxLimit = 2
  NotYet = NotYet
CHECK_DEADLOCK FALSE
SPECIFICATION Spec
INVARIANTS
  TypeOK
  PageFitsTotal
  WalkMissesNobody
  NobodyTwice
