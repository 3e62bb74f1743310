CONSTANTS
  r1 = r1
  r2 = r2
  ip1 = ip1
  Requests <- MCRequests
  Ips <- MCIps
  Routes = {"verify", "email"}
  Window <- MCWindow
  Limit <- MCLimit
  CodeTtl = 3
  MaxPeriods = 2
SYMMETRY Symmetry
SPECIFICATION Spec
INVARIANTS
  TypeOK
  LimitHolds
  GuessesAreBounded
PROPERTY RefusalIsEarned
