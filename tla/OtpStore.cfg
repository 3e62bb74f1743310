\* Two requests at a time, two codes, two attempts for each; without
\* symmetry, because of the liveness property.
CONSTANTS
  Requests = {r1, r2}
  MaxAttempts = 2
  MaxIssues = 2
SPECIFICATION FairSpec
INVARIANTS
  TypeOK
  AcceptedWasNewest
  UsedCodeIsGone
  AttemptLimit
  CodesExpire
PROPERTY EveryCodeDies
