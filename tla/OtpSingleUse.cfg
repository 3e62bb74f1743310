\* The single-use comment of both services.
CONSTANTS
  Requests = {r1, r2}
  MaxAttempts = 2
  MaxIssues = 2
SPECIFICATION Spec
INVARIANT SingleUse
