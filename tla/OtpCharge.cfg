\* The comment on resending.
CONSTANTS
  Requests = {r1, r2}
  MaxAttempts = 2
  MaxIssues = 2
SPECIFICATION Spec
PROPERTY GuessChargesItsCode
