SPECIFICATION Spec
CONSTANTS
  q1 = q1
  Requests = {q1}
  Attempts = 3
  Sends = 3
INVARIANTS
  TypeOK
  LedgerTrue
  UsageLogged
  SpendBounded
CHECK_DEADLOCK FALSE
