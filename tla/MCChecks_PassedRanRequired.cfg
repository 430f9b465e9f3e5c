\* Expected violation: a skipped browser check.
CONSTANTS
  p1 = p1
  Ports = {p1}
  MaxChecks = 2
SPECIFICATION ChecksSpec
INVARIANTS
  PassedRanRequired
CHECK_DEADLOCK FALSE
