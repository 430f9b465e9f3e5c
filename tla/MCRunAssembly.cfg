\* Every valid template with up to three checks on one port, in every network mode; two calls
\* of the daemon that fail, a cancellation, a crash.
CONSTANTS
  p1 = p1
  None = None
  Ports = {p1}
  MaxChecks = 3
  MaxFaults = 2
SPECIFICATION FairSpec
INVARIANTS
  LeftoversHaveACause
  ChecksAreOffline
  RefusalsHaveACause
  CheckerReachesSandbox
PROPERTIES
  TornDown
CHECK_DEADLOCK FALSE
