\* Every valid list of up to four checks on two ports.
CONSTANTS
  p1 = p1
  p2 = p2
  Ports = {p1, p2}
  MaxChecks = 4
SPECIFICATION ChecksSpec
SYMMETRY Symmetry
INVARIANTS
  ReportIsComplete
  SkipsAreJustified
CHECK_DEADLOCK FALSE
