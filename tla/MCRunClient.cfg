\* Three events, so that the page, the socket and neither can each have one of them.
SPECIFICATION FairSpec
CONSTANTS
  MaxEvents = 3
  MaxFaults = 1
INVARIANTS
  ViewHasNoGaps
  FinishedIsComplete
  SettledIsFinal
PROPERTIES
  RunSettles
CHECK_DEADLOCK FALSE
