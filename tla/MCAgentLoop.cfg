\* Limits an answer reaches exactly or overshoots; a rip cord missed, reset and pulled.
SPECIFICATION FairSpec
CONSTANTS
  MaxIterations = 3
  MaxTokens = 4
  MaxWallClock = 2
  MaxCost = 7
  NoLimit = NoLimit
  PromptPrice = 1
  CompletionPrice = 2
  MaxFailures = 2
  Usages <- TwoUsages
  ReportedCosts = {2}
  NoReport = NoReport
  MaxCalls = 2
  Durations = {0, 1}
INVARIANTS
  NoCallBeyondLimits
  OvershootIsOneAnswer
  FinishedIsLast
  CallsAreAnswered
  RipCordIsExact
PROPERTIES
  Terminates
CHECK_DEADLOCK FALSE
