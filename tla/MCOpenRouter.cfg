\* Two calls of up to three requests, as in the code; a model that sends "call_1" itself.
SPECIFICATION FairSpec
CONSTANTS
  MaxRetries = 3
  Timeout = 2
  MaxCalls = 2
  MaxProgress = 2
  GivenIds = {1, 7}
  NoId = NoId
  MaxEntries = 2
INVARIANTS
  UnbookedHasACause
  BookedOncePerCall
  WaitIsBounded
  CallsAreTheModels
PROPERTIES
  CallsEnd
CHECK_DEADLOCK FALSE
