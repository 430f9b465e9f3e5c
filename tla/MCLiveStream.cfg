\* Two viewers, a queue of two, four events: overflow, early and late joiners, crash.
SPECIFICATION FairSpec
CONSTANTS
  Viewers = {v1, v2}
  AfterValues <- FromStartOrLater
  QueueSize = 2
  MaxEvents = 4
  Sentinel = None
INVARIANTS
  NoGaps
  DeliveredIsJournalled
  SentinelMeansComplete
  ReplayIsComplete
PROPERTIES
  ImplementsEventStream
  FollowersAreReleased
CHECK_DEADLOCK FALSE
