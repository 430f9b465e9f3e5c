\* Two runs, two reader threads, one crash, one failing write.
CONSTANTS
  t1 = t1
  t2 = t2
  None = None
  DefaultLimit = 1
  Limit <- LimitOfReader
  Runs = {1, 2}
  Readers = {t1, t2}
  MaxRestarts = 1
  MaxFaults = 1
SPECIFICATION FairSpec
INVARIANTS
  EndedIsRecorded
PROPERTIES
  FinalUnlessRaced
  RunsSettle
  LiveEnds
