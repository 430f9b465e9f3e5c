\* A server and the command line, two syncs, one listing thread, two seconds.
SPECIFICATION Spec
CONSTANTS
  Unknown = Unknown
  NotGiven = NotGiven
  Procs = {p1, p2}
  Servers = {p1}
  Syncs = {s1, s2}
  Threads = {t1}
  Upstream <- Lists
  Bad = Bad
  Fixture = Fixture
  Bundled <- InBundle
  None = None
  Torn = Torn
  MaxTime = 2
  Criteria <- SomeCriteria
INVARIANTS
  ServedIsStored
  SyncedIsServed
  ListingIsRight
PROPERTIES
  SnapshotsStay
SYMMETRY SymmetricSyncs
