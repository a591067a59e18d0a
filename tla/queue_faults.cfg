\* One notebook, one run, saves and cleanups that fail twice, one restart.
CONSTANTS
  Notebooks = {n1}
  Runs = {r1}
  MaxJobs = 3
  MaxPending = 2
  DedupeTTL = 1
  MaxTime = 2
  Never = Never
  NoInfo = NoInfo
  Loop = Loop
  FaultyOps = {"save", "cleanup"}
  MaxFaults = 2
  MaxCrashes = 1
SPECIFICATION Spec
INVARIANTS
  TypeOK
  SlotsCounted
  ActiveIsExact
  InflightOwned
  SoleWriter
  OneRunOneSnapshot
  AliasAgrees
  UnsticksWithoutRestart
  PersistedIsDelivered
  FifoPerNotebook
PROPERTY ImplementsLog
CHECK_DEADLOCK FALSE
