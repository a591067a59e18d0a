\* Two notebooks, one run each, reliable store, the pool may be shut down.
CONSTANTS
  Notebooks = {n1, n2}
  Runs = {r1}
  MaxJobs = 3
  MaxPending = 1
  DedupeTTL = 1
  MaxTime = 0
  Never = Never
  NoInfo = NoInfo
  Loop = Loop
  FaultyOps = {}
  MaxFaults = 0
  MaxCrashes = 0
SPECIFICATION Spec
PROPERTIES
  EveryJobEnds
  EverySlotReturns
CHECK_DEADLOCK FALSE
