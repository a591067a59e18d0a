\* One read of the store raises.
CONSTANTS
  Notebooks = {n1}
  Runs = {r1}
  MaxJobs = 3
  MaxPending = 2
  DedupeTTL = 1
  MaxTime = 0
  Never = Never
  NoInfo = NoInfo
  Loop = Loop
  FaultyOps = {"get"}
  MaxFaults = 1
  MaxCrashes = 0
SPECIFICATION Spec
INVARIANT UnsticksWithoutRestart
CHECK_DEADLOCK FALSE
