\* Two notebooks of one repository, two snapshots, one step of the user.
CONSTANTS
  Notebooks = {n1, n2}
  Tracked = tracked
  Other = other
  MaxJobs = 2
  MaxUserSteps = 1
  NoRequest = NoRequest
  SampleCells <- MCSampleCells
  MaxCells = 2
  Nothing = Nothing
SPECIFICATION Spec
SYMMETRY Symmetry
INVARIANTS
  TypeOK
  CommitsOnlyAsked
  DiffIsPreSnapshot
  FailedLeavesNothing
  PagesTellChanges
PROPERTIES
  ImplementsLog
CHECK_DEADLOCK FALSE
