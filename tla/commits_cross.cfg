\* Two notebooks of one repository snapshot at once; the user does nothing.
CONSTANTS
  Notebooks = {n1, n2}
  Tracked = tracked
  Other = other
  MaxJobs = 2
  MaxUserSteps = 0
  NoRequest = NoRequest
  SampleCells <- MCSampleCells
  MaxCells = 2
  Nothing = Nothing
SPECIFICATION Spec
SYMMETRY Symmetry
INVARIANT CommitsNothingUnrelated
CHECK_DEADLOCK FALSE
