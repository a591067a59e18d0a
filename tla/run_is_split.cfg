\* One run of up to three cells, two of them triggers with a cell between them.
CONSTANTS
  NumCells = 3
  TriggerCells = {1, 3}
  Contents = {a, b}
  MaxRuns = 1
  NoContent = NoContent
  EndMayBeMissing = FALSE
  SaveMayFail = FALSE
SPECIFICATION Spec
INVARIANT OneSubmissionPerRun
CHECK_DEADLOCK FALSE
