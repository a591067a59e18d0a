\* One run of a trigger cell and a plain cell.
CONSTANTS
  NumCells = 2
  TriggerCells = {1}
  Contents = {a, b}
  MaxRuns = 1
  NoContent = NoContent
  EndMayBeMissing = FALSE
  SaveMayFail = FALSE
SPECIFICATION Spec
INVARIANT ErrorIsRecorded
CHECK_DEADLOCK FALSE
