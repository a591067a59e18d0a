\* Three runs in a notebook of a trigger cell and a plain, final cell.  Runs may
\* lack their end signal, saves may fail, and the kernel may be idle at any time.
CONSTANTS
  NumCells = 2
  TriggerCells = {1}
  Contents = {a, b}
  MaxRuns = 3
  NoContent = NoContent
  EndMayBeMissing = TRUE
  SaveMayFail = TRUE
SPECIFICATION Spec
INVARIANTS
  TypeOK
  ExecutionHeldOnce
  TriggerErrorIsRecorded
  ResolvedInOrder
PROPERTIES
  SignalledIsSettled
CHECK_DEADLOCK FALSE
