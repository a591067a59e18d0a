---------------------------- MODULE TriggerRuns ----------------------------
(***************************************************************************)
(* From executed cells to submitted trigger snapshots, in the browser: the *)
(* ExecutionObserver with its TriggerCoalescer, the TriggerDebouncer, and  *)
(* the plugin's submitTrigger.  Every map of this code is keyed by the     *)
(* notebook and no entry reads another one: this is one notebook's entry.  *)
(*                                                                         *)
(* Callbacks run one at a time; what is awaited (the kernel's metadata,    *)
(* the notebook's save) lets others run first, so each await ends a step.  *)
(*                                                                         *)
(* The notebook's code cells are 1 .. NumCells, the last one its final     *)
(* non-blank cell.  A run executes a selection of adjacent cells, one run  *)
(* after the other: JupyterLab and the kernel queue them.  An execution is *)
(* a run and one of its cells.                                             *)
(***************************************************************************)
EXTENDS Naturals, Sequences, FiniteSets

CONSTANTS
  NumCells,          (* cells of the notebook                               *)
  TriggerCells,      (* the cells marked as triggers                        *)
  Contents,          (* what the normalised content and tags can be         *)
  MaxRuns,           (* bound: how many runs the user starts                *)
  NoContent,         (* nothing submitted yet                               *)
  EndMayBeMissing,   (* a run may end without selectionExecuted             *)
  SaveMayFail        (* saving the notebook may fail                        *)

Cells  == 1 .. NumCells
Runs   == 1 .. MaxRuns
NoCell == 0
Executions == Runs \X Cells

ASSUME TriggerAssumption ==
  /\ NumCells \in Nat \ {0} /\ MaxRuns \in Nat
  /\ TriggerCells \subseteq Cells
  /\ NoContent \notin Contents
  /\ {EndMayBeMissing, SaveMayFail} \subseteq BOOLEAN

VARIABLES
  selection,      (* the cells the run under way still executes             *)
  run,            (* the number of the last run started                     *)
  content,        (* the notebook's content                                 *)
  accumulated,    (* TriggerCoalescer.pending: a cell of the set stands for  *)
                  (* the executions that added it                           *)
  failed,         (* whether failedRuns has the notebook                    *)
  lastCell,       (* lastCells, or NoCell                                   *)
  waiting,        (* TriggerDebouncer.pending: a candidate behind its timer *)
  settling,       (* submissionChains: its head is being resolved           *)
  lastSubmitted,  (* lastSubmittedContent, or NoContent                     *)
  saving,         (* the candidates submitTrigger has yet to submit         *)
  disposed,
  (* What happened, for the properties. *)
  executed,       (* the executions of trigger cells the observer saw       *)
  unsignalled,    (* those since which no idle and no end signal came       *)
  errors,         (* the executions that failed                             *)
  settled,        (* the executions of a candidate that was resolved        *)
  submitted       (* the candidates submitted, in order                     *)

observerVars  == <<accumulated, failed, lastCell>>
debouncerVars == <<waiting, settling, lastSubmitted, saving, disposed>>
kernelVars    == <<executed, unsignalled, errors>>
outcomeVars   == <<settled, submitted>>
vars == <<selection, run, content, observerVars, debouncerVars, kernelVars, outcomeVars>>

NoRun       == [next |-> 1, last |-> 0, open |-> FALSE]
NoCandidate == [executions |-> {}, outcome |-> "none"]

Init ==
  /\ selection = NoRun /\ run = 0 /\ content \in Contents
  /\ accumulated = {} /\ failed = FALSE /\ lastCell = NoCell
  /\ waiting = NoCandidate /\ settling = <<>> /\ lastSubmitted = NoContent
  /\ saving = {} /\ disposed = FALSE
  /\ executed = {} /\ unsignalled = {} /\ errors = {} /\ settled = {} /\ submitted = <<>>

----------------------------------------------------------------------------
(* The debouncer, as the observer's onRun calls it.                        *)

\* Mutant: the outcome of the newer candidate wins.
Merged_Newest(previous, next) == [next EXCEPT !.executions = @ \union previous.executions]

\* mergeTriggerRuns.
Merged(previous, next) ==
  [ executions |-> previous.executions \union next.executions,
    outcome |-> IF "error" \in {previous.outcome, next.outcome} THEN "error" ELSE "success" ]

\* Mutant: a run that ends in the final cell passes the candidate that waits.
ScheduleTrigger_Overtakes(candidate, last) ==
  LET next == IF waiting = NoCandidate THEN candidate ELSE Merged(waiting, candidate) IN
  \/ disposed /\ UNCHANGED debouncerVars
  \/ /\ ~disposed
     /\ IF last = NumCells
        THEN settling' = Append(settling, candidate) /\ UNCHANGED waiting
        ELSE waiting' = next /\ UNCHANGED settling
     /\ UNCHANGED <<lastSubmitted, saving, disposed>>

\* schedule(run), and flush(notebook) at once when the run ended in the final
\* cell: a candidate whose timer had not fired is merged into the new one.
ScheduleTrigger(candidate, last) ==
  LET next == IF waiting = NoCandidate THEN candidate ELSE Merged(waiting, candidate) IN
  \/ disposed /\ UNCHANGED debouncerVars
  \/ /\ ~disposed
     /\ IF last = NumCells
        THEN waiting' = NoCandidate /\ settling' = Append(settling, next)
        ELSE waiting' = next /\ UNCHANGED settling
     /\ UNCHANGED <<lastSubmitted, saving, disposed>>

\* ExecutionObserver.flush, with the coalescer's.
FlushRun(last) ==
  /\ ScheduleTrigger([executions |-> accumulated,
                      outcome |-> IF failed THEN "error" ELSE "success"], last)
  /\ accumulated' = {}
  /\ failed' = FALSE
  /\ lastCell' = NoCell

----------------------------------------------------------------------------
(* JupyterLab, the kernel and the user.                                    *)

StartRun ==
  /\ ~selection.open /\ run < MaxRuns
  /\ \E first \in Cells : \E last \in first .. NumCells :
       selection' = [next |-> first, last |-> last, open |-> TRUE]
  /\ run' = run + 1
  /\ UNCHANGED <<content, observerVars, debouncerVars, kernelVars, outcomeVars>>

\* handleExecuted, while the observer is connected.
HandleExecuted(cell, success) ==
  /\ failed' = (failed \/ ~success)
  /\ lastCell' = cell
  /\ accumulated' = IF cell \in TriggerCells THEN accumulated \union {<<run, cell>>}
                    ELSE accumulated

\* NotebookActions.executed: the next cell of the run has its reply, and may have
\* changed the content.  After a failure the kernel aborts the cells that are left;
\* they have a failing reply or none.
ExecuteCell ==
  /\ selection.open /\ selection.next <= selection.last
  /\ \E success \in BOOLEAN, c \in Contents :
       /\ content' = c
       /\ \E n \in {selection.next, selection.last} :
            /\ success => n = selection.next
            /\ selection' = [selection EXCEPT !.next = n + 1]
       /\ errors' = IF success THEN errors ELSE errors \union {<<run, selection.next>>}
       /\ IF disposed
          THEN UNCHANGED <<observerVars, executed, unsignalled>>
          ELSE /\ HandleExecuted(selection.next, success)
               /\ IF selection.next \in TriggerCells
                  THEN /\ executed' = executed \union {<<run, selection.next>>}
                       /\ unsignalled' = unsignalled \union {<<run, selection.next>>}
                  ELSE UNCHANGED <<executed, unsignalled>>
  /\ UNCHANGED <<run, debouncerVars, outcomeVars>>

\* handleSelectionExecuted, while the observer is connected.
HandleSelectionExecuted(last) ==
  \/ /\ accumulated = {}
     /\ failed' = FALSE
     /\ UNCHANGED <<accumulated, lastCell, debouncerVars>>
  \/ accumulated # {} /\ FlushRun(last)

SelectionExecuted == selection.open /\ selection.next > selection.last

EndRun ==
  /\ SelectionExecuted
  /\ selection' = NoRun
  /\ IF disposed
     THEN UNCHANGED <<observerVars, debouncerVars>>
     ELSE HandleSelectionExecuted(selection.last)
  /\ unsignalled' = {}
  /\ UNCHANGED <<run, content, executed, errors, outcomeVars>>

\* An execution path that bypasses the notebook actions gives no end signal.
EndRunSilently ==
  /\ EndMayBeMissing
  /\ SelectionExecuted
  /\ selection' = NoRun
  /\ UNCHANGED <<run, content, observerVars, debouncerVars, kernelVars, outcomeVars>>

\* Mutant: the idle kernel flushes nothing.
FlushPendingOnIdle_Ignored == UNCHANGED <<observerVars, debouncerVars>>

\* flushPendingOnIdle; its connection outlives the observer's.
FlushPendingOnIdle ==
  IF lastCell # NoCell /\ accumulated # {}
  THEN FlushRun(lastCell)
  ELSE UNCHANGED <<observerVars, debouncerVars>>

\* The kernel's status changes to idle: it has handled a request, be it a cell of the
\* run (the idle status precedes the cell's executed signal), the extension's own
\* question for the metadata or another client's.  So it may happen at any time, and
\* after the last cell's it need not happen again.
KernelIdle ==
  /\ FlushPendingOnIdle
  /\ unsignalled' = {}
  /\ UNCHANGED <<selection, run, content, executed, errors, outcomeVars>>

Edit ==
  /\ content' \in Contents \ {content}
  /\ UNCHANGED <<selection, run, observerVars, debouncerVars, kernelVars, outcomeVars>>

----------------------------------------------------------------------------
(* The debouncer's timer and promises, and submitTrigger.                  *)

\* Mutant: the timer drops the candidate it fires for.
QuietWindowEnds_Dropped ==
  /\ waiting # NoCandidate
  /\ waiting' = NoCandidate
  /\ UNCHANGED <<selection, run, content, observerVars, settling, lastSubmitted, saving,
                 disposed, kernelVars, outcomeVars>>

\* Mutant: a replaced candidate's timer is not cleared and fires for nothing.
QuietWindowEnds_StaleTimer ==
  /\ waiting' = NoCandidate
  /\ settling' = Append(settling, waiting)
  /\ UNCHANGED <<selection, run, content, observerVars, lastSubmitted, saving, disposed,
                 kernelVars, outcomeVars>>

\* The timer fires: flush(notebook).
QuietWindowEnds ==
  /\ waiting # NoCandidate
  /\ waiting' = NoCandidate
  /\ settling' = Append(settling, waiting)
  /\ UNCHANGED <<selection, run, content, observerVars, lastSubmitted, saving, disposed,
                 kernelVars, outcomeVars>>

\* submitIfChanged: the content counts as submitted from here on.
SubmitIfChanged(candidate) ==
  IF disposed \/ lastSubmitted = content THEN UNCHANGED <<saving, lastSubmitted>>
  ELSE lastSubmitted' = content /\ saving' = saving \union {candidate}

\* resolveAndSubmit of the chain's head ends: its metadata was collected and
\* the key taken from the content there is now, or the panel is gone or the
\* kernel's answer an error, and the candidate is abandoned.
Resolve ==
  /\ settling # <<>>
  /\ settling' = Tail(settling)
  /\ settled' = settled \union Head(settling).executions
  /\ SubmitIfChanged(Head(settling)) \/ UNCHANGED <<saving, lastSubmitted>>
  /\ UNCHANGED <<selection, run, content, observerVars, waiting, disposed, kernelVars,
                 submitted>>

\* submitTrigger once saveNotebookForSnapshot has returned: the body is built
\* from the notebook as it is now.  Saves of two candidates may overtake.
SaveNotebook(candidate) ==
  /\ candidate \in saving
  /\ saving' = saving \ {candidate}
  /\ \/ submitted' = Append(submitted, candidate)
     \/ SaveMayFail /\ UNCHANGED submitted
  /\ UNCHANGED <<selection, run, content, observerVars, waiting, settling, lastSubmitted,
                 disposed, kernelVars, settled>>

\* The shell is disposed: the observer's and the debouncer's dispose.
Dispose ==
  /\ ~disposed
  /\ disposed' = TRUE
  /\ waiting' = NoCandidate
  /\ UNCHANGED <<selection, run, content, observerVars, settling, lastSubmitted, saving,
                 kernelVars, outcomeVars>>

Kernel  == StartRun \/ ExecuteCell \/ EndRun \/ EndRunSilently \/ KernelIdle
Browser == QuietWindowEnds \/ Resolve \/ \E candidate \in saving : SaveNotebook(candidate)

Next == Kernel \/ Edit \/ Browser \/ Dispose

\* Timers fire, and the kernel's metadata is awaited with a timeout
\* (kernelMetadata.ts).  Nothing is fair that the user or the kernel may withhold: a
\* cell's reply, the end of a run, an idle kernel, the notebook's save.
Fairness == WF_vars(QuietWindowEnds) /\ WF_vars(Resolve)

Spec == Init /\ [][Next]_vars /\ Fairness

----------------------------------------------------------------------------
Candidates == [executions : SUBSET Executions, outcome : {"success", "error"}]

\* Every variable has a value of its type, and nothing is accumulated, waiting for a
\* signal or settled that the observer did not see executed.
TypeOK ==
  /\ selection \in [next : 1 .. NumCells + 1, last : 0 .. NumCells, open : BOOLEAN]
  /\ run \in 0 .. MaxRuns
  /\ content \in Contents
  /\ accumulated \subseteq executed
  /\ failed \in BOOLEAN
  /\ lastCell \in Cells \union {NoCell}
  /\ waiting \in Candidates \union {NoCandidate}
  /\ settling \in Seq(Candidates)
  /\ lastSubmitted \in Contents \union {NoContent}
  /\ saving \subseteq Candidates
  /\ disposed \in BOOLEAN
  /\ executed \subseteq Runs \X TriggerCells
  /\ unsignalled \subseteq executed
  /\ errors \subseteq Executions
  /\ settled \subseteq executed
  /\ submitted \in Seq(Candidates)

\* Everything between a flush and its submission.
InFlight == {waiting} \union {settling[i] : i \in DOMAIN settling} \union saving

\* The order in which the kernel executes.
Before(e, f) == e[1] < f[1] \/ (e[1] = f[1] /\ e[2] < f[2])

\* The execution of a trigger cell is in one place of the pipeline until a candidate
\* with it is resolved, and a submitted one in none: no merge, timer, idle kernel or
\* missing end signal loses it, and none hands it on twice (C-SNAP-08).
ExecutionHeldOnce ==
  \A e \in executed :
    LET held == Cardinality({c \in {waiting} \union saving : e \in c.executions})
                  + Cardinality({i \in DOMAIN settling : e \in settling[i].executions})
                  + (IF e \in accumulated THEN 1 ELSE 0) IN
    /\ held + Cardinality({i \in DOMAIN submitted : e \in submitted[i].executions}) <= 1
    /\ held = 0 => e \in settled \/ disposed

\* A candidate with a trigger cell that failed is recorded as an error, with whatever
\* it was merged (executionObserver.ts, "so an errored run still snapshots").
TriggerErrorIsRecorded ==
  \A c \in InFlight : c.executions \intersect errors # {} => c.outcome = "error"

\* Candidates are resolved in the order of their executions: a run that ends in the
\* final cell takes the candidate that waits along and does not pass it, nor the ones
\* whose metadata the kernel has not answered, so what is compared with and becomes
\* lastSubmittedContent is never older than what was before it.
ResolvedInOrder ==
  \A e, f \in executed : Before(e, f) /\ f \in settled => e \in settled \/ disposed

\* Each execution of a trigger cell is eventually decided once an end signal or an idle
\* kernel came after it, however long the run goes on and whatever is merged with it.
SignalledIsSettled ==
  \A e \in Runs \X TriggerCells :
    e \in executed \ unsignalled ~> e \in settled \/ disposed

\* A run resolves to at most one submission (C-SNAP-08).
OneSubmissionPerRun ==
  \A i, j \in DOMAIN submitted : i # j =>
    \A e \in submitted[i].executions, f \in submitted[j].executions : e[1] # f[1]

\* What is recorded of a run that is over has its error, if a cell of it failed
\* (C-SNAP-07: "the snapshot records run_outcome = error").
ErrorIsRecorded ==
  \A c \in InFlight : \A e \in c.executions, f \in errors :
    e[1] = f[1] /\ ~(selection.open /\ run = e[1]) => c.outcome = "error"
=============================================================================
