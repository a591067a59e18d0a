-------------------------- MODULE TriggerRunsProofs --------------------------
(***************************************************************************)
(* Proofs about trigger runs, for any cells and triggers, any number of    *)
(* runs and edits, a kernel that is idle at any time, saves that fail and  *)
(* end signals that are missing.                                           *)
(***************************************************************************)
EXTENDS TriggerRuns, FiniteSetTheorems, SequenceTheorems, TLAPS

\* Only a run that was started is open.
Opened == selection.open => run # 0

\* What was executed or failed is of the runs started so far, and of the run under way
\* before the cell that is next.
Passed ==
  \A e \in executed \union errors :
    e[1] <= run /\ (selection.open /\ e[1] = run => e[2] < selection.next)

\* A candidate is made of executions, and is an error if one of them failed.
Sound(c) ==
  /\ c.executions \subseteq executed
  /\ c.executions \intersect errors # {} => c.outcome = "error"

AllSound == \A c \in InFlight : Sound(c)

\* The observer remembers that a cell failed as long as the cell is accumulated.
Remembered == accumulated \intersect errors # {} => failed

Collecting == TypeOK /\ Opened /\ Passed /\ AllSound /\ Remembered

----------------------------------------------------------------------------
(* The steps by what they change.                                          *)

\* What the observer hands to the debouncer.
Accumulated == [executions |-> accumulated, outcome |-> IF failed THEN "error" ELSE "success"]

\* A flush moves what was accumulated to the candidate that waits, or with that one
\* to the end of the chain; a disposed debouncer drops it.
FlushEffect ==
  LET next == IF waiting = NoCandidate THEN Accumulated ELSE Merged(waiting, Accumulated) IN
  /\ accumulated' = {} /\ failed' = FALSE /\ lastCell' = NoCell
  /\ UNCHANGED <<lastSubmitted, saving, disposed>>
  /\ \/ disposed /\ UNCHANGED <<waiting, settling>>
     \/ ~disposed /\ waiting' = NoCandidate /\ settling' = Append(settling, next)
     \/ ~disposed /\ waiting' = next /\ UNCHANGED settling

LEMMA FlushRunEffect ==
  ASSUME NEW last, FlushRun(last)
  PROVE  FlushEffect
  BY DEF FlushRun, ScheduleTrigger, FlushEffect, Accumulated, debouncerVars

\* Between two flushes the observer keeps what it has, but for a failure of no trigger.
Kept ==
  /\ UNCHANGED <<accumulated, lastCell, debouncerVars>>
  /\ failed' = failed \/ (accumulated = {} /\ failed' = FALSE)

\* The kernel's steps other than a cell's execution.
SignalEffect ==
  /\ UNCHANGED <<run, executed, errors, settled, submitted>>
  /\ selection' \in {selection, NoRun} /\ content' \in Contents
  /\ unsignalled' \in {unsignalled, {}}
  /\ FlushEffect \/ Kept

LEMMA SignalSteps ==
  ASSUME TypeOK, EndRun \/ EndRunSilently \/ KernelIdle \/ Edit \/ UNCHANGED vars
  PROVE  SignalEffect
  <1> USE DEF SignalEffect, Kept, TypeOK, outcomeVars, kernelVars, observerVars
  <1>1. CASE EndRun
    BY <1>1, FlushRunEffect DEF EndRun, HandleSelectionExecuted
  <1>2. CASE EndRunSilently
    BY <1>2 DEF EndRunSilently
  <1>3. CASE KernelIdle
    BY <1>3, FlushRunEffect DEF KernelIdle, FlushPendingOnIdle
  <1>4. CASE Edit \/ UNCHANGED vars
    BY <1>4 DEF Edit, vars
  <1> QED BY <1>1, <1>2, <1>3, <1>4

\* A cell's execution, of which a connected observer accumulates a trigger.
CellEffect(e, success) ==
  /\ UNCHANGED <<run, debouncerVars, outcomeVars>>
  /\ content' \in Contents
  /\ selection.open /\ selection.next \in Cells
  /\ e = <<run, selection.next>> /\ e \in Executions
  /\ \E n \in Cells : n >= selection.next /\ selection' = [selection EXCEPT !.next = n + 1]
  /\ errors' = IF success THEN errors ELSE errors \union {e}
  /\ \/ UNCHANGED <<accumulated, failed, lastCell, executed, unsignalled>>
     \/ /\ failed' = (failed \/ ~success) /\ lastCell' = selection.next
        /\ UNCHANGED <<accumulated, executed, unsignalled>>
     \/ /\ failed' = (failed \/ ~success) /\ lastCell' = selection.next
        /\ e \in Runs \X TriggerCells
        /\ accumulated' = accumulated \union {e}
        /\ executed' = executed \union {e}
        /\ unsignalled' = unsignalled \union {e}

LEMMA ExecuteCellEffect ==
  ASSUME TypeOK, Opened, ExecuteCell
  PROVE  \E e \in Executions, success \in BOOLEAN : CellEffect(e, success)
  <1> DEFINE e == <<run, selection.next>>
  <1>1. /\ selection.open /\ selection.next <= selection.last /\ run \in Runs
        /\ selection.next \in Cells /\ selection.last \in Cells
    BY TriggerAssumption DEF ExecuteCell, Opened, TypeOK, Runs, Cells
  <1>2. e \in Executions
    BY <1>1 DEF Executions
  <1>3. PICK success \in BOOLEAN, c \in Contents :
          /\ content' = c
          /\ \E n \in {selection.next, selection.last} :
               /\ success => n = selection.next
               /\ selection' = [selection EXCEPT !.next = n + 1]
          /\ errors' = IF success THEN errors ELSE errors \union {e}
          /\ IF disposed
             THEN UNCHANGED <<observerVars, executed, unsignalled>>
             ELSE /\ HandleExecuted(selection.next, success)
                  /\ IF selection.next \in TriggerCells
                     THEN /\ executed' = executed \union {e}
                          /\ unsignalled' = unsignalled \union {e}
                     ELSE UNCHANGED <<executed, unsignalled>>
    BY DEF ExecuteCell
  <1>4. \E n \in Cells : n >= selection.next /\ selection' = [selection EXCEPT !.next = n + 1]
    BY <1>1, <1>3 DEF Cells
  <1>5. UNCHANGED <<run, debouncerVars, outcomeVars>>
    BY DEF ExecuteCell
  <1>6. CellEffect(e, success)
    BY <1>1, <1>2, <1>3, <1>4, <1>5 DEF CellEffect, HandleExecuted, observerVars
  <1> QED BY <1>2, <1>6

\* Every step is one of these.
LEMMA StepKinds ==
  ASSUME TypeOK, Opened, [Next]_vars
  PROVE  \/ StartRun
         \/ \E e \in Executions, success \in BOOLEAN : CellEffect(e, success)
         \/ SignalEffect
         \/ QuietWindowEnds
         \/ Resolve
         \/ \E c \in saving : SaveNotebook(c)
         \/ Dispose
  BY ExecuteCellEffect, SignalSteps DEF Next, Kernel, Browser

----------------------------------------------------------------------------
(* Types and candidates.                                                   *)

LEMMA CandidateTypes ==
  ASSUME TypeOK
  PROVE  /\ Accumulated \in Candidates
         /\ \A c \in Candidates : Merged(waiting, c) \in Candidates
         /\ waiting # NoCandidate => waiting \in Candidates
  <1>1. Accumulated \in Candidates
    <2>1. accumulated \subseteq Executions
      BY TriggerAssumption DEF TypeOK, Executions
    <2> QED BY <2>1 DEF Accumulated, Candidates
  <1>2. ASSUME NEW c \in Candidates PROVE Merged(waiting, c) \in Candidates
    <2>1. waiting.executions \subseteq Executions /\ c.executions \subseteq Executions
      BY DEF TypeOK, Candidates, NoCandidate
    <2> QED BY <2>1 DEF Merged, Candidates
  <1> QED BY <1>1, <1>2 DEF TypeOK

LEMMA FlushTypes ==
  ASSUME TypeOK, FlushEffect
  PROVE  /\ accumulated' \subseteq executed
         /\ failed' \in BOOLEAN /\ lastCell' \in Cells \union {NoCell}
         /\ waiting' \in Candidates \union {NoCandidate} /\ settling' \in Seq(Candidates)
         /\ lastSubmitted' \in Contents \union {NoContent} /\ saving' \subseteq Candidates
         /\ disposed' \in BOOLEAN
  <1> DEFINE next == IF waiting = NoCandidate THEN Accumulated ELSE Merged(waiting, Accumulated)
  <1>1. next \in Candidates
    BY CandidateTypes
  <1> HIDE DEF next
  <1>2. /\ waiting' \in {waiting, NoCandidate, next}
        /\ settling' = settling \/ settling' = Append(settling, next)
    BY DEF FlushEffect, next
  <1>3. waiting' \in Candidates \union {NoCandidate} /\ settling' \in Seq(Candidates)
    <2>1. settling \in Seq(Candidates) /\ waiting \in Candidates \union {NoCandidate}
      BY DEF TypeOK
    <2>2. Append(settling, next) \in Seq(Candidates)
      BY <1>1, <2>1, AppendProperties
    <2> QED BY <1>1, <1>2, <2>1, <2>2
  <1> QED BY <1>3 DEF FlushEffect, TypeOK

LEMMA TypedStep ==
  ASSUME Collecting, [Next]_vars
  PROVE  TypeOK' /\ Opened'
  <1> USE DEF Collecting
  <1>1. CASE StartRun
    <2>1. run' \in 0 .. MaxRuns /\ run' # 0
      BY <1>1, TriggerAssumption DEF StartRun, TypeOK
    <2>2. selection' \in [next : 1 .. NumCells + 1, last : 0 .. NumCells, open : BOOLEAN]
      BY <1>1, TriggerAssumption DEF StartRun, Cells
    <2>3. UNCHANGED <<content, observerVars, debouncerVars, kernelVars, outcomeVars>>
      BY <1>1 DEF StartRun
    <2> QED BY <2>1, <2>2, <2>3 DEF TypeOK, Opened, observerVars, debouncerVars, kernelVars, outcomeVars
  <1>2. ASSUME NEW e \in Executions, NEW success \in BOOLEAN, CellEffect(e, success)
        PROVE  TypeOK' /\ Opened'
    <2>1. selection' \in [next : 1 .. NumCells + 1, last : 0 .. NumCells, open : BOOLEAN]
      <3>1. PICK n \in Cells : selection' = [selection EXCEPT !.next = n + 1]
        BY <1>2 DEF CellEffect
      <3>2. n + 1 \in 1 .. NumCells + 1
        BY TriggerAssumption DEF Cells
      <3> QED BY <3>1, <3>2 DEF TypeOK
    <2>2. Opened'
      BY <1>2 DEF CellEffect, Opened
    <2>3. UNCHANGED <<run, debouncerVars, outcomeVars>> /\ content' \in Contents
      BY <1>2 DEF CellEffect
    <2>4. /\ accumulated' \subseteq executed' /\ executed' \subseteq Runs \X TriggerCells
          /\ unsignalled' \subseteq executed' /\ executed \subseteq executed'
          /\ errors' \subseteq Executions
          /\ failed' \in BOOLEAN /\ lastCell' \in Cells \union {NoCell}
      BY <1>2 DEF CellEffect, TypeOK
    <2> QED BY <2>1, <2>2, <2>3, <2>4 DEF TypeOK, debouncerVars, outcomeVars
  <1>3. CASE SignalEffect
    <2>1. NoRun \in [next : 1 .. NumCells + 1, last : 0 .. NumCells, open : BOOLEAN] /\ ~NoRun.open
      BY TriggerAssumption DEF NoRun
    <2>2. /\ selection' \in [next : 1 .. NumCells + 1, last : 0 .. NumCells, open : BOOLEAN]
          /\ Opened'
      BY <1>3, <2>1 DEF SignalEffect, TypeOK, Opened
    <2>3. /\ UNCHANGED <<run, executed, errors, settled, submitted>>
          /\ content' \in Contents /\ unsignalled' \subseteq executed'
      BY <1>3 DEF SignalEffect, TypeOK
    <2>4. CASE FlushEffect
      BY <2>2, <2>3, <2>4, FlushTypes DEF TypeOK
    <2>5. CASE Kept
      BY <2>2, <2>3, <2>5 DEF Kept, TypeOK, debouncerVars
    <2> QED BY <1>3, <2>4, <2>5 DEF SignalEffect
  <1>4. CASE QuietWindowEnds
    <2>1. waiting \in Candidates /\ settling \in Seq(Candidates)
      BY <1>4 DEF QuietWindowEnds, TypeOK
    <2>2. Append(settling, waiting) \in Seq(Candidates)
      BY <2>1, AppendProperties
    <2> QED BY <1>4, <2>2 DEF QuietWindowEnds, TypeOK, Opened, observerVars, kernelVars, outcomeVars
  <1>5. CASE Resolve
    <2>1. settling \in Seq(Candidates) /\ settling # <<>>
      BY <1>5 DEF Resolve, TypeOK
    <2>2. Head(settling) \in Candidates /\ Tail(settling) \in Seq(Candidates)
      BY <2>1, HeadTailProperties
    <2>3. Head(settling) \in InFlight
      BY <2>1 DEF InFlight
    <2>4. settled' \subseteq executed
      BY <1>5, <2>3 DEF Resolve, AllSound, Sound, TypeOK
    <2>5. saving' \subseteq Candidates /\ lastSubmitted' \in Contents \union {NoContent}
      BY <1>5, <2>2 DEF Resolve, SubmitIfChanged, TypeOK
    <2> QED BY <1>5, <2>2, <2>4, <2>5 DEF Resolve, TypeOK, Opened, observerVars, kernelVars
  <1>6. ASSUME NEW c \in saving, SaveNotebook(c) PROVE TypeOK' /\ Opened'
    <2>1. submitted \in Seq(Candidates) /\ c \in Candidates
      BY DEF TypeOK
    <2>2. submitted' \in Seq(Candidates)
      BY <1>6, <2>1, AppendProperties DEF SaveNotebook
    <2> QED BY <1>6, <2>2 DEF SaveNotebook, TypeOK, Opened, observerVars, kernelVars
  <1>7. CASE Dispose
    BY <1>7 DEF Dispose, TypeOK, Opened, observerVars, kernelVars, outcomeVars
  <1> QED BY <1>1, <1>2, <1>3, <1>4, <1>5, <1>6, <1>7, StepKinds

LEMMA ExecutionNumbers ==
  ASSUME TypeOK
  PROVE  /\ executed \subseteq Executions /\ errors \subseteq Executions
         /\ \A e \in Executions : e[1] \in Int /\ e[2] \in Int
  <1>1. Runs \subseteq Int /\ Cells \subseteq Int
    BY DEF Runs, Cells
  <1> QED BY <1>1, TriggerAssumption DEF TypeOK, Executions

\* No cell that a run executes was executed before.
LEMMA FirstTime ==
  ASSUME Collecting, NEW e \in Executions, NEW success \in BOOLEAN, CellEffect(e, success)
  PROVE  /\ e \notin executed \union errors
         /\ \A f \in executed \union errors : Before(f, e) /\ ~Before(e, f)
  <1>1. /\ e = <<run, selection.next>> /\ selection.open
        /\ selection.next \in Int /\ run \in Int
    BY TriggerAssumption DEF CellEffect, Collecting, TypeOK, Cells
  <1>2. ASSUME NEW f \in executed \union errors PROVE f # e /\ Before(f, e) /\ ~Before(e, f)
    <2>1. /\ f[1] <= run /\ (f[1] = run => f[2] < selection.next)
      BY <1>1 DEF Collecting, Passed
    <2>2. f[1] \in Int /\ f[2] \in Int
      BY ExecutionNumbers DEF Collecting
    <2>3. e[1] = run /\ e[2] = selection.next
      BY <1>1
    <2> QED BY <1>1, <2>1, <2>2, <2>3 DEF Before
  <1> QED BY <1>2

LEMMA PassedStep ==
  ASSUME Collecting, [Next]_vars
  PROVE  Passed'
  <1>0. /\ Passed /\ run \in Int /\ selection.next \in Int
        /\ \A f \in executed \union errors : f[1] \in Int /\ f[2] \in Int
    BY ExecutionNumbers, TriggerAssumption DEF Collecting, TypeOK
  <1>1. CASE StartRun
    <2>1. run' = run + 1 /\ executed' = executed /\ errors' = errors
      BY <1>1 DEF StartRun, kernelVars
    <2>2. \A f \in executed \union errors : f[1] < run'
      BY <1>0, <2>1 DEF Passed
    <2> QED BY <1>0, <2>1, <2>2 DEF Passed
  <1>2. ASSUME NEW e \in Executions, NEW success \in BOOLEAN, CellEffect(e, success)
        PROVE  Passed'
    <2>1. /\ run' = run /\ e = <<run, selection.next>> /\ selection.open
          /\ executed' \union errors' \subseteq executed \union errors \union {e}
      BY <1>2 DEF CellEffect
    <2>2. PICK n \in Cells : n >= selection.next /\ selection' = [selection EXCEPT !.next = n + 1]
      BY <1>2 DEF CellEffect
    <2>3. n \in Nat /\ selection'.next = n + 1 /\ selection'.open = selection.open
      BY <2>2, TriggerAssumption DEF Cells, Collecting, TypeOK
    <2>4. ASSUME NEW f \in executed' \union errors'
          PROVE  f[1] <= run' /\ (f[1] = run' => f[2] < selection'.next)
      <3>1. CASE f \in executed \union errors
        BY <1>0, <2>1, <2>2, <2>3, <3>1 DEF Passed
      <3>2. CASE f = e
        BY <1>0, <2>1, <2>2, <2>3, <3>2
      <3> QED BY <2>1, <3>1, <3>2
    <2> QED BY <2>4 DEF Passed
  <1>3. CASE SignalEffect
    BY <1>0, <1>3 DEF SignalEffect, NoRun, Passed
  <1>4. CASE QuietWindowEnds \/ Resolve \/ Dispose \/ \E c \in saving : SaveNotebook(c)
    BY <1>0, <1>4 DEF QuietWindowEnds, Resolve, Dispose, SaveNotebook, kernelVars, Passed
  <1> QED BY <1>1, <1>2, <1>3, <1>4, StepKinds DEF Collecting

LEMMA RememberedStep ==
  ASSUME Collecting, [Next]_vars
  PROVE  Remembered'
  <1> USE DEF Collecting
  <1>1. CASE StartRun
    BY <1>1 DEF StartRun, kernelVars, observerVars, Remembered
  <1>2. ASSUME NEW e \in Executions, NEW success \in BOOLEAN, CellEffect(e, success)
        PROVE  Remembered'
    <2>1. e \notin accumulated
      BY <1>2, FirstTime DEF TypeOK
    <2>2. errors' = IF success THEN errors ELSE errors \union {e}
      BY <1>2 DEF CellEffect
    <2>3. accumulated' \subseteq accumulated \union {e}
      BY <1>2 DEF CellEffect
    <2>4. \/ accumulated' = accumulated /\ failed' = failed
          \/ failed' = (failed \/ ~success)
      BY <1>2 DEF CellEffect
    <2>5. Remembered
      OBVIOUS
    <2>6. CASE accumulated' = accumulated /\ failed' = failed
      <3>1. accumulated' \intersect errors' = accumulated \intersect errors
        BY <2>1, <2>2, <2>6
      <3> QED BY <2>5, <2>6, <3>1 DEF Remembered
    <2>7. CASE failed' = (failed \/ ~success)
      <3>1. CASE success
        <4>1. errors' = errors
          BY <2>2, <3>1
        <4>2. e \notin errors
          BY <1>2, FirstTime
        <4> QED BY <2>3, <2>5, <2>7, <4>1, <4>2 DEF Remembered
      <3>2. CASE ~success
        BY <2>7, <3>2 DEF Remembered
      <3> QED BY <3>1, <3>2
    <2> QED BY <2>4, <2>6, <2>7
  <1>3. CASE SignalEffect
    BY <1>3 DEF SignalEffect, FlushEffect, Kept, Remembered
  <1>4. CASE QuietWindowEnds \/ Resolve \/ Dispose \/ \E c \in saving : SaveNotebook(c)
    BY <1>4 DEF QuietWindowEnds, Resolve, Dispose, SaveNotebook, kernelVars, observerVars, Remembered
  <1> QED BY <1>1, <1>2, <1>3, <1>4, StepKinds

LEMMA SoundNothing == Sound(NoCandidate)
  BY DEF Sound, NoCandidate

LEMMA SoundMerged ==
  ASSUME NEW a, NEW b, Sound(a), Sound(b)
  PROVE  Sound(Merged(a, b))
  <1> DEFINE m == Merged(a, b)
  <1>1. /\ m.executions = a.executions \union b.executions
        /\ m.outcome = IF "error" \in {a.outcome, b.outcome} THEN "error" ELSE "success"
    BY DEF Merged
  <1> HIDE DEF m
  <1>2. m.executions \intersect errors # {} => m.outcome = "error"
    BY <1>1 DEF Sound
  <1> QED BY <1>1, <1>2 DEF Sound, m

\* A step leaves a sound candidate sound: what fails next is not in it.
LEMMA SoundStays ==
  ASSUME Collecting, [Next]_vars, NEW c, Sound(c)
  PROVE  Sound(c)'
  <1>1. ASSUME NEW e \in Executions, NEW success \in BOOLEAN, CellEffect(e, success)
        PROVE  Sound(c)'
    <2>1. e \notin executed
      BY <1>1, FirstTime
    <2>2. errors' \subseteq errors \union {e} /\ executed \subseteq executed'
      BY <1>1 DEF CellEffect
    <2> QED BY <2>1, <2>2 DEF Sound
  <1>2. CASE UNCHANGED <<executed, errors>>
    BY <1>2 DEF Sound
  <1>3. \/ \E e \in Executions, success \in BOOLEAN : CellEffect(e, success)
        \/ UNCHANGED <<executed, errors>>
    BY StepKinds
       DEF Collecting, StartRun, SignalEffect, QuietWindowEnds, Resolve, Dispose, SaveNotebook, kernelVars
  <1> QED BY <1>1, <1>2, <1>3

\* Only a flush makes a candidate, from what was accumulated.
LEMMA InFlightStep ==
  ASSUME Collecting, [Next]_vars, NEW c \in InFlight'
  PROVE  c \in InFlight \union {NoCandidate, Accumulated, Merged(waiting, Accumulated)}
  <1> DEFINE Queued(s) == {s[i] : i \in DOMAIN s}
  <1>1. settling \in Seq(Candidates)
    BY DEF Collecting, TypeOK
  <1>2. ASSUME NEW d PROVE Queued(Append(settling, d)) = Queued(settling) \union {d}
    <2> DEFINE long == Append(settling, d)
    <2>1. /\ Len(settling) \in Nat /\ DOMAIN settling = 1 .. Len(settling)
          /\ DOMAIN long = 1 .. Len(settling) + 1
          /\ \A i \in 1 .. Len(settling) : long[i] = settling[i]
          /\ long[Len(settling) + 1] = d
      BY <1>1
    <2> HIDE DEF long
    <2> QED BY <2>1 DEF long
  <1>3. InFlight = {waiting} \union Queued(settling) \union saving
    BY DEF InFlight
  <1>4. InFlight' = {waiting'} \union Queued(settling') \union saving'
    BY DEF InFlight
  <1> HIDE DEF Queued
  <1>5. CASE FlushEffect
    <2> DEFINE next == IF waiting = NoCandidate THEN Accumulated ELSE Merged(waiting, Accumulated)
    <2>1. /\ saving' = saving
          /\ \/ UNCHANGED <<waiting, settling>>
             \/ waiting' = NoCandidate /\ settling' = Append(settling, next)
             \/ waiting' = next /\ UNCHANGED settling
      BY <1>5 DEF FlushEffect
    <2>2. next \in {Accumulated, Merged(waiting, Accumulated)}
      OBVIOUS
    <2> HIDE DEF next
    <2>3. CASE UNCHANGED <<waiting, settling>>
      BY <1>3, <1>4, <2>1, <2>3
    <2>4. CASE waiting' = NoCandidate /\ settling' = Append(settling, next)
      BY <1>2, <1>3, <1>4, <2>1, <2>2, <2>4
    <2>5. CASE waiting' = next /\ UNCHANGED settling
      BY <1>3, <1>4, <2>1, <2>2, <2>5
    <2> QED BY <2>1, <2>3, <2>4, <2>5
  <1>6. CASE UNCHANGED <<waiting, settling, saving>>
    BY <1>3, <1>4, <1>6
  <1>7. CASE QuietWindowEnds
    <2>1. waiting' = NoCandidate /\ settling' = Append(settling, waiting) /\ saving' = saving
      BY <1>7 DEF QuietWindowEnds
    <2> QED BY <1>2, <1>3, <1>4, <2>1
  <1>8. CASE Resolve
    <2>1. /\ settling # <<>> /\ settling' = Tail(settling) /\ waiting' = waiting
          /\ saving' = saving \/ saving' = saving \union {Head(settling)}
      BY <1>8 DEF Resolve, SubmitIfChanged
    <2>2. Queued(Tail(settling)) \subseteq Queued(settling) /\ Head(settling) \in Queued(settling)
      <3> DEFINE rest == Tail(settling)
      <3>1. /\ Len(settling) \in Nat \ {0} /\ DOMAIN settling = 1 .. Len(settling)
            /\ Head(settling) = settling[1] /\ DOMAIN rest = 1 .. Len(settling) - 1
            /\ \A i \in 1 .. Len(settling) - 1 : rest[i] = settling[i + 1]
        BY <1>1, <2>1
      <3> HIDE DEF rest
      <3>2. \A i \in DOMAIN rest : i + 1 \in DOMAIN settling /\ rest[i] = settling[i + 1]
        BY <3>1
      <3>3. 1 \in DOMAIN settling
        BY <3>1
      <3> QED BY <3>1, <3>2, <3>3 DEF Queued, rest
    <2> QED BY <1>3, <1>4, <2>1, <2>2
  <1>9. ASSUME NEW d \in saving, SaveNotebook(d) PROVE c \in InFlight
    <2>1. UNCHANGED <<waiting, settling>> /\ saving' \subseteq saving
      BY <1>9 DEF SaveNotebook
    <2> QED BY <1>3, <1>4, <2>1
  <1>10. CASE Dispose
    <2>1. UNCHANGED <<settling, saving>> /\ waiting' = NoCandidate
      BY <1>10 DEF Dispose
    <2> QED BY <1>3, <1>4, <2>1
  <1>11. \/ FlushEffect \/ UNCHANGED <<waiting, settling, saving>> \/ QuietWindowEnds
         \/ Resolve \/ Dispose \/ \E d \in saving : SaveNotebook(d)
    BY StepKinds DEF Collecting, StartRun, CellEffect, SignalEffect, Kept, debouncerVars
  <1> QED BY <1>5, <1>6, <1>7, <1>8, <1>9, <1>10, <1>11

LEMMA AllSoundStep ==
  ASSUME Collecting, [Next]_vars
  PROVE  AllSound'
  <1> SUFFICES ASSUME NEW c \in InFlight' PROVE Sound(c)'
    BY DEF AllSound
  <1>1. Sound(waiting)
    BY DEF Collecting, AllSound, InFlight
  <1>2. Sound(Accumulated)
    BY DEF Collecting, TypeOK, Remembered, Sound, Accumulated
  <1>3. Sound(c)
    BY <1>1, <1>2, InFlightStep, SoundNothing, SoundMerged DEF Collecting, AllSound
  <1> QED BY <1>3, SoundStays

LEMMA CollectingInit == Init => Collecting
  <1> SUFFICES ASSUME Init PROVE Collecting
    OBVIOUS
  <1>1. selection \in [next : 1 .. NumCells + 1, last : 0 .. NumCells, open : BOOLEAN] /\ Opened
    BY TriggerAssumption DEF Init, Opened, NoRun
  <1>2. run \in 0 .. MaxRuns /\ content \in Contents
    BY TriggerAssumption DEF Init
  <1>3. settling \in Seq(Candidates) /\ submitted \in Seq(Candidates)
    BY DEF Init
  <1>4. TypeOK
    BY <1>1, <1>2, <1>3 DEF Init, TypeOK
  <1>5. InFlight = {NoCandidate}
    BY DEF Init, InFlight
  <1>6. AllSound
    BY <1>5, SoundNothing DEF AllSound
  <1>7. Passed /\ Remembered
    BY DEF Init, Passed, Remembered
  <1> QED BY <1>1, <1>4, <1>6, <1>7 DEF Collecting

LEMMA CollectingHolds == Spec => []Collecting
  <1>1. Collecting /\ [Next]_vars => Collecting'
    BY TypedStep, PassedStep, AllSoundStep, RememberedStep DEF Collecting
  <1> QED BY <1>1, CollectingInit, PTL DEF Spec

\* The types of the browser's and the kernel's state.
THEOREM TriggersTypeCorrect == Spec => []TypeOK
  <1>1. Collecting => TypeOK
    BY DEF Collecting
  <1> QED BY <1>1, CollectingHolds, PTL

\* A candidate with a trigger cell that failed is recorded as an error, whatever it was
\* merged with and whenever the kernel was idle.
THEOREM TriggerErrorsAreNeverLost == Spec => []TriggerErrorIsRecorded
  <1>1. Collecting => TriggerErrorIsRecorded
    BY DEF Collecting, AllSound, Sound, TriggerErrorIsRecorded
  <1> QED BY <1>1, CollectingHolds, PTL

----------------------------------------------------------------------------
(* Where an execution is, from the observer to the server.                 *)

\* The places in a sequence of candidates, and the saves.
Positions(s, e) == {i \in DOMAIN s : e \in s[i].executions}
Saved(e)        == {c \in saving : e \in c.executions}

\* An execution is undecided in one place at most; once decided in none, and then in one
\* save or submission at most.
InOnePlace(e) ==
  /\ e \in settled =>
       e \notin accumulated /\ e \notin waiting.executions /\ Positions(settling, e) = {}
  /\ Saved(e) # {} \/ Positions(submitted, e) # {} => e \in settled
  /\ e \in accumulated => e \notin waiting.executions /\ Positions(settling, e) = {}
  /\ e \in waiting.executions => Positions(settling, e) = {}
  /\ Positions(settling, e) = {} \/ \E i : Positions(settling, e) = {i}
  /\ Saved(e) = {} \/ (Positions(submitted, e) = {} /\ \E c : Saved(e) = {c})
  /\ Positions(submitted, e) = {} \/ \E i : Positions(submitted, e) = {i}

\* What the observer saw is kept until it is resolved.
NotLost(e) ==
  \/ e \notin executed \/ e \in accumulated \/ e \in waiting.executions \/ Positions(settling, e) # {}
  \/ e \in settled \/ disposed

Held == \A e \in Executions : InOnePlace(e) /\ NotLost(e)

LEMMA PositionsAppend ==
  ASSUME NEW s \in Seq(Candidates), NEW d, NEW e, NEW long, long = Append(s, d)
  PROVE  Positions(long, e) =
           Positions(s, e) \union (IF e \in d.executions THEN {Len(s) + 1} ELSE {})
  <1>1. /\ Len(s) \in Nat /\ DOMAIN s = 1 .. Len(s)
        /\ DOMAIN long = 1 .. Len(s) + 1
        /\ \A i \in 1 .. Len(s) : long[i] = s[i]
        /\ long[Len(s) + 1] = d
    OBVIOUS
  <1>2. ASSUME NEW i
        PROVE  i \in Positions(long, e) <=>
                 i \in Positions(s, e) \/ (i = Len(s) + 1 /\ e \in d.executions)
    <2>1. i \in DOMAIN long <=> i \in DOMAIN s \/ i = Len(s) + 1
      BY <1>1
    <2>2. i \in DOMAIN s => i # Len(s) + 1 /\ long[i] = s[i]
      BY <1>1
    <2> QED BY <1>1, <2>1, <2>2 DEF Positions
  <1> QED BY <1>2

LEMMA PositionsTail ==
  ASSUME NEW s \in Seq(Candidates), s # <<>>, NEW e, NEW rest, rest = Tail(s)
  PROVE  /\ \A i \in Positions(rest, e) : i \in Int /\ i + 1 \in Positions(s, e) /\ i + 1 # 1
         /\ e \in Head(s).executions <=> 1 \in Positions(s, e)
         /\ \A i \in Positions(s, e) : i \in Int /\ (i = 1 \/ i - 1 \in Positions(rest, e))
  <1>1. /\ Len(s) \in Nat \ {0} /\ DOMAIN s = 1 .. Len(s)
        /\ Head(s) = s[1] /\ DOMAIN rest = 1 .. Len(s) - 1
        /\ \A i \in 1 .. Len(s) - 1 : rest[i] = s[i + 1]
    OBVIOUS
  <1>2. \A i \in Positions(rest, e) : i \in Int /\ i + 1 \in Positions(s, e) /\ i + 1 # 1
    BY <1>1 DEF Positions
  <1>3. e \in Head(s).executions <=> 1 \in Positions(s, e)
    BY <1>1 DEF Positions
  <1>4. ASSUME NEW i \in Positions(s, e)
        PROVE  i \in Int /\ (i = 1 \/ i - 1 \in Positions(rest, e))
    <2>1. i \in 1 .. Len(s) /\ e \in s[i].executions
      BY <1>1, <1>4 DEF Positions
    <2>2. CASE i # 1
      <3>1. i - 1 \in 1 .. Len(s) - 1 /\ (i - 1) + 1 = i
        BY <1>1, <2>1, <2>2
      <3>2. rest[i - 1] = s[i]
        BY <1>1, <3>1
      <3> QED BY <1>1, <2>1, <3>1, <3>2 DEF Positions
    <2> QED BY <2>1, <2>2
  <1> QED BY <1>2, <1>3, <1>4

\* An execution moves from what is accumulated to the candidate that waits, to the
\* chain, to a save, to the server: a step leaves the places alone, or hands it on.
LEMMA HeldStep ==
  ASSUME Collecting, Held, [Next]_vars, NEW e \in Executions
  PROVE  InOnePlace(e)' /\ NotLost(e)'
  <1>0. /\ settling \in Seq(Candidates) /\ submitted \in Seq(Candidates) /\ saving \subseteq Candidates
        /\ settled \subseteq executed /\ accumulated \subseteq executed
        /\ InOnePlace(e) /\ NotLost(e)
    BY DEF Collecting, TypeOK, Held
  <1>1. ASSUME UNCHANGED <<waiting, settling, saving, submitted, settled>>,
               disposed' = disposed, e \in executed' <=> e \in executed,
               e \in accumulated' <=> e \in accumulated
        PROVE  InOnePlace(e)' /\ NotLost(e)'
    BY <1>0, <1>1 DEF InOnePlace, NotLost, Positions, Saved
  <1>2. CASE StartRun
    BY <1>1, <1>2 DEF StartRun, kernelVars, observerVars, debouncerVars, outcomeVars
  <1>3. ASSUME NEW f \in Executions, NEW success \in BOOLEAN, CellEffect(f, success)
        PROVE  InOnePlace(e)' /\ NotLost(e)'
    <2>1. /\ UNCHANGED <<waiting, settling, saving, submitted, settled, disposed>>
          /\ \/ accumulated' = accumulated /\ executed' = executed
             \/ accumulated' = accumulated \union {f} /\ executed' = executed \union {f}
      BY <1>3 DEF CellEffect, debouncerVars, outcomeVars
    <2>2. f \notin executed
      BY <1>3, FirstTime
    <2>3. CASE e # f \/ (accumulated' = accumulated /\ executed' = executed)
      BY <1>1, <2>1, <2>3
    <2>4. CASE e = f /\ e \in accumulated'
      <3>1. e \notin settled /\ \A c \in InFlight : e \notin c.executions
        BY <1>0, <2>2, <2>4 DEF Collecting, AllSound, Sound
      <3>2. e \notin waiting.executions /\ Positions(settling, e) = {} /\ Saved(e) = {}
        BY <3>1 DEF InFlight, Positions, Saved
      <3>3. Positions(submitted, e) = {}
        BY <1>0, <3>1 DEF InOnePlace
      <3>4. /\ e \notin settled' /\ e \notin waiting'.executions /\ Positions(settling', e) = {}
            /\ Saved(e)' = {} /\ Positions(submitted', e) = {}
        BY <2>1, <3>1, <3>2, <3>3 DEF Saved
      <3> QED BY <2>4, <3>4 DEF InOnePlace, NotLost
    <2>5. e # f \/ (accumulated' = accumulated /\ executed' = executed) \/ e \in accumulated'
      BY <2>1
    <2> QED BY <2>3, <2>4, <2>5
  <1>4. CASE FlushEffect /\ UNCHANGED <<executed, settled, submitted>>
    <2> DEFINE next == IF waiting = NoCandidate THEN Accumulated ELSE Merged(waiting, Accumulated)
    <2>1. /\ accumulated' = {} /\ saving' = saving /\ disposed' = disposed
          /\ UNCHANGED <<executed, settled, submitted>>
          /\ \/ disposed /\ UNCHANGED <<waiting, settling>>
             \/ ~disposed /\ waiting' = NoCandidate /\ settling' = Append(settling, next)
             \/ ~disposed /\ waiting' = next /\ UNCHANGED settling
      BY <1>4 DEF FlushEffect
    <2>2. e \in next.executions <=> e \in accumulated \/ e \in waiting.executions
      BY DEF Accumulated, Merged, NoCandidate
    <2> HIDE DEF next
    <2>3. Saved(e)' = Saved(e) /\ e \notin accumulated'
      BY <2>1 DEF Saved
    <2>4. CASE disposed /\ UNCHANGED <<waiting, settling>>
      BY <1>0, <2>1, <2>3, <2>4 DEF InOnePlace, NotLost
    <2>5. CASE ~disposed /\ waiting' = NoCandidate /\ settling' = Append(settling, next)
      <3>1. /\ e \notin waiting'.executions
            /\ Positions(settling', e) =
                 Positions(settling, e) \union (IF e \in next.executions THEN {Len(settling) + 1} ELSE {})
        BY <1>0, <2>5, PositionsAppend DEF NoCandidate
      <3>2. CASE e \in next.executions
        <4>1. Positions(settling, e) = {} /\ e \notin settled
          BY <1>0, <2>2, <3>2 DEF InOnePlace
        <4>2. Positions(settling', e) = {Len(settling) + 1}
          BY <3>1, <3>2, <4>1
        <4> QED BY <1>0, <2>1, <2>3, <3>1, <4>1, <4>2 DEF InOnePlace, NotLost
      <3>3. CASE e \notin next.executions
        <4>1. Positions(settling', e) = Positions(settling, e)
          BY <3>1, <3>3
        <4> QED BY <1>0, <2>1, <2>2, <2>3, <3>1, <3>3, <4>1 DEF InOnePlace, NotLost
      <3> QED BY <3>2, <3>3
    <2>6. CASE ~disposed /\ waiting' = next /\ UNCHANGED settling
      <3>1. e \in waiting'.executions <=> e \in accumulated \/ e \in waiting.executions
        BY <2>2, <2>6
      <3>2. UNCHANGED settling
        BY <2>6
      <3> QED BY <1>0, <2>1, <2>3, <3>1, <3>2 DEF InOnePlace, NotLost
    <2> QED BY <2>1, <2>4, <2>5, <2>6
  <1>5. CASE SignalEffect
    BY <1>1, <1>4, <1>5 DEF SignalEffect, Kept, debouncerVars
  <1>6. CASE QuietWindowEnds
    <2>1. /\ waiting' = NoCandidate /\ settling' = Append(settling, waiting)
          /\ UNCHANGED <<saving, disposed, accumulated, executed, settled, submitted>>
      BY <1>6 DEF QuietWindowEnds, observerVars, kernelVars, outcomeVars
    <2>2. /\ e \notin waiting'.executions
          /\ Positions(settling', e) =
               Positions(settling, e) \union (IF e \in waiting.executions THEN {Len(settling) + 1} ELSE {})
      BY <1>0, <2>1, PositionsAppend DEF NoCandidate
    <2>3. Saved(e)' = Saved(e)
      BY <2>1 DEF Saved
    <2>4. CASE e \in waiting.executions
      <3>1. Positions(settling, e) = {} /\ e \notin settled /\ e \notin accumulated
        BY <1>0, <2>4 DEF InOnePlace
      <3>2. Positions(settling', e) = {Len(settling) + 1}
        BY <2>2, <2>4, <3>1
      <3> QED BY <1>0, <2>1, <2>2, <2>3, <3>1, <3>2 DEF InOnePlace, NotLost
    <2>5. CASE e \notin waiting.executions
      <3>1. Positions(settling', e) = Positions(settling, e)
        BY <2>2, <2>5
      <3> QED BY <1>0, <2>1, <2>2, <2>3, <2>5, <3>1 DEF InOnePlace, NotLost
    <2> QED BY <2>4, <2>5
  <1>7. CASE Resolve
    <2>1. PICK head : head = Head(settling)
      OBVIOUS
    <2>2. PICK rest : rest = Tail(settling)
      OBVIOUS
    <2>3. /\ settling # <<>> /\ settling' = rest /\ settled' = settled \union head.executions
          /\ saving' = saving \/ saving' = saving \union {head}
          /\ UNCHANGED <<waiting, disposed, accumulated, executed, submitted>>
      BY <1>7, <2>1, <2>2 DEF Resolve, SubmitIfChanged, observerVars, kernelVars
    <2>4. /\ \A i \in Positions(rest, e) : i \in Int /\ i + 1 \in Positions(settling, e) /\ i + 1 # 1
          /\ e \in head.executions <=> 1 \in Positions(settling, e)
          /\ \A i \in Positions(settling, e) : i \in Int /\ (i = 1 \/ i - 1 \in Positions(rest, e))
      BY <1>0, <2>1, <2>2, <2>3, PositionsTail
    <2>5. CASE e \in head.executions
      <3>1. /\ Positions(settling, e) = {1} /\ e \notin settled
            /\ e \notin waiting.executions /\ e \notin accumulated
        BY <1>0, <2>4, <2>5 DEF InOnePlace
      <3>2. Positions(rest, e) = {}
        BY <2>4, <3>1
      <3>3. Saved(e) = {} /\ Positions(submitted, e) = {}
        BY <1>0, <3>1 DEF InOnePlace
      <3>4. Saved(e)' = {} \/ Saved(e)' = {head}
        BY <2>3, <3>3 DEF Saved
      <3> QED BY <2>3, <2>5, <3>1, <3>2, <3>3, <3>4 DEF InOnePlace, NotLost
    <2>6. CASE e \notin head.executions
      <3>1. Saved(e)' = Saved(e)
        BY <2>3, <2>6 DEF Saved
      <3>2. Positions(rest, e) = {} <=> Positions(settling, e) = {}
        BY <2>4, <2>6
      <3>3. ASSUME Positions(rest, e) # {}
            PROVE  \E i : Positions(rest, e) = {i}
        <4>1. PICK k : Positions(settling, e) = {k}
          BY <1>0, <3>2, <3>3 DEF InOnePlace
        <4>2. \A l \in Positions(rest, e) : l \in Int /\ l + 1 = k
          BY <2>4, <4>1
        <4>3. PICK i : i \in Positions(rest, e)
          BY <3>3
        <4>4. Positions(rest, e) = {i}
          BY <4>2, <4>3
        <4> QED BY <4>4
      <3>4. /\ Positions(settling', e) = {} <=> Positions(settling, e) = {}
            /\ Positions(settling', e) = {} \/ \E i : Positions(settling', e) = {i}
        BY <2>3, <3>2, <3>3
      <3>5. e \in settled' <=> e \in settled
        BY <2>3, <2>6
      <3> QED BY <1>0, <2>3, <3>1, <3>4, <3>5 DEF InOnePlace, NotLost
    <2> QED BY <2>5, <2>6
  <1>8. ASSUME NEW c \in saving, SaveNotebook(c)
        PROVE  InOnePlace(e)' /\ NotLost(e)'
    <2>1. /\ saving' = saving \ {c}
          /\ UNCHANGED <<waiting, settling, disposed, accumulated, executed, settled>>
          /\ submitted' = Append(submitted, c) \/ submitted' = submitted
      BY <1>8 DEF SaveNotebook, observerVars, kernelVars
    <2>2. NotLost(e)'
      BY <1>0, <2>1 DEF NotLost
    <2>3. CASE e \in c.executions
      <3>1. c \in Saved(e)
        BY <2>3 DEF Saved
      <3>2. Saved(e) = {c} /\ Positions(submitted, e) = {} /\ e \in settled
        BY <1>0, <3>1 DEF InOnePlace
      <3>3. Saved(e)' = {}
        BY <2>1, <3>2 DEF Saved
      <3>4. Positions(submitted', e) = {} \/ Positions(submitted', e) = {Len(submitted) + 1}
        BY <1>0, <2>1, <3>2, PositionsAppend
      <3> QED BY <1>0, <2>1, <2>2, <3>2, <3>3, <3>4 DEF InOnePlace
    <2>4. CASE e \notin c.executions
      <3>1. Saved(e)' = Saved(e)
        BY <2>1, <2>4 DEF Saved
      <3>2. Positions(submitted', e) = Positions(submitted, e)
        <4>1. CASE submitted' = Append(submitted, c)
          <5>1. Positions(submitted', e) =
                  Positions(submitted, e) \union (IF e \in c.executions THEN {Len(submitted) + 1} ELSE {})
            BY <1>0, <4>1, PositionsAppend
          <5> QED BY <2>4, <5>1
        <4>2. CASE submitted' = submitted
          BY <4>2
        <4> QED BY <2>1, <4>1, <4>2
      <3> QED BY <1>0, <2>1, <2>2, <3>1, <3>2 DEF InOnePlace
    <2> QED BY <2>3, <2>4
  <1>9. CASE Dispose
    <2>1. /\ waiting' = NoCandidate /\ disposed'
          /\ UNCHANGED <<settling, saving, accumulated, executed, settled, submitted>>
      BY <1>9 DEF Dispose, observerVars, kernelVars, outcomeVars
    <2>2. Saved(e)' = Saved(e) /\ e \notin waiting'.executions
      BY <2>1 DEF Saved, NoCandidate
    <2> QED BY <1>0, <2>1, <2>2 DEF InOnePlace, NotLost
  <1> QED BY <1>2, <1>3, <1>5, <1>6, <1>7, <1>8, <1>9, StepKinds DEF Collecting

LEMMA HeldInvariant == Spec => []Held
  <1>1. Init => Held
    <2> SUFFICES ASSUME Init, NEW e \in Executions PROVE InOnePlace(e) /\ NotLost(e)
      BY DEF Held
    <2>1. /\ accumulated = {} /\ waiting.executions = {} /\ settling = <<>> /\ saving = {}
          /\ submitted = <<>> /\ executed = {} /\ settled = {}
      BY DEF Init, NoCandidate
    <2>2. Positions(settling, e) = {} /\ Saved(e) = {} /\ Positions(submitted, e) = {}
      BY <2>1 DEF Positions, Saved
    <2> QED BY <2>1, <2>2 DEF InOnePlace, NotLost
  <1>2. Held /\ Collecting /\ [Next]_vars => Held'
    BY HeldStep DEF Held, Executions, Runs, Cells
  <1> QED BY <1>1, <1>2, CollectingHolds, PTL DEF Spec

\* The execution of a trigger cell is in one place between the observer and the server
\* until its candidate is resolved or the panel is gone, and a submitted one in none,
\* whenever the kernel is idle, whatever is merged and whichever end signals are missing.
THEOREM ExecutionsAreHeldOnce == Spec => []ExecutionHeldOnce
  <1>1. ASSUME Held, Collecting PROVE ExecutionHeldOnce
    <2> SUFFICES ASSUME NEW e \in executed
                 PROVE  LET held == Cardinality({c \in {waiting} \union saving : e \in c.executions})
                                      + Cardinality({i \in DOMAIN settling : e \in settling[i].executions})
                                      + (IF e \in accumulated THEN 1 ELSE 0) IN
                        /\ held + Cardinality({i \in DOMAIN submitted : e \in submitted[i].executions}) <= 1
                        /\ held = 0 => e \in settled \/ disposed
      BY DEF ExecutionHeldOnce
    <2> DEFINE behind == {c \in {waiting} \union saving : e \in c.executions}
               places == {i \in DOMAIN settling : e \in settling[i].executions}
               sent == {i \in DOMAIN submitted : e \in submitted[i].executions}
    <2>1. InOnePlace(e) /\ NotLost(e)
      BY <1>1, ExecutionNumbers DEF Held, Collecting
    <2>2. places = Positions(settling, e) /\ sent = Positions(submitted, e)
      BY DEF Positions
    <2>3. behind = Saved(e) \union (IF e \in waiting.executions THEN {waiting} ELSE {})
      BY DEF Saved
    <2> HIDE DEF behind, places, sent
    <2>4. Cardinality({}) = 0 /\ \A x : Cardinality({x}) = 1
      BY FS_EmptySet, FS_Singleton
    <2>5. places = {} \/ \E i : places = {i}
      BY <2>1, <2>2 DEF InOnePlace
    <2>6. sent = {} \/ \E i : sent = {i}
      BY <2>1, <2>2 DEF InOnePlace
    <2>7. behind = {} \/ \E c : behind = {c}
      BY <2>1, <2>3 DEF InOnePlace
    <2>8. /\ Cardinality(places) = IF places = {} THEN 0 ELSE 1
          /\ Cardinality(sent) = IF sent = {} THEN 0 ELSE 1
          /\ Cardinality(behind) = IF behind = {} THEN 0 ELSE 1
      BY <2>4, <2>5, <2>6, <2>7
    <2>9. /\ e \in accumulated => behind = {} /\ places = {} /\ sent = {}
          /\ behind # {} => places = {} /\ sent = {}
          /\ places # {} => sent = {}
      BY <2>1, <2>2, <2>3 DEF InOnePlace
    <2>10. behind = {} /\ places = {} /\ e \notin accumulated => e \in settled \/ disposed
      BY <2>1, <2>2, <2>3 DEF NotLost
    <2>11. PICK held : held = Cardinality(behind) + Cardinality(places)
                                + (IF e \in accumulated THEN 1 ELSE 0)
      OBVIOUS
    <2>12. held + Cardinality(sent) <= 1
      BY <2>8, <2>9, <2>11
    <2>13. held = 0 => behind = {} /\ places = {} /\ e \notin accumulated
      BY <2>8, <2>11
    <2> QED BY <2>10, <2>11, <2>12, <2>13 DEF behind, places, sent
  <1>2. Held /\ Collecting => ExecutionHeldOnce
    BY <1>1
  <1> QED BY <1>2, HeldInvariant, CollectingHolds, PTL

----------------------------------------------------------------------------
(* The order of what is not decided yet.                                   *)

\* What was executed before stays before, or in the same candidate.
InLine(e, f) ==
  /\ e \in accumulated => f \in accumulated
  /\ e \in waiting.executions => f \in accumulated \/ f \in waiting.executions
  /\ \A i \in Positions(settling, e) :
       f \in accumulated \/ f \in waiting.executions \/ \E j \in Positions(settling, f) : j >= i

Queued == \A e, f \in executed : Before(e, f) /\ ~disposed => InLine(e, f)

LEMMA QueuedStep ==
  ASSUME Collecting, Queued, [Next]_vars, NEW e \in executed', NEW f \in executed',
         Before(e, f), ~disposed'
  PROVE  InLine(e, f)'
  <1>0. /\ settling \in Seq(Candidates)
        /\ accumulated \subseteq executed /\ settled \subseteq executed
        /\ e \in executed /\ f \in executed /\ ~disposed => InLine(e, f)
    BY DEF Collecting, TypeOK, Queued
  <1>1. ASSUME UNCHANGED <<waiting, settling, accumulated, disposed, executed>>
        PROVE  InLine(e, f)'
    BY <1>0, <1>1 DEF InLine, Positions
  <1>2. CASE StartRun \/ \E c \in saving : SaveNotebook(c)
    BY <1>1, <1>2 DEF StartRun, SaveNotebook, kernelVars, observerVars, debouncerVars
  <1>3. ASSUME NEW g \in Executions, NEW success \in BOOLEAN, CellEffect(g, success)
        PROVE  InLine(e, f)'
    <2>1. /\ UNCHANGED <<waiting, settling, disposed>>
          /\ \/ accumulated' = accumulated /\ executed' = executed
             \/ accumulated' = accumulated \union {g} /\ executed' = executed \union {g}
      BY <1>3 DEF CellEffect, debouncerVars
    <2>2. g \notin executed /\ \A h \in executed : ~Before(g, h)
      BY <1>3, FirstTime
    <2>3. ~Before(g, g)
      BY ExecutionNumbers DEF Before, Collecting
    <2>4. CASE accumulated' = accumulated /\ executed' = executed
      BY <1>1, <2>1, <2>4
    <2>5. CASE accumulated' = accumulated \union {g} /\ executed' = executed \union {g}
      <3>1. e \in executed
        BY <2>2, <2>3, <2>5
      <3>2. CASE f = g
        BY <2>5, <3>2 DEF InLine
      <3>3. CASE f \in executed
        BY <1>0, <2>1, <2>2, <2>5, <3>1, <3>3 DEF InLine, Positions
      <3> QED BY <2>5, <3>2, <3>3
    <2> QED BY <2>1, <2>4, <2>5
  <1>4. CASE FlushEffect /\ UNCHANGED executed
    <2> DEFINE next == IF waiting = NoCandidate THEN Accumulated ELSE Merged(waiting, Accumulated)
    <2>1. /\ accumulated' = {} /\ disposed' = disposed /\ executed' = executed
          /\ \/ waiting' = NoCandidate /\ settling' = Append(settling, next)
             \/ waiting' = next /\ UNCHANGED settling
      BY <1>4 DEF FlushEffect
    <2>2. \A h : h \in next.executions <=> h \in accumulated \/ h \in waiting.executions
      BY DEF Accumulated, Merged, NoCandidate
    <2> HIDE DEF next
    <2>3. InLine(e, f)
      BY <1>0, <2>1
    <2>4. CASE waiting' = next /\ UNCHANGED settling
      <3>1. \A h : h \in waiting'.executions <=> h \in accumulated \/ h \in waiting.executions
        BY <2>2, <2>4
      <3>2. UNCHANGED settling
        BY <2>4
      <3> QED BY <2>1, <2>3, <3>1, <3>2 DEF InLine
    <2>5. CASE waiting' = NoCandidate /\ settling' = Append(settling, next)
      <3>1. \A h : Positions(settling', h) =
                     Positions(settling, h)
                       \union (IF h \in next.executions THEN {Len(settling) + 1} ELSE {})
        BY <1>0, <2>5, PositionsAppend
      <3>2. Len(settling) + 1 \in Int /\ \A i \in Positions(settling, e) : i \in Int /\ i <= Len(settling) + 1
        BY <1>0 DEF Positions
      <3>3. accumulated' = {} /\ waiting'.executions = {}
        BY <2>1, <2>5 DEF NoCandidate
      <3>4. ASSUME NEW i \in Positions(settling', e)
            PROVE  \E j \in Positions(settling', f) : j >= i
        <4>1. CASE f \in next.executions
          <5>1. Len(settling) + 1 \in Positions(settling', f) /\ i <= Len(settling) + 1
            BY <3>1, <3>2, <4>1
          <5> QED BY <3>2, <5>1
        <4>2. CASE f \notin next.executions
          <5>1. i \in Positions(settling, e)
            BY <2>2, <2>3, <3>1, <4>2 DEF InLine
          <5> QED BY <2>2, <2>3, <3>1, <4>2, <5>1 DEF InLine
        <4> QED BY <4>1, <4>2
      <3> QED BY <3>3, <3>4 DEF InLine
    <2> QED BY <2>1, <2>4, <2>5
  <1>5. CASE SignalEffect
    BY <1>1, <1>4, <1>5 DEF SignalEffect, Kept, debouncerVars
  <1>6. CASE QuietWindowEnds
    <2>1. /\ waiting' = NoCandidate /\ settling' = Append(settling, waiting)
          /\ UNCHANGED <<disposed, accumulated, executed>>
      BY <1>6 DEF QuietWindowEnds, observerVars, kernelVars
    <2>2. InLine(e, f)
      BY <1>0, <2>1
    <2>3. \A h : Positions(settling', h) =
                   Positions(settling, h)
                     \union (IF h \in waiting.executions THEN {Len(settling) + 1} ELSE {})
      BY <1>0, <2>1, PositionsAppend
    <2>4. Len(settling) + 1 \in Int /\ \A i \in Positions(settling, e) : i \in Int /\ i <= Len(settling) + 1
      BY <1>0 DEF Positions
    <2>5. waiting'.executions = {} /\ accumulated' = accumulated
      BY <2>1 DEF NoCandidate
    <2>6. ASSUME NEW i \in Positions(settling', e), f \notin accumulated
          PROVE  \E j \in Positions(settling', f) : j >= i
      <3>1. CASE f \in waiting.executions
        <4>1. Len(settling) + 1 \in Positions(settling', f) /\ i <= Len(settling) + 1
          BY <2>3, <2>4, <3>1
        <4> QED BY <2>4, <4>1
      <3>2. CASE f \notin waiting.executions
        <4>1. i \in Positions(settling, e)
          BY <2>2, <2>3, <2>6, <3>2 DEF InLine
        <4> QED BY <2>2, <2>3, <2>6, <3>2, <4>1 DEF InLine
      <3> QED BY <3>1, <3>2
    <2> QED BY <2>2, <2>5, <2>6 DEF InLine
  <1>7. CASE Resolve
    <2>1. PICK rest : rest = Tail(settling)
      OBVIOUS
    <2>2. /\ settling # <<>> /\ settling' = rest
          /\ UNCHANGED <<waiting, disposed, accumulated, executed>>
      BY <1>7, <2>1 DEF Resolve, observerVars, kernelVars
    <2>3. InLine(e, f)
      BY <1>0, <2>2
    <2>4. /\ \A i \in Positions(rest, e) : i \in Int /\ i + 1 \in Positions(settling, e) /\ i + 1 # 1
          /\ \A i \in Positions(rest, e) : i + 1 >= 2
          /\ \A j \in Positions(settling, f) : j \in Int /\ (j = 1 \/ j - 1 \in Positions(rest, f))
      <3>1. \A i \in Positions(rest, e) : i >= 1
        BY <1>0, <2>1, <2>2 DEF Positions
      <3>2. \A i \in Positions(rest, e) : i \in Int /\ i + 1 \in Positions(settling, e) /\ i + 1 # 1
        BY <1>0, <2>1, <2>2, PositionsTail
      <3>3. \A j \in Positions(settling, f) : j \in Int /\ (j = 1 \/ j - 1 \in Positions(rest, f))
        BY <1>0, <2>1, <2>2, PositionsTail
      <3>4. \A i \in Positions(rest, e) : i + 1 >= 2
        BY <3>1, <3>2
      <3> QED BY <3>2, <3>3, <3>4
    <2>5. ASSUME NEW i \in Positions(rest, e), f \notin accumulated, f \notin waiting.executions
          PROVE  \E j \in Positions(rest, f) : j >= i
      <3>1. PICK j \in Positions(settling, f) : j >= i + 1
        BY <2>3, <2>4, <2>5 DEF InLine
      <3>2. j - 1 \in Positions(rest, f) /\ j - 1 >= i
        BY <2>4, <3>1
      <3> QED BY <3>2
    <2> QED BY <2>2, <2>3, <2>5 DEF InLine
  <1>8. ~Dispose
    BY DEF Dispose
  <1> QED BY <1>2, <1>3, <1>5, <1>6, <1>7, <1>8, StepKinds DEF Collecting

LEMMA QueuedInvariant == Spec => []Queued
  <1>1. Init => Queued
    BY DEF Init, Queued
  <1>2. Queued /\ Collecting /\ [Next]_vars => Queued'
    <2> SUFFICES ASSUME Queued, Collecting, [Next]_vars, NEW e \in executed', NEW f \in executed',
                        Before(e, f), ~disposed'
                 PROVE  InLine(e, f)'
      BY DEF Queued, Before
    <2> QED BY QueuedStep
  <1> QED BY <1>1, <1>2, CollectingHolds, PTL DEF Spec

\* Candidates are resolved in the order of their executions: neither the final cell's
\* flush nor the chain of submissions lets one pass another.
THEOREM ExecutionsResolveInOrder == Spec => []ResolvedInOrder
  <1>1. ASSUME Held, Collecting, Queued PROVE ResolvedInOrder
    <2> SUFFICES ASSUME NEW e \in executed, NEW f \in executed, Before(e, f), f \in settled,
                        e \notin settled, ~disposed
                 PROVE  FALSE
      BY DEF ResolvedInOrder
    <2>1. InOnePlace(f) /\ NotLost(e)
      BY <1>1, ExecutionNumbers DEF Held, Collecting
    <2>2. InLine(e, f)
      BY <1>1 DEF Queued
    <2>3. f \notin accumulated /\ f \notin waiting.executions /\ Positions(settling, f) = {}
      BY <2>1 DEF InOnePlace
    <2>4. e \in accumulated \/ e \in waiting.executions \/ Positions(settling, e) # {}
      BY <2>1 DEF NotLost
    <2> QED BY <2>2, <2>3, <2>4 DEF InLine
  <1>2. Held /\ Collecting /\ Queued => ResolvedInOrder
    BY <1>1
  <1> QED BY <1>2, HeldInvariant, QueuedInvariant, CollectingHolds, PTL
=============================================================================
