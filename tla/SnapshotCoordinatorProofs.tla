--------------------- MODULE SnapshotCoordinatorProofs ---------------------
(***************************************************************************)
(* Proofs about the admission table alone, and about the coordinator that  *)
(* uses it: for any notebooks and runs, any limits and TTL, any faults of  *)
(* the store and any number of restarts.                                   *)
(***************************************************************************)
EXTENDS SnapshotCoordinator, FiniteSetTheorems, SequenceTheorems, TLAPS

----------------------------------------------------------------------------
(* The admission table.                                                    *)

\* What admit() and complete() keep of the completed entries is still a table
\* of times.
LEMMA UnexpiredType ==
  ASSUME AdmissionTypeOK
  PROVE  /\ Unexpired \in [Fingerprints -> Nat \union {Never}]
         /\ \A f \in Fingerprints : Unexpired[f] \in {completed[f], Never}
  BY AdmissionAssumption DEF AdmissionTypeOK, Unexpired

\* A job's fingerprint is one of the table's keys.
LEMMA InfoType ==
  ASSUME NEW info \in JobInfo
  PROVE  /\ info.notebook \in Notebooks
         /\ info.source \in Sources
         /\ FingerprintOf(info) \in Fingerprints
         /\ info # NoInfo
  BY AdmissionAssumption DEF JobInfo, FingerprintOf, Fingerprints

----------------------------------------------------------------------------
LEMMA AdmissionTypeInit == AdmissionInit => AdmissionTypeOK
  BY DEF AdmissionInit, AdmissionEmpty, AdmissionTypeOK

LEMMA AdmissionTypeStep ==
  ASSUME AdmissionTypeOK, [AdmissionNext]_admissionVars
  PROVE  AdmissionTypeOK'
  <1> USE DEF AdmissionTypeOK
  <1>1. ASSUME NEW info \in JobInfo, Coalesce(info) \/ Reject(info)
        PROVE  AdmissionTypeOK'
    BY <1>1, UnexpiredType DEF Coalesce, Reject
  <1>2. ASSUME NEW job \in Jobs, NEW info \in JobInfo, Accept(job, info)
        PROVE  AdmissionTypeOK'
    BY <1>2, UnexpiredType, InfoType DEF Accept
  <1>3. ASSUME NEW job \in Jobs, NEW succeeded \in BOOLEAN, Complete(job, succeeded)
        PROVE  AdmissionTypeOK'
    <2>1. CASE jobs[job] = NoInfo
      BY <1>3, <2>1 DEF Complete
    <2>2. CASE jobs[job] # NoInfo
      <3>1. jobs[job] \in JobInfo
        BY <2>2
      <3>2. FingerprintOf(jobs[job]) \in Fingerprints /\ jobs[job].notebook \in Notebooks
        BY <3>1, InfoType
      <3> QED BY <1>3, <2>2, <3>1, <3>2 DEF Complete, NoJob
    <2> QED BY <2>1, <2>2
  <1>4. CASE Tick
    BY <1>4 DEF Tick
  <1>5. CASE Reset
    BY <1>5 DEF Reset
  <1>6. CASE UNCHANGED admissionVars
    BY <1>6 DEF admissionVars
  <1> QED BY <1>1, <1>2, <1>3, <1>4, <1>5, <1>6 DEF AdmissionNext

\* The admission table keeps its shape.
THEOREM AdmissionTypeCorrect == AdmissionSpec => []AdmissionTypeOK
  BY AdmissionTypeInit, AdmissionTypeStep, PTL DEF AdmissionSpec

----------------------------------------------------------------------------
\* The jobs of a notebook are finitely many: job ids are bounded.
LEMMA AdmittedFinite ==
  ASSUME NEW n \in Notebooks
  PROVE  /\ IsFiniteSet(AdmittedFor(n))
         /\ Cardinality(AdmittedFor(n)) \in Nat
  <1>1. IsFiniteSet(Jobs)
    BY FS_Interval, AdmissionAssumption DEF Jobs
  <1>2. AdmittedFor(n) \in SUBSET Jobs
    BY DEF AdmittedFor
  <1> QED BY <1>1, <1>2, FS_Subset, FS_CardinalityType

\* Admitting one more job counts it once, for its own notebook only.
LEMMA AcceptCounts ==
  ASSUME AdmissionTypeOK, SlotsCounted,
         NEW job \in Jobs, NEW info \in JobInfo,
         jobs[job] = NoInfo, Accept(job, info)
  PROVE  SlotsCounted'
  <1> DEFINE nb == info.notebook
  <1>1. nb \in Notebooks /\ info # NoInfo
    BY InfoType
  <1>2. AdmittedFor(nb)' = AdmittedFor(nb) \union {job}
    BY <1>1 DEF Accept, AdmissionTypeOK, AdmittedFor
  <1>3. job \notin AdmittedFor(nb)
    BY DEF AdmittedFor
  <1>4. Cardinality(AdmittedFor(nb)') = Cardinality(AdmittedFor(nb)) + 1
    BY <1>1, <1>2, <1>3, AdmittedFinite, FS_AddElement
  <1>5. pending[nb] < MaxPending
    BY <1>1, AdmissionAssumption DEF Accept, IsFull, AdmissionTypeOK
  <1>6. pending'[nb] = pending[nb] + 1
    BY <1>1 DEF Accept, AdmissionTypeOK
  <1>7. ASSUME NEW m \in Notebooks, m # nb
        PROVE  AdmittedFor(m)' = AdmittedFor(m) /\ pending'[m] = pending[m]
    BY <1>1, <1>7 DEF Accept, AdmissionTypeOK, AdmittedFor
  <1>8. ASSUME NEW m \in Notebooks
        PROVE  pending'[m] = Cardinality(AdmittedFor(m)') /\ pending'[m] <= MaxPending
    <2>1. CASE m = nb
      BY <1>1, <1>4, <1>5, <1>6, <2>1, AdmissionAssumption DEF SlotsCounted, AdmissionTypeOK
    <2>2. CASE m # nb
      BY <1>7, <2>2 DEF SlotsCounted
    <2> QED BY <2>1, <2>2
  <1> QED BY <1>8 DEF SlotsCounted

\* Completing a job of the table takes exactly that job out of the count, so
\* the count is positive and the clamp at zero is never reached.
LEMMA CompleteCounts ==
  ASSUME AdmissionTypeOK, SlotsCounted,
         NEW job \in Jobs, NEW succeeded \in BOOLEAN, Complete(job, succeeded)
  PROVE  SlotsCounted'
  <1>1. CASE jobs[job] = NoInfo
    BY <1>1 DEF Complete, SlotsCounted, AdmittedFor
  <1>2. CASE jobs[job] # NoInfo
    <2>1. jobs[job] \in JobInfo
      BY <1>2 DEF AdmissionTypeOK
    <2>2. PICK nb \in Notebooks : nb = jobs[job].notebook
      BY <2>1, InfoType
    <2>3. job \in AdmittedFor(nb)
      BY <1>2, <2>2 DEF AdmittedFor
    <2>4. AdmittedFor(nb)' = AdmittedFor(nb) \ {job}
      BY <1>2, <2>2 DEF Complete, AdmissionTypeOK, AdmittedFor
    <2>5. Cardinality(AdmittedFor(nb)') = Cardinality(AdmittedFor(nb)) - 1
      BY <2>2, <2>3, <2>4, AdmittedFinite, FS_RemoveElement
    <2>6. Cardinality(AdmittedFor(nb)) # 0
      BY <2>2, <2>3, AdmittedFinite, FS_EmptySet
    <2>7. pending'[nb] = pending[nb] - 1
      <3>1. pending[nb] - 1 >= 0
        BY <2>2, <2>6, AdmittedFinite DEF SlotsCounted
      <3> QED BY <1>2, <2>2, <3>1 DEF Complete, AdmissionTypeOK
    <2>8. ASSUME NEW m \in Notebooks, m # nb
          PROVE  AdmittedFor(m)' = AdmittedFor(m) /\ pending'[m] = pending[m]
      BY <1>2, <2>2, <2>8 DEF Complete, AdmissionTypeOK, AdmittedFor
    <2>9. ASSUME NEW m \in Notebooks
          PROVE  pending'[m] = Cardinality(AdmittedFor(m)') /\ pending'[m] <= MaxPending
      <3>1. CASE m = nb
        BY <2>2, <2>5, <2>7, <3>1, AdmissionAssumption DEF SlotsCounted, AdmissionTypeOK
      <3>2. CASE m # nb
        BY <2>8, <3>2 DEF SlotsCounted
      <3> QED BY <3>1, <3>2
    <2> QED BY <2>9 DEF SlotsCounted
  <1> QED BY <1>1, <1>2

\* No notebook ever holds more than its slots, and the count loses none.
THEOREM SlotsAlwaysCounted == AdmissionSpec => []SlotsCounted
  <1>1. AdmissionInit => SlotsCounted
    <2> SUFFICES ASSUME AdmissionInit, NEW n \in Notebooks
                 PROVE  pending[n] = Cardinality(AdmittedFor(n)) /\ pending[n] <= MaxPending
      BY DEF SlotsCounted
    <2>1. AdmittedFor(n) = {}
      BY DEF AdmissionInit, AdmissionEmpty, AdmittedFor
    <2> QED BY <2>1, FS_EmptySet, AdmissionAssumption DEF AdmissionInit, AdmissionEmpty
  <1>2. SlotsCounted /\ AdmissionTypeOK /\ [AdmissionNext]_admissionVars => SlotsCounted'
    <2> SUFFICES ASSUME SlotsCounted, AdmissionTypeOK, [AdmissionNext]_admissionVars
                 PROVE  SlotsCounted'
      OBVIOUS
    <2>1. ASSUME NEW info \in JobInfo, Coalesce(info) \/ Reject(info)
          PROVE  SlotsCounted'
      BY <2>1 DEF Coalesce, Reject, SlotsCounted, AdmittedFor
    <2>2. CASE Tick
      BY <2>2 DEF Tick, SlotsCounted, AdmittedFor
    <2>3. CASE Reset
      <3>1. ASSUME NEW n \in Notebooks
            PROVE  pending'[n] = Cardinality(AdmittedFor(n)') /\ pending'[n] <= MaxPending
        <4>1. AdmittedFor(n)' = {}
          BY <2>3 DEF Reset, AdmittedFor
        <4>2. pending'[n] = 0
          BY <2>3 DEF Reset
        <4> QED BY <4>1, <4>2, FS_EmptySet, AdmissionAssumption
      <3> QED BY <3>1 DEF SlotsCounted
    <2>4. CASE UNCHANGED admissionVars
      BY <2>4 DEF admissionVars, SlotsCounted, AdmittedFor
    <2> QED BY <2>1, <2>2, <2>3, <2>4, AcceptCounts, CompleteCounts DEF AdmissionNext
  <1> QED BY <1>1, <1>2, AdmissionTypeCorrect, PTL DEF AdmissionSpec

----------------------------------------------------------------------------
\* What the dedupe tables say together.
Dedupe == ActiveIsExact /\ ActiveXorCompleted

LEMMA DedupeStep ==
  ASSUME AdmissionTypeOK, Dedupe, [AdmissionNext]_admissionVars
  PROVE  Dedupe'
  <1> USE DEF Dedupe, ActiveIsExact, ActiveXorCompleted, AdmissionTypeOK
  <1>1. ASSUME NEW info \in JobInfo, Coalesce(info) \/ Reject(info)
        PROVE  Dedupe'
    BY <1>1, UnexpiredType DEF Coalesce, Reject
  <1>2. ASSUME NEW job \in Jobs, NEW info \in JobInfo, jobs[job] = NoInfo, Accept(job, info)
        PROVE  Dedupe'
    <2> DEFINE fp == FingerprintOf(info)
    <2>1. fp \in Fingerprints /\ info # NoInfo
      BY InfoType
    <2>2. CASE IsTrigger(info)
      <3>1. active[fp] = NoJob /\ completed'[fp] = Never
        BY <1>2, <2>2 DEF Accept, Coalesces, IsDuplicate
      <3>2. active' = [active EXCEPT ![fp] = job] /\ jobs' = [jobs EXCEPT ![job] = info]
        BY <1>2, <2>2 DEF Accept
      <3>3. ActiveXorCompleted'
        BY <1>2, <2>1, <3>1, <3>2, UnexpiredType DEF Accept
      <3>4. ActiveIsExact'
        BY <1>2, <2>1, <2>2, <3>1, <3>2 DEF NoJob, Jobs
      <3> QED BY <3>3, <3>4
    <2>3. CASE ~IsTrigger(info)
      BY <1>2, <2>1, <2>3, UnexpiredType DEF Accept
    <2> QED BY <2>2, <2>3
  <1>3. ASSUME NEW job \in Jobs, NEW succeeded \in BOOLEAN, Complete(job, succeeded)
        PROVE  Dedupe'
    <2>1. CASE jobs[job] = NoInfo
      BY <1>3, <2>1 DEF Complete
    <2>2. CASE jobs[job] # NoInfo /\ IsTrigger(jobs[job])
      <3> DEFINE fp == FingerprintOf(jobs[job])
      <3>1. fp \in Fingerprints
        BY <2>2, InfoType
      <3>2. /\ active' = [active EXCEPT ![fp] = NoJob]
            /\ jobs' = [jobs EXCEPT ![job] = NoInfo]
            /\ \A f \in Fingerprints : f # fp => completed'[f] = completed[f]
        BY <1>3, <2>2, <3>1 DEF Complete
      <3>3. active[fp] = job
        BY <2>2, <3>1
      <3> QED BY <3>1, <3>2, <3>3 DEF NoJob, Jobs
    <2>3. CASE jobs[job] # NoInfo /\ ~IsTrigger(jobs[job])
      BY <1>3, <2>3 DEF Complete
    <2> QED BY <2>1, <2>2, <2>3
  <1>4. CASE Tick
    BY <1>4 DEF Tick
  <1>5. CASE Reset
    BY <1>5 DEF Reset, NoJob, Jobs
  <1>6. CASE UNCHANGED admissionVars
    BY <1>6 DEF admissionVars
  <1> QED BY <1>1, <1>2, <1>3, <1>4, <1>5, <1>6 DEF AdmissionNext

\* Two trigger jobs of one run are never in flight together, completing a job
\* never frees another one's fingerprint, and a run is never both in flight
\* and remembered as done.
THEOREM DedupeCorrect == AdmissionSpec => [](ActiveIsExact /\ ActiveXorCompleted)
  <1>1. AdmissionInit => Dedupe
    BY DEF AdmissionInit, AdmissionEmpty, Dedupe, ActiveIsExact, ActiveXorCompleted, NoJob, Jobs
  <1>2. Dedupe => ActiveIsExact /\ ActiveXorCompleted
    BY DEF Dedupe
  <1> QED BY <1>1, <1>2, DedupeStep, AdmissionTypeCorrect, PTL DEF AdmissionSpec

----------------------------------------------------------------------------
(* The coordinator.                                                        *)

\* A thread that is doing something has a job in hand.
JobInHand ==
  \A t \in Threads : thread[t].pc \notin {"idle", "stopped"} => thread[t].job \in Jobs

\* A thread that is recording an alias has an alias to record.
AliasInHand ==
  \A t \in Threads :
    thread[t].pc \in {"alias running", "alias final"} => thread[t].todo # <<>>

\* Job ids are drawn one after the other, and only a drawn id is admitted.
IdsDrawn ==
  \E k \in 0 .. MaxJobs : \A j \in Jobs : request[j] # NoInfo <=> j <= k
AdmittedWereDrawn ==
  \A j \in Jobs : jobs[j] # NoInfo => request[j] # NoInfo

\* What makes the type invariant inductive.
Shape == TypeOK /\ JobInHand /\ AliasInHand /\ IdsDrawn /\ AdmittedWereDrawn

----------------------------------------------------------------------------
\* A saved row is still a row, whatever was saved for whatever job.
LEMMA SavedType ==
  ASSUME NEW table \in [Jobs -> RowStates], NEW job, NEW state \in RowStates
  PROVE  Saved(table, job, state) \in [Jobs -> RowStates]
  BY DEF Saved

\* The id drawn next has not been drawn before.
LEMMA NextJobIsFresh ==
  ASSUME IdsDrawn, NextJob \in Jobs
  PROVE  /\ request[NextJob] = NoInfo
         /\ \A j \in Jobs : request[j] # NoInfo <=> j < NextJob
  <1>1. PICK k \in 0 .. MaxJobs : \A j \in Jobs : request[j] # NoInfo <=> j <= k
    BY DEF IdsDrawn
  <1>2. k \in Nat /\ MaxJobs \in Nat
    BY AdmissionAssumption
  <1>3. {j \in Jobs : request[j] # NoInfo} = 1 .. k
    BY <1>1, <1>2 DEF Jobs
  <1>4. Cardinality(1 .. k) = k
    BY <1>2, FS_Interval
  <1>5. NextJob = k + 1
    BY <1>3, <1>4 DEF NextJob
  <1> QED BY <1>1, <1>2, <1>5 DEF Jobs

\* Whatever the server does, the admission table takes one of its own steps,
\* or none.
LEMMA StepOfAdmission ==
  ASSUME Shape, [Next]_vars
  PROVE  [AdmissionNext]_admissionVars
  <1>1. ASSUME NEW info \in JobInfo, SubmitAccepted(info)
        PROVE  AdmissionNext
    <2>1. NextJob \in Jobs /\ Accept(NextJob, info)
      BY <1>1 DEF SubmitAccepted, MaySubmit
    <2>2. jobs[NextJob] = NoInfo
      BY <2>1, NextJobIsFresh DEF Shape, AdmittedWereDrawn
    <2> QED BY <2>1, <2>2 DEF AdmissionNext
  <1>2. ASSUME NEW info \in JobInfo, SubmitCoalesced(info) \/ SubmitRejected(info)
        PROVE  AdmissionNext
    BY <1>2 DEF SubmitCoalesced, SubmitRejected, AdmissionNext
  <1>3. CASE UndoAdmission
    BY <1>3 DEF UndoAdmission, AdmissionNext, Shape, JobInHand, At, Threads
  <1>4. ASSUME NEW n \in Notebooks, CompleteJob(n)
        PROVE  AdmissionNext
    BY <1>4 DEF CompleteJob, AdmissionNext, Shape, JobInHand, At, Threads
  <1>5. CASE ClockTick \/ Crash
    BY <1>5 DEF ClockTick, Crash, AdmissionNext
  <1>6. CASE \/ SaveQueued \/ Enqueue \/ SaveSubmitFailed \/ SaveAlias
             \/ ReadOriginal \/ AppendAlias \/ SubmitDone
    BY <1>6 DEF SaveQueued, Enqueue, SaveSubmitFailed, SaveAlias, ReadOriginal, AppendAlias,
                SubmitDone, StoreOnly, admissionVars
  <1>7. ASSUME NEW t, ReadAlias(t) \/ SaveAliasRunning(t) \/ SaveAliasFinal(t)
        PROVE  UNCHANGED admissionVars
    BY <1>7 DEF ReadAlias, SaveAliasRunning, SaveAliasFinal, StoreOnly, admissionVars
  <1>8. ASSUME NEW n \in Notebooks,
               \/ TakeJob(n) \/ StopWorker(n) \/ MarkRunning(n) \/ Prepare(n) \/ Deliver(n)
               \/ RecordOutcome(n) \/ SaveFinal(n) \/ PopAliases(n)
        PROVE  UNCHANGED admissionVars
    BY <1>8 DEF TakeJob, StopWorker, MarkRunning, Prepare, Deliver, RecordOutcome, SaveFinal,
                PopAliases, StoreOnly, admissionVars
  <1>9. CASE ShutDown \/ Start \/ UNCHANGED vars
    BY <1>9 DEF ShutDown, Start, vars, admissionVars
  <1> QED BY <1>1, <1>2, <1>3, <1>4, <1>5, <1>6, <1>7, <1>8, <1>9
          DEF Next, Submit, SubmitStep, WorkerStep

----------------------------------------------------------------------------
(* The type invariant is inductive.                                        *)

Locations == LoopLocations \union WorkerLocations \union AliasLocations
FinalStates == TerminalStates \union {NoRow}

LEMMA IdleType ==
  /\ Idle \in ThreadStates
  /\ \A S : <<>> \in Seq(S)
  <1>1. \A S : <<>> \in Seq(S)
    BY EmptySeq
  <1> QED BY <1>1 DEF Idle, ThreadStates, LoopLocations

\* A step of a thread's program leaves the thread a thread.
LEMMA ThreadTypes ==
  ASSUME thread \in [Threads -> ThreadStates], NEW t \in Threads, NEW pc \in Locations,
         NEW final \in FinalStates
  PROVE  /\ Goto(t, pc) => thread' \in [Threads -> ThreadStates]
         /\ Conclude(t, pc, final) => thread' \in [Threads -> ThreadStates]
         /\ Return(t) => thread' \in [Threads -> ThreadStates]
  <1>1. Idle \in ThreadStates
    BY IdleType
  <1>2. [thread[t] EXCEPT !.pc = pc] \in ThreadStates
    BY DEF ThreadStates, Locations
  <1>3. [thread[t] EXCEPT !.pc = pc, !.final = final] \in ThreadStates
    BY DEF ThreadStates, Locations, FinalStates
  <1> QED BY <1>1, <1>2, <1>3 DEF Goto, Conclude, Return

\* A store call leaves the rows typed, whether it succeeds or raises.
LEMMA StoreTypes ==
  ASSUME row \in [Jobs -> RowStates], faults \in Nat, NEW job, NEW state \in RowStates,
         NEW op
  PROVE  /\ Save(job, state) => row' \in [Jobs -> RowStates] /\ faults' \in Nat
         /\ Raises(op) => row' \in [Jobs -> RowStates] /\ faults' \in Nat
         /\ SaveBestEffort(job, state) => row' \in [Jobs -> RowStates] /\ faults' \in Nat
  BY SavedType DEF Save, Raises, SaveBestEffort

LEMMA TypeInit == Init => TypeOK
  <1> SUFFICES ASSUME Init PROVE TypeOK
    OBVIOUS
  <1>1. AdmissionTypeOK
    BY AdmissionTypeInit DEF Init
  <1>2. Idle \in ThreadStates /\ <<>> \in Seq(Jobs) /\ <<>> \in Seq(Jobs \union {Sentinel})
    BY IdleType
  <1> QED BY <1>1, <1>2 DEF Init, TypeOK, RowStates

\* The conjuncts of TypeOK that the admission table does not decide.
LEMMA SubmitTypes ==
  ASSUME Shape, Submit
  PROVE  TypeOK'
  <1> USE DEF TypeOK
  <1>1. PICK info \in JobInfo : SubmitAccepted(info) \/ SubmitCoalesced(info) \/ SubmitRejected(info)
    BY DEF Submit
  <1>2. AdmissionTypeOK'
    BY StepOfAdmission, AdmissionTypeStep DEF Shape, Next
  <1>3. ASSUME NEW pc \in LoopLocations, Begin(pc, info), NextJob \in Jobs
        PROVE  /\ request' \in [Jobs -> JobInfo \union {NoInfo}]
               /\ life' \in [Jobs -> Nat]
               /\ thread' \in [Threads -> ThreadStates]
    <2>1. [Idle EXCEPT !.pc = pc, !.job = NextJob] \in ThreadStates
      BY <1>3, IdleType DEF Idle, ThreadStates
    <2> QED BY <1>1, <1>3, <2>1 DEF Begin, Shape
  <1>4. CASE SubmitAccepted(info)
    <2>1. "save queued" \in LoopLocations
      BY DEF LoopLocations
    <2> QED BY <1>2, <1>3, <1>4, <2>1 DEF SubmitAccepted, MaySubmit, serverVars, Shape
  <1>5. CASE SubmitCoalesced(info)
    <2>1. "save alias" \in LoopLocations
      BY DEF LoopLocations
    <2>2. active[FingerprintOf(info)] \in Jobs \union {NoJob}
      BY <1>1, InfoType DEF Shape, AdmissionTypeOK
    <2> QED BY <1>2, <1>3, <1>5, <2>1, <2>2 DEF SubmitCoalesced, MaySubmit, serverVars, Shape
  <1>6. CASE SubmitRejected(info)
    BY <1>2, <1>6 DEF SubmitRejected, serverVars, historyVars, Shape
  <1> QED BY <1>1, <1>4, <1>5, <1>6

\* A thread with aliases to record takes them from the front.
LEMMA AliasStepTypes ==
  ASSUME Shape, NEW t \in Threads, ReadAlias(t) \/ SaveAliasRunning(t) \/ SaveAliasFinal(t)
  PROVE  TypeOK'
  <1> USE DEF TypeOK, Shape, StoreOnly, serverVars, historyVars, admissionVars
  <1>1. AdmissionTypeOK'
    BY DEF ReadAlias, SaveAliasRunning, SaveAliasFinal, AdmissionTypeOK
  <1>2. thread[t] \in ThreadStates /\ thread[t].todo \in Seq(Jobs)
        /\ thread[t].final \in RowStates /\ "running" \in RowStates /\ NoRow \in FinalStates
    BY DEF ThreadStates, RowStates, JobStates, InflightStates, FinalStates
  <1>3. {"alias running", "alias final", "aliases", "save failed"} \subseteq Locations
    BY DEF Locations, AliasLocations, LoopLocations
  <1>4. CASE ReadAlias(t)
    <2>1. row' \in [Jobs -> RowStates] /\ faults' \in Nat
      BY <1>4, <1>2, StoreTypes DEF ReadAlias
    <2>2. thread' \in [Threads -> ThreadStates]
      BY <1>4, <1>2, <1>3, ThreadTypes DEF ReadAlias
    <2> QED BY <1>1, <1>4, <2>1, <2>2 DEF ReadAlias
  <1>5. CASE SaveAliasRunning(t)
    <2>1. row' \in [Jobs -> RowStates] /\ faults' \in Nat
      BY <1>5, <1>2, StoreTypes DEF SaveAliasRunning
    <2>2. thread' \in [Threads -> ThreadStates]
      BY <1>5, <1>2, <1>3, ThreadTypes DEF SaveAliasRunning
    <2> QED BY <1>1, <1>5, <2>1, <2>2 DEF SaveAliasRunning
  <1>6. CASE SaveAliasFinal(t)
    <2>1. row' \in [Jobs -> RowStates] /\ faults' \in Nat
      BY <1>6, <1>2, StoreTypes DEF SaveAliasFinal
    <2>2. Tail(thread[t].todo) \in Seq(Jobs) \/ thread[t].todo = <<>>
      BY <1>2, HeadTailProperties
    <2>3. thread[t].todo # <<>>
      BY <1>6 DEF SaveAliasFinal, AliasInHand, At
    <2>4. [thread[t] EXCEPT !.pc = "aliases", !.todo = Tail(thread[t].todo)] \in ThreadStates
      BY <1>2, <1>3, <2>2, <2>3 DEF ThreadStates, Locations
    <2> QED BY <1>1, <1>6, <2>1, <2>4 DEF SaveAliasFinal
  <1> QED BY <1>4, <1>5, <1>6

\* The other steps of a submission.
LEMMA SubmitStepTypes ==
  ASSUME Shape,
         \/ SaveQueued \/ Enqueue \/ UndoAdmission \/ SaveSubmitFailed
         \/ SaveAlias \/ ReadOriginal \/ AppendAlias \/ SubmitDone
  PROVE  TypeOK'
  <1> USE DEF TypeOK, Shape, StoreOnly, serverVars, historyVars, admissionVars
  <1>1. Loop \in Threads
    BY DEF Threads
  <1>2. {"queued", "failed"} \subseteq RowStates /\ NoRow \in FinalStates
    BY DEF RowStates, JobStates, InflightStates, TerminalStates, FinalStates
  <1>3. LoopLocations \union AliasLocations \subseteq Locations
    BY DEF Locations
  <1>4. CASE SaveQueued \/ SaveSubmitFailed \/ SaveAlias
    <2>1. AdmissionTypeOK'
      BY <1>4 DEF SaveQueued, SaveSubmitFailed, SaveAlias, AdmissionTypeOK
    <2>2. row' \in [Jobs -> RowStates] /\ faults' \in Nat
      BY <1>4, <1>2, StoreTypes DEF SaveQueued, SaveSubmitFailed, SaveAlias
    <2>3. thread' \in [Threads -> ThreadStates]
      BY <1>1, <1>2, <1>3, <1>4, ThreadTypes
         DEF SaveQueued, SaveSubmitFailed, SaveAlias, LoopLocations
    <2> QED BY <1>4, <2>1, <2>2, <2>3 DEF SaveQueued, SaveSubmitFailed, SaveAlias
  <1>5. CASE Enqueue
    <2> DEFINE job == thread[Loop].job
               n   == request[job].notebook
    <2>1. AdmissionTypeOK'
      BY <1>5 DEF Enqueue, AdmissionTypeOK
    <2>2. CASE shutdown
      <3>1. thread' \in [Threads -> ThreadStates]
        BY <1>1, <1>2, <1>3, <1>5, <2>2, ThreadTypes DEF Enqueue, LoopLocations
      <3> QED BY <1>5, <2>1, <2>2, <3>1 DEF Enqueue
    <2>3. CASE ~shutdown
      <3>1. thread' \in [Threads -> ThreadStates]
        BY <1>1, <1>2, <1>3, <1>5, <2>3, ThreadTypes DEF Enqueue, LoopLocations
      <3>2. job \in Jobs \union {Sentinel}
        BY <1>1, <1>5 DEF Enqueue, JobInHand, At
      <3>3. \A m \in Notebooks : Append(queue[m], job) \in Seq(Jobs \union {Sentinel})
        BY <3>2, AppendProperties
      <3>4. queue' \in [Notebooks -> Seq(Jobs \union {Sentinel})]
        <4>1. queue' = [queue EXCEPT ![n] = Append(queue[n], job)]
          BY <1>5, <2>3 DEF Enqueue
        <4> HIDE DEF n, job
        <4> QED BY <3>3, <4>1
      <3> QED BY <1>5, <2>1, <2>3, <3>1, <3>4 DEF Enqueue
    <2> QED BY <2>2, <2>3
  <1>6. CASE UndoAdmission
    <2>1. AdmissionTypeOK'
      BY <1>6, StepOfAdmission, AdmissionTypeStep DEF Next, SubmitStep
    <2>2. thread' \in [Threads -> ThreadStates]
      BY <1>1, <1>2, <1>3, <1>6, ThreadTypes DEF UndoAdmission, LoopLocations
    <2> QED BY <1>6, <2>1, <2>2 DEF UndoAdmission
  <1>7. CASE ReadOriginal
    <2> DEFINE alias    == thread[Loop].job
               original == coalescedInto[alias]
    <2>1. AdmissionTypeOK'
      BY <1>7 DEF ReadOriginal, AdmissionTypeOK
    <2>2. row' \in [Jobs -> RowStates] /\ faults' \in Nat
      BY <1>2, <1>7, StoreTypes DEF ReadOriginal
    <2>3. alias \in Jobs
      BY <1>1, <1>7 DEF ReadOriginal, JobInHand, At
    <2>4. ASSUME IsTerminal(row[original])
          PROVE  [thread[Loop] EXCEPT !.pc = "aliases", !.final = row[original],
                                      !.todo = <<alias>>] \in ThreadStates
      <3>1. <<alias>> \in Seq(Jobs)
        BY <2>3
      <3> QED BY <1>1, <2>4, <3>1 DEF IsTerminal, ThreadStates, AliasLocations
    <2>5. thread' \in [Threads -> ThreadStates]
      <3>1. CASE Goto(Loop, "append") \/ Goto(Loop, "save failed")
        BY <1>1, <1>2, <1>3, <3>1, ThreadTypes DEF LoopLocations
      <3> QED BY <1>1, <1>7, <2>4, <3>1 DEF ReadOriginal
    <2> QED BY <1>7, <2>1, <2>2, <2>5 DEF ReadOriginal
  <1>8. CASE AppendAlias
    <2> DEFINE alias    == thread[Loop].job
               original == coalescedInto[alias]
    <2>1. AdmissionTypeOK'
      BY <1>8 DEF AppendAlias, AdmissionTypeOK
    <2>2. alias \in Jobs
      BY <1>1, <1>8 DEF AppendAlias, JobInHand, At
    <2>3. \A j \in Jobs : Append(aliases[j], alias) \in Seq(Jobs)
      BY <2>2, AppendProperties
    <2>4. aliases' \in [Jobs -> Seq(Jobs)]
      BY <1>8, <2>3 DEF AppendAlias
    <2>5. thread' \in [Threads -> ThreadStates]
      BY <1>1, <1>2, <1>3, <1>8, ThreadTypes DEF AppendAlias, LoopLocations
    <2> QED BY <1>8, <2>1, <2>4, <2>5 DEF AppendAlias
  <1>9. CASE SubmitDone
    <2>1. AdmissionTypeOK'
      BY <1>9 DEF SubmitDone, AdmissionTypeOK
    <2>2. thread' \in [Threads -> ThreadStates]
      BY <1>1, <1>2, <1>3, <1>9, ThreadTypes DEF SubmitDone, LoopLocations
    <2> QED BY <1>9, <2>1, <2>2 DEF SubmitDone
  <1> QED BY <1>4, <1>5, <1>6, <1>7, <1>8, <1>9

\* The worker's steps that only touch the rows and its own state.
LEMMA WorkerStoreTypes ==
  ASSUME Shape, NEW n \in Notebooks,
         MarkRunning(n) \/ Prepare(n) \/ RecordOutcome(n) \/ SaveFinal(n)
  PROVE  TypeOK'
  <1> USE DEF TypeOK, Shape, StoreOnly, serverVars, historyVars, admissionVars
  <1>1. n \in Threads
    BY DEF Threads
  <1>2. /\ "running" \in RowStates /\ thread[n].final \in RowStates
        /\ {"failed", NoRow} \subseteq FinalStates
    BY <1>1 DEF ThreadStates, RowStates, JobStates, InflightStates, TerminalStates, FinalStates
  <1>3. WorkerLocations \subseteq Locations
    BY DEF Locations
  <1>4. AdmissionTypeOK'
    BY DEF MarkRunning, Prepare, RecordOutcome, SaveFinal, AdmissionTypeOK
  <1>5. row' \in [Jobs -> RowStates] /\ faults' \in Nat
    BY <1>2, StoreTypes DEF MarkRunning, Prepare, RecordOutcome, SaveFinal
  <1>6. thread' \in [Threads -> ThreadStates]
    BY <1>1, <1>2, <1>3, ThreadTypes
       DEF MarkRunning, Prepare, RecordOutcome, SaveFinal, WorkerLocations
  <1> QED BY <1>4, <1>5, <1>6 DEF MarkRunning, Prepare, RecordOutcome, SaveFinal

\* The worker's other steps.
LEMMA WorkerQueueTypes ==
  ASSUME Shape, NEW n \in Notebooks,
         TakeJob(n) \/ StopWorker(n) \/ Deliver(n) \/ PopAliases(n) \/ CompleteJob(n)
  PROVE  TypeOK'
  <1> USE DEF TypeOK, Shape, StoreOnly, serverVars, historyVars, admissionVars
  <1>1. n \in Threads
    BY DEF Threads
  <1>2. {"persisted", "failed", NoRow} \subseteq FinalStates
    BY DEF TerminalStates, FinalStates
  <1>3. WorkerLocations \union AliasLocations \subseteq Locations
    BY DEF Locations
  <1>4. ASSUME queue[n] # <<>>
        PROVE  Head(queue[n]) \in Jobs \union {Sentinel} /\ Tail(queue[n]) \in Seq(Jobs \union {Sentinel})
    BY <1>4, HeadTailProperties
  <1>5. CASE TakeJob(n)
    <2>1. AdmissionTypeOK'
      BY <1>5 DEF TakeJob, AdmissionTypeOK
    <2>2. queue' \in [Notebooks -> Seq(Jobs \union {Sentinel})]
      BY <1>4, <1>5 DEF TakeJob
    <2>3. [Idle EXCEPT !.pc = "begin", !.job = Head(queue[n])] \in ThreadStates
      BY <1>4, <1>5, IdleType DEF TakeJob, ThreadStates, Idle, WorkerLocations
    <2> QED BY <1>5, <2>1, <2>2, <2>3 DEF TakeJob
  <1>6. CASE StopWorker(n)
    <2>1. AdmissionTypeOK'
      BY <1>6 DEF StopWorker, AdmissionTypeOK
    <2>2. queue' \in [Notebooks -> Seq(Jobs \union {Sentinel})]
      BY <1>4, <1>6 DEF StopWorker
    <2>3. thread' \in [Threads -> ThreadStates]
      BY <1>1, <1>2, <1>3, <1>6, ThreadTypes DEF StopWorker, WorkerLocations
    <2> QED BY <1>6, <2>1, <2>2, <2>3 DEF StopWorker
  <1>7. CASE Deliver(n)
    <2>1. AdmissionTypeOK'
      BY <1>7 DEF Deliver, AdmissionTypeOK
    <2>2. thread' \in [Threads -> ThreadStates]
      BY <1>1, <1>2, <1>3, <1>7, ThreadTypes DEF Deliver, WorkerLocations
    <2>3. deliveredAt' \in [Jobs -> Nat \union {Never}]
      BY <1>7 DEF Deliver, AdmissionTypeOK
    <2>4. row' \in [Jobs -> RowStates] /\ faults' \in Nat
      <3>1. UNCHANGED <<row, faults>> \/ Raises("cleanup")
        BY <1>7 DEF Deliver
      <3>2. NoRow \in RowStates
        BY DEF RowStates
      <3> QED BY <3>1, <3>2, StoreTypes
    <2> QED BY <1>7, <2>1, <2>2, <2>3, <2>4 DEF Deliver
  <1>8. CASE PopAliases(n)
    <2>1. AdmissionTypeOK'
      BY <1>8 DEF PopAliases, AdmissionTypeOK
    <2>2. thread[n].job \in Jobs
      BY <1>1, <1>8 DEF PopAliases, JobInHand, At
    <2>3. aliases[thread[n].job] \in Seq(Jobs)
      BY <2>2
    <2>4. aliases' \in [Jobs -> Seq(Jobs)]
      BY <1>8, IdleType DEF PopAliases
    <2>5. [thread[n] EXCEPT !.pc = "aliases", !.todo = aliases[thread[n].job]] \in ThreadStates
      BY <1>1, <2>3 DEF ThreadStates, AliasLocations
    <2> QED BY <1>8, <2>1, <2>4, <2>5 DEF PopAliases
  <1>9. CASE CompleteJob(n)
    <2>1. AdmissionTypeOK'
      BY <1>9, StepOfAdmission, AdmissionTypeStep DEF Next, WorkerStep
    <2>2. thread' \in [Threads -> ThreadStates]
      BY <1>1, <1>2, <1>3, <1>9, ThreadTypes DEF CompleteJob, WorkerLocations
    <2> QED BY <1>9, <2>1, <2>2 DEF CompleteJob
  <1> QED BY <1>5, <1>6, <1>7, <1>8, <1>9

\* The clock, and the server stopping and starting.
LEMMA ServerTypes ==
  ASSUME Shape, ClockTick \/ ShutDown \/ Crash \/ Start \/ UNCHANGED vars
  PROVE  TypeOK'
  <1> USE DEF TypeOK, Shape, serverVars, historyVars
  <1>1. AdmissionTypeOK'
    BY StepOfAdmission, AdmissionTypeStep DEF Next
  <1>2. CASE ClockTick
    BY <1>1, <1>2 DEF ClockTick
  <1>3. CASE ShutDown
    <2>1. \A n \in Notebooks : Append(queue[n], Sentinel) \in Seq(Jobs \union {Sentinel})
      BY AppendProperties
    <2> QED BY <1>1, <1>3, <2>1 DEF ShutDown
  <1>4. CASE Crash
    <2>1. Idle \in ThreadStates /\ <<>> \in Seq(Jobs) /\ <<>> \in Seq(Jobs \union {Sentinel})
      BY IdleType
    <2>2. aliases' \in [Jobs -> Seq(Jobs)] /\ queue' \in [Notebooks -> Seq(Jobs \union {Sentinel})]
          /\ thread' \in [Threads -> ThreadStates]
      BY <1>4, <2>1 DEF Crash
    <2>3. up' = FALSE /\ shutdown' = FALSE /\ crashes' = crashes + 1
      BY <1>4, Zenon DEF Crash
    <2>4. UNCHANGED <<row, request, coalescedInto, life, deliveredAt, faults>>
      BY <1>4 DEF Crash
    <2>5. up' \in BOOLEAN /\ shutdown' \in BOOLEAN
      BY <2>3, Zenon
    <2>6. crashes' \in Nat
      BY <2>3
    <2> QED BY <1>1, <2>2, <2>4, <2>5, <2>6
  <1>5. CASE Start
    <2>1. row' \in [Jobs -> RowStates]
      BY <1>5 DEF Start, Abandoned, RowStates, JobStates, TerminalStates
    <2> QED BY <1>1, <1>5, <2>1 DEF Start
  <1>6. CASE UNCHANGED vars
    BY <1>1, <1>6 DEF vars
  <1> QED BY <1>2, <1>3, <1>4, <1>5, <1>6

LEMMA TypeStep ==
  ASSUME Shape, [Next]_vars
  PROVE  TypeOK'
  <1>1. CASE Submit
    BY <1>1, SubmitTypes
  <1>2. CASE SubmitStep
    <2>1. Loop \in Threads
      BY DEF Threads
    <2>2. CASE ReadAlias(Loop) \/ SaveAliasRunning(Loop) \/ SaveAliasFinal(Loop)
      BY <2>1, <2>2, AliasStepTypes
    <2> QED BY <1>2, <2>2, SubmitStepTypes DEF SubmitStep
  <1>3. ASSUME NEW n \in Notebooks, WorkerStep(n)
        PROVE  TypeOK'
    <2>1. n \in Threads
      BY DEF Threads
    <2>2. CASE ReadAlias(n) \/ SaveAliasRunning(n) \/ SaveAliasFinal(n)
      BY <2>1, <2>2, AliasStepTypes
    <2> QED BY <1>3, <2>2, WorkerStoreTypes, WorkerQueueTypes DEF WorkerStep
  <1>4. CASE ClockTick \/ ShutDown \/ Crash \/ Start \/ UNCHANGED vars
    BY <1>4, ServerTypes
  <1> QED BY <1>1, <1>2, <1>3, <1>4 DEF Next

----------------------------------------------------------------------------
(* What makes it inductive is inductive too.                               *)

\* A step of thread t keeps what every thread has in hand if t's new state does.
LEMMA InHandKept ==
  ASSUME TypeOK, JobInHand, AliasInHand, NEW t \in Threads, NEW s,
         thread' = [thread EXCEPT ![t] = s],
         s.pc \notin {"idle", "stopped"} => s.job \in Jobs,
         s.pc \in {"alias running", "alias final"} => s.todo # <<>>
  PROVE  JobInHand' /\ AliasInHand'
  BY DEF TypeOK, JobInHand, AliasInHand

LEMMA GotoInHand ==
  ASSUME TypeOK, JobInHand, AliasInHand, NEW t \in Threads, NEW pc, NEW final,
         thread[t].pc \notin {"idle", "stopped"} \/ pc \in {"idle", "stopped"},
         pc \in {"alias running", "alias final"} => thread[t].todo # <<>>,
         Goto(t, pc) \/ Conclude(t, pc, final)
  PROVE  JobInHand' /\ AliasInHand'
  <1>1. PICK s \in {[thread[t] EXCEPT !.pc = pc], [thread[t] EXCEPT !.pc = pc, !.final = final]} :
          thread' = [thread EXCEPT ![t] = s]
    BY DEF Goto, Conclude
  <1>2. s.pc = pc /\ s.job = thread[t].job /\ s.todo = thread[t].todo
    BY <1>1 DEF TypeOK, ThreadStates
  <1> QED BY <1>1, <1>2, InHandKept DEF JobInHand

LEMMA ReturnInHand ==
  ASSUME TypeOK, JobInHand, AliasInHand, NEW t \in Threads, Return(t)
  PROVE  JobInHand' /\ AliasInHand'
  <1>1. Idle.pc = "idle" /\ thread' = [thread EXCEPT ![t] = Idle]
    BY DEF Return, Idle
  <1> QED BY <1>1, InHandKept

\* Between two steps a thread's job in hand is the one it took.
LEMMA JobInHandStep ==
  ASSUME Shape, [Next]_vars
  PROVE  JobInHand' /\ AliasInHand'
  <1>0. TypeOK /\ JobInHand /\ AliasInHand /\ Loop \in Threads /\ Notebooks \subseteq Threads
    BY DEF Shape, Threads
  <1>1. ASSUME NEW info \in JobInfo, SubmitAccepted(info) \/ SubmitCoalesced(info)
        PROVE  JobInHand' /\ AliasInHand'
    <2>1. PICK pc \in {"save queued", "save alias"} : NextJob \in Jobs /\ Begin(pc, info)
      BY <1>1 DEF SubmitAccepted, SubmitCoalesced, MaySubmit
    <2> DEFINE s == [Idle EXCEPT !.pc = pc, !.job = NextJob]
    <2>2. s.pc = pc /\ s.job = NextJob
      BY DEF Idle
    <2>3. thread' = [thread EXCEPT ![Loop] = s]
      BY <2>1 DEF Begin
    <2> HIDE DEF s
    <2> QED BY <1>0, <2>1, <2>2, <2>3, InHandKept
  <1>2. CASE \/ SaveQueued \/ Enqueue \/ UndoAdmission \/ SaveSubmitFailed \/ SaveAlias
             \/ AppendAlias \/ SubmitDone
    <2>1. \/ Return(Loop)
          \/ \E pc \in {"enqueue", "undo", "save failed", "register"} :
               thread[Loop].pc \notin {"idle", "stopped"} /\ Goto(Loop, pc)
      BY <1>2 DEF SaveQueued, Enqueue, UndoAdmission, SaveSubmitFailed, SaveAlias, AppendAlias,
                  SubmitDone, At
    <2> QED BY <1>0, <2>1, GotoInHand, ReturnInHand
  <1>3. CASE ReadOriginal
    <2> DEFINE s(final) == [thread[Loop] EXCEPT !.pc = "aliases", !.final = final,
                                                !.todo = <<thread[Loop].job>>]
    <2>1. thread[Loop].pc = "register"
      BY <1>3 DEF ReadOriginal, At
    <2>2. CASE Goto(Loop, "append") \/ Goto(Loop, "save failed")
      BY <1>0, <2>1, <2>2, GotoInHand
    <2>3. ASSUME NEW final, thread' = [thread EXCEPT ![Loop] = s(final)]
          PROVE  JobInHand' /\ AliasInHand'
      <3>1. s(final).pc = "aliases" /\ s(final).job = thread[Loop].job
        BY <1>0 DEF TypeOK, ThreadStates
      <3> HIDE DEF s
      <3> QED BY <1>0, <2>1, <2>3, <3>1, InHandKept DEF JobInHand
    <2> QED BY <1>3, <2>2, <2>3 DEF ReadOriginal
  <1>4. ASSUME NEW t \in Threads, ReadAlias(t) \/ SaveAliasRunning(t)
        PROVE  JobInHand' /\ AliasInHand'
    <2>1. \/ Return(t)
          \/ \E pc \in {"alias running", "alias final", "save failed"} :
               /\ thread[t].pc \in {"aliases", "alias running"}
               /\ pc \in {"alias running", "alias final"} => thread[t].todo # <<>>
               /\ Goto(t, pc)
      BY <1>0, <1>4 DEF ReadAlias, SaveAliasRunning, At, AliasInHand
    <2> QED BY <1>0, <2>1, GotoInHand, ReturnInHand
  <1>5. ASSUME NEW t \in Threads, SaveAliasFinal(t)
        PROVE  JobInHand' /\ AliasInHand'
    <2> DEFINE s == [thread[t] EXCEPT !.pc = "aliases", !.todo = Tail(thread[t].todo)]
    <2>1. thread[t].pc = "alias final" /\ thread' = [thread EXCEPT ![t] = s]
      BY <1>5 DEF SaveAliasFinal, At
    <2>2. s.pc = "aliases" /\ s.job = thread[t].job
      BY <1>0 DEF TypeOK, ThreadStates
    <2> HIDE DEF s
    <2> QED BY <1>0, <2>1, <2>2, InHandKept DEF JobInHand
  <1>6. ASSUME NEW n \in Notebooks, TakeJob(n)
        PROVE  JobInHand' /\ AliasInHand'
    <2> DEFINE s == [Idle EXCEPT !.pc = "begin", !.job = Head(queue[n])]
    <2>1. queue[n] \in Seq(Jobs \union {Sentinel}) /\ queue[n] # <<>> /\ Head(queue[n]) # Sentinel
      BY <1>0, <1>6 DEF TakeJob, TypeOK
    <2>2. Head(queue[n]) \in Jobs
      BY <2>1, HeadTailProperties
    <2>3. s.pc = "begin" /\ s.job = Head(queue[n])
      BY DEF Idle
    <2>4. thread' = [thread EXCEPT ![n] = s]
      BY <1>6 DEF TakeJob
    <2> HIDE DEF s
    <2> QED BY <1>0, <2>2, <2>3, <2>4, InHandKept
  <1>7. ASSUME NEW n \in Notebooks,
               \/ StopWorker(n) \/ MarkRunning(n) \/ Prepare(n) \/ Deliver(n)
               \/ RecordOutcome(n) \/ SaveFinal(n) \/ CompleteJob(n)
        PROVE  JobInHand' /\ AliasInHand'
    <2>1. \/ Return(n)
          \/ Goto(n, "stopped")
          \/ \E pc \in {"prepare", "deliver", "record", "save final", "pop aliases"} : \E final :
               /\ thread[n].pc \notin {"idle", "stopped"}
               /\ Goto(n, pc) \/ Conclude(n, pc, final)
      <3>1. CASE StopWorker(n) \/ CompleteJob(n)
        BY <3>1 DEF StopWorker, CompleteJob
      <3>2. CASE MarkRunning(n) \/ SaveFinal(n)
        BY <3>2 DEF MarkRunning, SaveFinal, At
      <3>3. CASE Prepare(n) \/ RecordOutcome(n)
        BY <3>3 DEF Prepare, RecordOutcome, At
      <3>4. CASE Deliver(n)
        BY <3>4 DEF Deliver, At
      <3> QED BY <1>7, <3>1, <3>2, <3>3, <3>4
    <2> QED BY <1>0, <2>1, GotoInHand, ReturnInHand
  <1>8. ASSUME NEW n \in Notebooks, PopAliases(n)
        PROVE  JobInHand' /\ AliasInHand'
    <2> DEFINE s == [thread[n] EXCEPT !.pc = "aliases", !.todo = aliases[thread[n].job]]
    <2>1. thread[n].pc = "pop aliases" /\ thread' = [thread EXCEPT ![n] = s]
      BY <1>8 DEF PopAliases, At
    <2>2. s.pc = "aliases" /\ s.job = thread[n].job
      BY <1>0 DEF TypeOK, ThreadStates
    <2> HIDE DEF s
    <2> QED BY <1>0, <2>1, <2>2, InHandKept DEF JobInHand
  <1>9. CASE Crash
    BY <1>9 DEF Crash, JobInHand, AliasInHand, Idle
  <1>10. ASSUME \/ \E info \in JobInfo : SubmitRejected(info)
                \/ ClockTick \/ ShutDown \/ Start \/ UNCHANGED vars
         PROVE  JobInHand' /\ AliasInHand'
    BY <1>0, <1>10 DEF SubmitRejected, ClockTick, ShutDown, Start, vars, JobInHand, AliasInHand
  <1> QED BY <1>0, <1>1, <1>2, <1>3, <1>4, <1>5, <1>6, <1>7, <1>8, <1>9, <1>10
          DEF Next, Submit, SubmitStep, WorkerStep

\* Ids are drawn by submissions only; one step draws at most the next one.
LEMMA IdsStep ==
  ASSUME Shape, [Next]_vars
  PROVE  IdsDrawn' /\ AdmittedWereDrawn'
  <1> USE DEF Shape
  <1>1. CASE UNCHANGED <<request, jobs>>
    BY <1>1 DEF IdsDrawn, AdmittedWereDrawn
  <1>2. ASSUME NEW info \in JobInfo, SubmitAccepted(info) \/ SubmitCoalesced(info)
        PROVE  IdsDrawn' /\ AdmittedWereDrawn'
    <2>1. PICK new \in Jobs :
            /\ new = NextJob
            /\ request' = [request EXCEPT ![new] = info]
            /\ jobs' \in {jobs, [jobs EXCEPT ![new] = info]}
      BY <1>2 DEF SubmitAccepted, SubmitCoalesced, MaySubmit, Begin, Accept, Coalesce
    <2>2. \A j \in Jobs : request[j] # NoInfo <=> j < new
      BY <2>1, NextJobIsFresh
    <2>3. \A j \in Jobs : request'[j] # NoInfo <=> j <= new
      BY <2>1, <2>2, InfoType DEF TypeOK, Jobs
    <2>4. AdmittedWereDrawn'
      BY <2>1, InfoType DEF AdmittedWereDrawn, TypeOK, AdmissionTypeOK
    <2>5. new \in 0 .. MaxJobs
      BY AdmissionAssumption DEF Jobs
    <2> QED BY <2>3, <2>4, <2>5 DEF IdsDrawn
  <1>3. ASSUME request' = request, NEW job \in Jobs, NEW succeeded, Complete(job, succeeded)
        PROVE  IdsDrawn' /\ AdmittedWereDrawn'
    BY <1>3 DEF IdsDrawn, AdmittedWereDrawn, Complete, TypeOK, AdmissionTypeOK
  <1>4. CASE Crash
    BY <1>4 DEF Crash, Reset, historyVars, IdsDrawn, AdmittedWereDrawn
  <1>5. CASE UndoAdmission
    BY <1>3, <1>5 DEF UndoAdmission, historyVars, JobInHand, At, Threads
  <1>6. ASSUME NEW n \in Notebooks, CompleteJob(n)
        PROVE  IdsDrawn' /\ AdmittedWereDrawn'
    BY <1>3, <1>6 DEF CompleteJob, historyVars, JobInHand, At, Threads
  <1>7. ASSUME NEW info \in JobInfo, SubmitRejected(info)
        PROVE  UNCHANGED <<request, jobs>>
    BY <1>7 DEF SubmitRejected, Reject, historyVars
  <1>8. CASE \/ SaveQueued \/ Enqueue \/ SaveSubmitFailed \/ SaveAlias \/ ReadOriginal
             \/ AppendAlias \/ SubmitDone \/ ClockTick \/ ShutDown \/ Start \/ UNCHANGED vars
    BY <1>1, <1>8 DEF SaveQueued, Enqueue, SaveSubmitFailed, SaveAlias, ReadOriginal, AppendAlias,
          SubmitDone, ClockTick, Tick, ShutDown, Start, vars, StoreOnly, historyVars, admissionVars
  <1>9. ASSUME NEW t,
               \/ ReadAlias(t) \/ SaveAliasRunning(t) \/ SaveAliasFinal(t) \/ TakeJob(t)
               \/ StopWorker(t) \/ MarkRunning(t) \/ Prepare(t) \/ Deliver(t)
               \/ RecordOutcome(t) \/ SaveFinal(t) \/ PopAliases(t)
        PROVE  UNCHANGED <<request, jobs>>
    BY <1>9 DEF ReadAlias, SaveAliasRunning, SaveAliasFinal, TakeJob, StopWorker, MarkRunning,
          Prepare, Deliver, RecordOutcome, SaveFinal, PopAliases, StoreOnly, historyVars, admissionVars
  <1> QED BY <1>1, <1>2, <1>4, <1>5, <1>6, <1>7, <1>8, <1>9 DEF Next, Submit, SubmitStep, WorkerStep

LEMMA ShapeInit == Init => Shape
  <1> SUFFICES ASSUME Init PROVE JobInHand /\ AliasInHand /\ IdsDrawn /\ AdmittedWereDrawn
    BY TypeInit DEF Shape
  <1>1. JobInHand /\ AliasInHand
    BY DEF Init, Idle, JobInHand, AliasInHand
  <1>2. 0 \in 0 .. MaxJobs /\ \A j \in Jobs : ~(j <= 0)
    BY AdmissionAssumption DEF Jobs
  <1>3. IdsDrawn
    BY <1>2 DEF Init, IdsDrawn
  <1>4. AdmittedWereDrawn
    BY DEF Init, AdmissionInit, AdmissionEmpty, AdmittedWereDrawn
  <1> QED BY <1>1, <1>3, <1>4

LEMMA ShapeStep ==
  ASSUME Shape, [Next]_vars
  PROVE  Shape'
  BY TypeStep, JobInHandStep, IdsStep DEF Shape

LEMMA ShapeInvariant == Spec => []Shape
  BY ShapeInit, ShapeStep, PTL DEF Spec

\* The server's state keeps its shape, whatever is submitted, whichever store
\* calls fail and however often the server restarts.
THEOREM CoordinatorTypeCorrect == Spec => []TypeOK
  <1>1. Shape => TypeOK
    BY DEF Shape
  <1> QED BY <1>1, ShapeInvariant, PTL

----------------------------------------------------------------------------
(* The admission table, as the coordinator uses it.                        *)

\* The table inside the coordinator takes its own steps only, so what holds of
\* the table alone holds of it there.
LEMMA AdmissionWithin == Spec => AdmissionSpec
  <1>1. Init => AdmissionInit
    BY DEF Init
  <1>2. Shape /\ [Next]_vars => [AdmissionNext]_admissionVars
    BY StepOfAdmission
  <1> QED BY <1>1, <1>2, ShapeInvariant, PTL DEF Spec, AdmissionSpec

\* No interleaving of submissions, workers, failed saves and restarts lets a
\* notebook hold more than its slots, or loses one.
THEOREM CoordinatorCountsSlots == Spec => []SlotsCounted
  BY AdmissionWithin, SlotsAlwaysCounted, PTL

\* A run is in flight at most once, and never in flight while it is remembered
\* as done.
THEOREM CoordinatorDedupes == Spec => [](ActiveIsExact /\ ActiveXorCompleted)
  BY AdmissionWithin, DedupeCorrect, PTL
=============================================================================
