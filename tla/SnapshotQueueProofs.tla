------------------------ MODULE SnapshotQueueProofs ------------------------
(***************************************************************************)
(* Proofs about the jobs of the queue: their order, who holds them, what   *)
(* is admitted, that one run is delivered once, who writes a row, that     *)
(* what is in flight will be ended, and that an alias ends as its original.*)
(***************************************************************************)
EXTENDS SnapshotDeliveryProofs

----------------------------------------------------------------------------
(* The order of the jobs of a notebook.                                    *)

\* The job of the submission under way was drawn last.
LoopIsNewest ==
  thread[Loop].job # NoJob => \A j \in Jobs : Drawn(j) => j <= thread[Loop].job

InOrder == Orderly /\ LoopIsNewest /\ FifoPerNotebook

LEMMA LoopIsNewestStep ==
  ASSUME Orderly, LoopIsNewest, [Next]_vars
  PROVE  LoopIsNewest'
  <1>0. Loop \in Threads /\ Notebooks \subseteq Threads /\ Loop \notin Notebooks
    BY CoordinatorAssumption DEF Threads
  <1>1. ASSUME NEW info \in JobInfo, SubmitAccepted(info) \/ SubmitCoalesced(info)
        PROVE  LoopIsNewest'
    <2>1. PICK new : new = NextJob
      OBVIOUS
    <2>2. /\ new \in Jobs /\ thread'[Loop].job = new
          /\ \A j \in Jobs \ {new} : request'[j] = request[j]
      BY <1>1, <2>1, SubmitFacts
    <2>3. \A j \in Jobs : Drawn(j) => j < new
      BY <2>1, <2>2, NextJobIsFresh DEF Drawn, Orderly, Truthful, Shape
    <2>4. \A j \in Jobs : Drawn(j)' => j <= new
      BY <2>2, <2>3 DEF Drawn, Jobs
    <2> QED BY <2>2, <2>4 DEF LoopIsNewest
  <1>2. ASSUME thread'[Loop].job \in {thread[Loop].job, NoJob}, UNCHANGED request
        PROVE  LoopIsNewest'
    BY <1>2 DEF LoopIsNewest, Drawn
  <1>3. CASE SubmitStep
    BY <1>2, <1>3, LoopActs, HandSteps DEF Acts, Orderly, Truthful
  <1>4. ASSUME NEW n \in Notebooks, WorkerStep(n)
        PROVE  LoopIsNewest'
    BY <1>0, <1>2, <1>4, WorkerActs DEF Acts, Orderly, Truthful
  <1>5. CASE Crash
    BY <1>0, <1>2, <1>5 DEF Crash, Idle, historyVars
  <1>6. CASE Start
    BY <1>2, <1>6 DEF Start, historyVars
  <1> QED BY <1>1, <1>2, <1>3, <1>4, <1>5, <1>6, QuietSteps DEF Orderly, Truthful

LEMMA QueueSteps ==
  ASSUME Shape, [Next]_vars
  PROVE  \/ UNCHANGED queue \/ Enqueue \/ ShutDown \/ Crash
         \/ \E m \in Notebooks : TakeJob(m) \/ StopWorker(m)
  <1>1. SubmitStep => UNCHANGED queue \/ Enqueue
    BY DEF SubmitStep, SaveQueued, UndoAdmission, SaveSubmitFailed, SaveAlias, ReadOriginal,
         AppendAlias, SubmitDone, ReadAlias, SaveAliasRunning, SaveAliasFinal, StoreOnly, serverVars
  <1>2. \A m \in Notebooks : WorkerStep(m) => UNCHANGED queue \/ TakeJob(m) \/ StopWorker(m)
    BY DEF WorkerStep, MarkRunning, Prepare, Deliver, RecordOutcome, SaveFinal, PopAliases,
         CompleteJob, ReadAlias, SaveAliasRunning, SaveAliasFinal, StoreOnly, serverVars
  <1>3. Start => UNCHANGED queue
    BY DEF Start, serverVars
  <1>4. ASSUME NEW info \in JobInfo, SubmitAccepted(info) \/ SubmitCoalesced(info)
        PROVE  UNCHANGED queue
    BY <1>4 DEF SubmitAccepted, SubmitCoalesced, serverVars
  <1> QED BY <1>1, <1>2, <1>3, <1>4, QuietSteps

\* A queue that moves up by d places, none or one, stays in order.
LEMMA MovedUpInOrder ==
  ASSUME FifoPerNotebook, NEW n \in Notebooks, NEW d \in {0, 1},
         queue[n] \in Seq(Jobs \union {Sentinel}),
         \A i \in DOMAIN queue'[n] :
           queue'[n][i] # NoJob =>
             i \in Nat /\ i + d \in DOMAIN queue[n] /\ queue'[n][i] = queue[n][i + d],
         queue'[n] \in Seq(Jobs \union {Sentinel}),
         NEW k \in DOMAIN queue'[n], queue'[n][k] # NoJob
  PROVE  \A i \in DOMAIN queue'[n] : i < k => queue'[n][i] < queue'[n][k]
  <1>1. k \in Nat /\ k + d \in DOMAIN queue[n] /\ queue'[n][k] = queue[n][k + d]
    OBVIOUS
  <1>2. queue'[n][k] \in Jobs /\ queue'[n][k] > NoJob
    BY DEF Jobs, NoJob, Sentinel
  <1>3. ASSUME NEW i \in DOMAIN queue'[n], i < k, queue'[n][i] # NoJob
        PROVE  queue'[n][i] < queue'[n][k]
    <2>1. i \in Nat /\ i + d \in DOMAIN queue[n] /\ queue'[n][i] = queue[n][i + d]
      BY <1>3
    <2>2. i + d < k + d
      BY <1>1, <1>3, <2>1
    <2> QED BY <1>1, <2>1, <2>2 DEF FifoPerNotebook, Sentinel
  <1> QED BY <1>2, <1>3

LEMMA FifoStep ==
  ASSUME InOrder, [Next]_vars
  PROVE  FifoPerNotebook'
  <1>0. /\ queue \in [Notebooks -> Seq(Jobs \union {Sentinel})]
        /\ queue' \in [Notebooks -> Seq(Jobs \union {Sentinel})]
        /\ Loop \in Threads /\ Notebooks \subseteq Threads /\ Loop \notin Notebooks
        /\ \A n \in Notebooks : \A i \in DOMAIN queue[n] : i \in Nat /\ i + 0 = i
        /\ \A n \in Notebooks : \A i \in DOMAIN queue'[n] : i \in Nat
        /\ thread \in [Threads -> ThreadStates]
    BY CoordinatorAssumption, ShapeStep DEF Threads, InOrder, Orderly, Truthful, Shape, TypeOK
  \* No queue grows, and a worker's job, if it is another one, was the first of its queue.
  <1>1. ASSUME NEW n \in Notebooks, NEW d \in {0, 1},
               \A i \in DOMAIN queue'[n] : queue'[n][i] # NoJob =>
                  i \in Nat /\ i + d \in DOMAIN queue[n] /\ queue'[n][i] = queue[n][i + d],
               \/ thread'[n].job \in {thread[n].job, NoJob}
               \/ d = 1 /\ 1 \in DOMAIN queue[n] /\ thread'[n].job = queue[n][1],
               NEW k \in DOMAIN queue'[n], queue'[n][k] # Sentinel
        PROVE  /\ thread'[n].job < queue'[n][k]
               /\ \A i \in DOMAIN queue'[n] : i < k => queue'[n][i] < queue'[n][k]
    <2>1. /\ k \in Nat /\ k > 0 /\ k + d \in DOMAIN queue[n] /\ queue'[n][k] = queue[n][k + d]
          /\ queue'[n][k] > NoJob
      BY <1>0, <1>1 DEF Sentinel, Jobs, NoJob
    <2>2. \A i \in DOMAIN queue'[n] : i < k => queue'[n][i] < queue'[n][k]
      BY <1>0, <1>1, MovedUpInOrder DEF InOrder, Sentinel
    <2>3. thread'[n].job < queue'[n][k]
      <3>1. CASE thread'[n].job \in {thread[n].job, NoJob}
        BY <1>1, <2>1, <3>1 DEF InOrder, FifoPerNotebook, Sentinel
      <3>2. CASE d = 1 /\ 1 \in DOMAIN queue[n] /\ thread'[n].job = queue[n][1]
        <4>1. 1 < k + d
          BY <2>1, <3>2
        <4> QED BY <1>1, <2>1, <3>2, <4>1 DEF InOrder, FifoPerNotebook, Sentinel
      <3> QED BY <1>1, <3>1, <3>2
    <2> QED BY <2>2, <2>3
  <1>2. ASSUME \A n \in Notebooks : thread'[n].job \in {thread[n].job, NoJob}, UNCHANGED queue
        PROVE  FifoPerNotebook'
    BY <1>0, <1>1, <1>2 DEF FifoPerNotebook
  <1>3. ASSUME NEW m \in Notebooks, WorkerStep(m), TakeJob(m) \/ StopWorker(m)
        PROVE  FifoPerNotebook'
    <2>1. m \in Threads /\ Acts(m)
      BY <1>0, <1>3, WorkerActs DEF InOrder, Orderly, Truthful
    <2>2. queue[m] # <<>> /\ queue' = [queue EXCEPT ![m] = Tail(queue[m])]
      BY <1>3 DEF TakeJob, StopWorker
    <2>3. \A i \in DOMAIN queue'[m] : i + 1 \in DOMAIN queue[m] /\ queue'[m][i] = queue[m][i + 1]
      <3>1. queue'[m] = Tail(queue[m])
        BY <1>0, <2>2
      <3> QED BY <1>0, <2>2, <3>1, TailElements
    <2>4. \A n \in Notebooks \ {m} : queue'[n] = queue[n] /\ thread'[n] = thread[n]
      BY <1>0, <2>1, <2>2 DEF Acts
    <2>5. \/ thread'[m].job \in {thread[m].job, NoJob}
          \/ 1 \in DOMAIN queue[m] /\ thread'[m].job = queue[m][1]
      BY <1>3, TakenApart, HandSteps DEF InOrder, Orderly, Truthful
    <2>6. ASSUME NEW n \in Notebooks, NEW k \in DOMAIN queue'[n], queue'[n][k] # Sentinel
          PROVE  /\ thread'[n].job < queue'[n][k]
                 /\ \A i \in DOMAIN queue'[n] : i < k => queue'[n][i] < queue'[n][k]
      <3>1. CASE n = m
        BY <1>0, <1>1, <2>3, <2>5, <2>6, <3>1
      <3>2. CASE n # m
        <4>1. \A i \in DOMAIN queue'[n] : i + 0 \in DOMAIN queue[n] /\ queue'[n][i] = queue[n][i + 0]
          BY <1>0, <2>4, <3>2
        <4>2. thread'[n].job \in {thread[n].job, NoJob}
          BY <2>4, <3>2
        <4> QED BY <1>0, <1>1, <2>6, <4>1, <4>2
      <3> QED BY <3>1, <3>2
    <2> QED BY <2>6 DEF FifoPerNotebook
  <1>4. CASE Enqueue /\ ~UNCHANGED queue
    <2>1. PICK job, m : /\ job = thread[Loop].job /\ m = NotebookOf(job)
                        /\ queue' = [queue EXCEPT ![m] = Append(queue[m], job)]
                        /\ At(Loop, "enqueue")
      BY <1>4 DEF Enqueue, NotebookOf
    <2>2. SubmitStep /\ Acts(Loop)
      BY <1>4, LoopActs DEF SubmitStep, InOrder, Orderly, Truthful
    <2>3. job \in Jobs /\ job # NoJob /\ \A j \in Jobs : Drawn(j) => j <= job
      BY <1>0, <2>1, HandFacts DEF At, InOrder, Orderly, LoopIsNewest
    <2>4. \A n \in Notebooks : thread'[n] = thread[n]
      BY <1>0, <2>2 DEF Acts
    <2>5. \A n \in Notebooks : thread[n].job < job
      <3>1. ASSUME NEW n \in Notebooks
            PROVE  thread[n].job < job
        <4>1. thread[n].job = NoJob \/ (thread[n].job \in Jobs /\ Drawn(thread[n].job))
          BY <1>0, HandFacts DEF InOrder, Orderly
        <4>2. thread[n].job # job
          BY <2>1, <2>3 DEF InOrder, Orderly, LoopApart
        <4> QED BY <2>3, <4>1, <4>2 DEF Jobs, NoJob
      <3> QED BY <3>1
    <2>6. ASSUME NEW n \in Notebooks, NEW i \in DOMAIN queue[n]
          PROVE  queue[n][i] < job
      <3>1. queue[n][i] = NoJob \/ (queue[n][i] \in Jobs /\ Drawn(queue[n][i]))
        BY <2>6 DEF InOrder, Orderly, Truthful, QueuedAnswer, Answers
      <3>2. queue[n][i] # job
        BY <1>0, <2>1, <2>3 DEF InOrder, Orderly, QueuedApart
      <3> QED BY <2>3, <3>1, <3>2 DEF Jobs, NoJob
    <2>7. ASSUME NEW n \in Notebooks
          PROVE  \A i \in DOMAIN queue'[n] :
                   \/ i \in DOMAIN queue[n] /\ queue'[n][i] = queue[n][i]
                   \/ i = Len(queue[n]) + 1 /\ queue'[n][i] = job
      <3>1. queue'[n] = queue[n] \/ queue'[n] = Append(queue[n], job)
        BY <1>0, <2>1, <2>7
      <3>2. CASE queue'[n] = Append(queue[n], job)
        BY <1>0, <2>3, <2>7, <3>2
      <3>3. CASE queue'[n] = queue[n]
        BY <3>3
      <3> QED BY <3>1, <3>2, <3>3
    <2>8. ASSUME NEW n \in Notebooks, NEW k \in DOMAIN queue'[n], queue'[n][k] # Sentinel
          PROVE  /\ thread'[n].job < queue'[n][k]
                 /\ \A i \in DOMAIN queue'[n] : i < k => queue'[n][i] < queue'[n][k]
      <3>1. CASE k \in DOMAIN queue[n] /\ queue'[n][k] = queue[n][k]
        <4>1. ASSUME NEW i \in DOMAIN queue'[n], i < k
              PROVE  queue'[n][i] = queue[n][i] /\ i \in DOMAIN queue[n]
          BY <1>0, <2>7, <3>1, <4>1
        <4> QED BY <2>4, <2>8, <3>1, <4>1 DEF InOrder, FifoPerNotebook
      <3>2. CASE k = Len(queue[n]) + 1 /\ queue'[n][k] = job
        <4>1. ASSUME NEW i \in DOMAIN queue'[n], i < k
              PROVE  queue'[n][i] < job
          BY <1>0, <2>6, <2>7, <3>2, <4>1
        <4> QED BY <2>4, <2>5, <3>2, <4>1
      <3> QED BY <2>7, <2>8, <3>1, <3>2
    <2> QED BY <2>8 DEF FifoPerNotebook
  <1>5. CASE ShutDown
    <2>1. ASSUME NEW n \in Notebooks, NEW i \in DOMAIN queue'[n], queue'[n][i] # NoJob
          PROVE  i \in Nat /\ i + 0 \in DOMAIN queue[n] /\ queue'[n][i] = queue[n][i + 0]
      <3>1. queue'[n] = Append(queue[n], NoJob)
        BY <1>5 DEF ShutDown, Sentinel
      <3> QED BY <1>0, <2>1, <3>1 DEF Sentinel
    <2>2. \A n \in Notebooks : thread'[n].job \in {thread[n].job, NoJob}
      BY <1>5 DEF ShutDown
    <2> QED BY <1>1, <2>1, <2>2 DEF FifoPerNotebook
  <1>6. CASE Crash \/ Start
    <2>1. \A n \in Notebooks : queue'[n] = <<>>
      BY <1>6 DEF Crash, Start, serverVars, InOrder, Orderly, Lives
    <2> QED BY <2>1, EmptyDomain DEF FifoPerNotebook
  <1>7. ASSUME NEW info \in JobInfo, SubmitAccepted(info) \/ SubmitCoalesced(info)
        PROVE  FifoPerNotebook'
    <2>1. PICK new : new = NextJob
      OBVIOUS
    <2>2. UNCHANGED queue /\ \A t \in Threads \ {Loop} : thread'[t] = thread[t]
      BY <1>7, <2>1, SubmitFacts DEF InOrder
    <2> QED BY <1>0, <1>2, <2>2
  <1>8. CASE SubmitStep
    <2>1. UNCHANGED queue \/ Enqueue
      BY <1>8 DEF SubmitStep, SaveQueued, UndoAdmission, SaveSubmitFailed, SaveAlias, ReadOriginal,
           AppendAlias, SubmitDone, ReadAlias, SaveAliasRunning, SaveAliasFinal, StoreOnly, serverVars
    <2>2. \A n \in Notebooks : thread'[n] = thread[n]
      BY <1>0, <1>8, LoopActs DEF Acts, InOrder, Orderly, Truthful
    <2> QED BY <1>2, <1>4, <2>1, <2>2
  <1>9. ASSUME NEW m \in Notebooks, WorkerStep(m)
        PROVE  FifoPerNotebook'
    <2>1. UNCHANGED queue \/ TakeJob(m) \/ StopWorker(m)
      BY <1>9 DEF WorkerStep, MarkRunning, Prepare, Deliver, RecordOutcome, SaveFinal, PopAliases,
           CompleteJob, ReadAlias, SaveAliasRunning, SaveAliasFinal, StoreOnly, serverVars
    <2>2. CASE ~TakeJob(m) /\ UNCHANGED queue
      <3>1. thread'[m].job \in {thread[m].job, NoJob}
        BY <1>9, <2>2, HandSteps DEF InOrder, Orderly, Truthful
      <3>2. \A n \in Notebooks \ {m} : thread'[n] = thread[n]
        BY <1>0, <1>9, WorkerActs DEF Acts, InOrder, Orderly, Truthful
      <3> QED BY <1>2, <2>2, <3>1, <3>2
    <2> QED BY <1>3, <1>9, <2>1, <2>2
  <1> QED BY <1>2, <1>5, <1>6, <1>7, <1>8, <1>9, QuietSteps DEF InOrder, Orderly, Truthful

\* Jobs of one notebook are executed in the order of their submission, for any number of
\* notebooks and jobs, whatever is submitted, lost, shut down or restarted in between.
THEOREM JobsStayInOrder == Spec => []FifoPerNotebook
  <1>1. Init => InOrder
    <2> SUFFICES ASSUME Init PROVE InOrder
      OBVIOUS
    <2>1. LoopIsNewest
      BY DEF Init, LoopIsNewest, Idle, Threads
    <2>2. FifoPerNotebook
      BY EmptyDomain DEF Init, FifoPerNotebook
    <2> QED BY <2>1, <2>2, OrderlyInit DEF InOrder
  <1>2. (LoopIsNewest /\ FifoPerNotebook) /\ Orderly /\ Orderly' /\ [Next]_vars
          => (LoopIsNewest /\ FifoPerNotebook)'
    BY LoopIsNewestStep, FifoStep DEF InOrder
  <1>3. InOrder => LoopIsNewest /\ FifoPerNotebook
    BY DEF InOrder
  <1> QED BY <1>1, <1>2, <1>3, OrderlyInvariant, PTL DEF Spec

----------------------------------------------------------------------------
(* Who holds an admitted job.                                              *)

\* A thread at rest has no job in hand.
RestHasNoJob ==
  \A t \in Threads : thread[t].pc \in {"idle", "stopped"} => thread[t].job = NoJob

\* Job j is in a queue, or in the hand of a thread that will enqueue or complete it.
InQueue(j) == \E n \in Notebooks : \E i \in DOMAIN queue[n] : queue[n][i] = j
HeldBy(t, j) ==
  /\ thread[t].job = j
  /\ t = Loop => thread[t].pc \in {"save queued", "enqueue", "undo"}
Held(j) == InQueue(j) \/ \E t \in Threads : HeldBy(t, j)

AdmittedAsRequested == \A j \in Jobs : jobs[j] # NoInfo => jobs[j] = request[j]
AdmittedAreHeld     == \A j \in Jobs : jobs[j] # NoInfo => Held(j)

LEMMA RestStep ==
  ASSUME Shape, RestHasNoJob, [Next]_vars
  PROVE  RestHasNoJob'
  <1>0. Loop \in Threads /\ Notebooks \subseteq Threads /\ thread \in [Threads -> ThreadStates]
    BY DEF Threads, Shape, TypeOK
  <1>1. ASSUME NEW t \in Threads, \A u \in Threads \ {t} : thread'[u] = thread[u],
               thread'[t].pc \in {"idle", "stopped"} => thread'[t].job = NoJob
        PROVE  RestHasNoJob'
    BY <1>1 DEF RestHasNoJob
  <1>2. ASSUME NEW t \in Threads
        PROVE  /\ Return(t) => RestHasNoJob'
               /\ At(t, "idle") /\ Goto(t, "stopped") => RestHasNoJob'
               /\ \A pc : Goto(t, pc) /\ pc \notin {"idle", "stopped"} => RestHasNoJob'
               /\ \A pc, final : Conclude(t, pc, final) /\ pc \notin {"idle", "stopped"} => RestHasNoJob'
    <2>1. ASSUME Return(t) PROVE RestHasNoJob'
      BY <1>0, <1>1, <2>1 DEF Return, Idle
    <2>2. ASSUME At(t, "idle"), Goto(t, "stopped") PROVE RestHasNoJob'
      <3>1. thread'[t].job = NoJob /\ \A u \in Threads \ {t} : thread'[u] = thread[u]
        BY <1>0, <2>2 DEF Goto, At, RestHasNoJob, ThreadStates
      <3> QED BY <1>1, <3>1
    <2>3. ASSUME NEW pc, Goto(t, pc), pc \notin {"idle", "stopped"} PROVE RestHasNoJob'
      <3>1. thread'[t].pc = pc /\ \A u \in Threads \ {t} : thread'[u] = thread[u]
        BY <1>0, <2>3 DEF Goto, ThreadStates
      <3> QED BY <1>1, <2>3, <3>1
    <2>4. ASSUME NEW pc, NEW final, Conclude(t, pc, final), pc \notin {"idle", "stopped"}
          PROVE  RestHasNoJob'
      <3>1. thread'[t].pc = pc /\ \A u \in Threads \ {t} : thread'[u] = thread[u]
        BY <1>0, <2>4 DEF Conclude, ThreadStates
      <3> QED BY <1>1, <2>4, <3>1
    <2> QED BY <2>1, <2>2, <2>3, <2>4
  <1>3. ASSUME NEW t \in Threads, NEW s, thread' = [thread EXCEPT ![t] = s], s.pc \notin {"idle", "stopped"}
        PROVE  RestHasNoJob'
    BY <1>0, <1>1, <1>3
  <1>4. CASE UNCHANGED thread
    BY <1>4 DEF RestHasNoJob
  <1>5. ASSUME NEW info \in JobInfo, SubmitAccepted(info) \/ SubmitCoalesced(info)
        PROVE  RestHasNoJob'
    <2>1. PICK pc, s : /\ s = [Idle EXCEPT !.pc = pc, !.job = NextJob] /\ pc \in {"save queued", "save alias"}
                       /\ thread' = [thread EXCEPT ![Loop] = s]
      BY <1>5 DEF SubmitAccepted, SubmitCoalesced, Begin
    <2>2. s.pc = pc
      BY <2>1 DEF Idle
    <2> QED BY <1>0, <1>3, <2>1, <2>2
  <1>6. CASE \/ SaveQueued \/ Enqueue \/ UndoAdmission \/ SaveSubmitFailed \/ SaveAlias
             \/ AppendAlias \/ SubmitDone
    BY <1>0, <1>2, <1>6 DEF SaveQueued, Enqueue, UndoAdmission, SaveSubmitFailed, SaveAlias, AppendAlias,
       SubmitDone
  <1>7. CASE ReadOriginal
    <2>1. CASE Goto(Loop, "append") \/ Goto(Loop, "save failed")
      BY <1>0, <1>2, <2>1
    <2>2. ASSUME NEW final, NEW todo,
                 thread' = [thread EXCEPT ![Loop].pc = "aliases", ![Loop].final = final, ![Loop].todo = todo]
          PROVE  RestHasNoJob'
      <3>1. /\ thread'[Loop].pc = "aliases"
            /\ \A u \in Threads \ {Loop} : thread'[u] = thread[u]
        BY <1>0, <2>2 DEF ThreadStates
      <3> QED BY <1>0, <1>1, <3>1
    <2> QED BY <1>7, <2>1, <2>2 DEF ReadOriginal
  <1>8. ASSUME NEW t \in Threads, ReadAlias(t) \/ SaveAliasRunning(t) \/ SaveAliasFinal(t)
        PROVE  RestHasNoJob'
    <2>1. CASE ReadAlias(t) \/ SaveAliasRunning(t)
      BY <1>2, <2>1 DEF ReadAlias, SaveAliasRunning
    <2>2. CASE SaveAliasFinal(t)
      <3>1. PICK s : /\ s = [thread[t] EXCEPT !.pc = "aliases", !.todo = Tail(@)]
                     /\ thread' = [thread EXCEPT ![t] = s]
        BY <2>2 DEF SaveAliasFinal
      <3>2. s.pc = "aliases"
        BY <1>0, <3>1 DEF ThreadStates
      <3> QED BY <1>3, <3>1, <3>2
    <2> QED BY <1>8, <2>1, <2>2
  <1>9. ASSUME NEW n \in Notebooks,
               \/ StopWorker(n) \/ MarkRunning(n) \/ Prepare(n) \/ Deliver(n)
               \/ RecordOutcome(n) \/ SaveFinal(n) \/ CompleteJob(n)
        PROVE  RestHasNoJob'
    BY <1>0, <1>2, <1>9 DEF StopWorker, MarkRunning, Prepare, Deliver, RecordOutcome, SaveFinal, CompleteJob
  <1>10. ASSUME NEW n \in Notebooks, TakeJob(n) \/ PopAliases(n)
         PROVE  RestHasNoJob'
    <2>1. PICK s : /\ thread' = [thread EXCEPT ![n] = s]
                   /\ \/ s = [Idle EXCEPT !.pc = "begin", !.job = Head(queue[n])]
                      \/ s = [thread[n] EXCEPT !.pc = "aliases", !.todo = aliases[thread[n].job]]
      BY <1>10 DEF TakeJob, PopAliases
    <2>2. s.pc \in {"begin", "aliases"}
      BY <1>0, <1>10, <2>1 DEF Idle, ThreadStates
    <2> QED BY <1>0, <1>3, <2>1, <2>2
  <1>11. CASE Crash
    BY <1>11 DEF Crash, Idle, RestHasNoJob
  <1>12. CASE Start
    BY <1>4, <1>12 DEF Start
  <1> QED BY <1>0, <1>4, <1>5, <1>6, <1>7, <1>8, <1>9, <1>10, <1>11, <1>12, QuietSteps
          DEF SubmitStep, WorkerStep

\* The table of admitted jobs grows by the job of an accepted submission alone.
LEMMA JobsSteps ==
  ASSUME Shape, [Next]_vars, NEW j \in Jobs
  PROVE  \/ jobs'[j] \in {jobs[j], NoInfo}
         \/ \E info \in JobInfo : SubmitAccepted(info) /\ j = NextJob /\ jobs'[j] = info
  <1>0. jobs \in [Jobs -> JobInfo \union {NoInfo}]
    BY DEF Shape, TypeOK, AdmissionTypeOK
  <1>1. ASSUME NEW info \in JobInfo, SubmitAccepted(info)
        PROVE  jobs'[j] = jobs[j] \/ (j = NextJob /\ jobs'[j] = info)
    BY <1>0, <1>1 DEF SubmitAccepted, Accept
  <1>2. ASSUME NEW info \in JobInfo, SubmitCoalesced(info) \/ SubmitRejected(info)
        PROVE  UNCHANGED jobs
    BY <1>2 DEF SubmitCoalesced, SubmitRejected, Coalesce, Reject
  <1>3. ASSUME NEW job, NEW succeeded, Complete(job, succeeded)
        PROVE  jobs'[j] \in {jobs[j], NoInfo}
    BY <1>0, <1>3 DEF Complete
  <1>4. CASE \/ SaveQueued \/ Enqueue \/ SaveSubmitFailed \/ SaveAlias \/ ReadOriginal
             \/ AppendAlias \/ SubmitDone \/ ClockTick \/ ShutDown \/ Start \/ UNCHANGED vars
    BY <1>4 DEF SaveQueued, Enqueue, SaveSubmitFailed, SaveAlias, ReadOriginal, AppendAlias, SubmitDone,
       ClockTick, Tick, ShutDown, Start, vars, StoreOnly, admissionVars
  <1>5. ASSUME NEW t,
               \/ ReadAlias(t) \/ SaveAliasRunning(t) \/ SaveAliasFinal(t) \/ TakeJob(t)
               \/ StopWorker(t) \/ MarkRunning(t) \/ Prepare(t) \/ Deliver(t)
               \/ RecordOutcome(t) \/ SaveFinal(t) \/ PopAliases(t)
        PROVE  UNCHANGED jobs
    BY <1>5 DEF ReadAlias, SaveAliasRunning, SaveAliasFinal, TakeJob, StopWorker, MarkRunning, Prepare,
       Deliver, RecordOutcome, SaveFinal, PopAliases, StoreOnly, admissionVars
  <1>6. CASE UndoAdmission \/ \E n \in Notebooks : CompleteJob(n)
    BY <1>3, <1>6 DEF UndoAdmission, CompleteJob
  <1>7. CASE Crash
    BY <1>0, <1>7 DEF Crash, Reset
  <1> QED BY <1>1, <1>2, <1>4, <1>5, <1>6, <1>7 DEF Next, Submit, SubmitStep, WorkerStep

\* A queued job stays queued until its worker takes it.
LEMMA InQueueStep ==
  ASSUME Orderly, [Next]_vars, ~Crash, NEW j \in Jobs, InQueue(j)
  PROVE  InQueue(j)' \/ \E m \in Notebooks : TakeJob(m) /\ thread'[m].job = j
  <1>0. queue \in [Notebooks -> Seq(Jobs \union {Sentinel})] /\ j # NoJob
    BY DEF Orderly, Truthful, Shape, TypeOK, Jobs, NoJob
  <1>n. PICK n \in Notebooks : \E i \in DOMAIN queue[n] : queue[n][i] = j
    BY DEF InQueue
  <1>i. PICK i \in DOMAIN queue[n] : queue[n][i] = j
    BY <1>n
  <1>1. ASSUME NEW m \in Notebooks, NEW e, queue' = [queue EXCEPT ![m] = Append(queue[m], e)]
        PROVE  InQueue(j)'
    <2>1. queue'[n] = queue[n] \/ queue'[n] = Append(queue[n], e)
      BY <1>0, <1>1
    <2>2. CASE queue'[n] = Append(queue[n], e)
      <3>1. i \in DOMAIN queue'[n] /\ queue'[n][i] = j
        BY <1>0, <1>i, <2>2
      <3> QED BY <3>1 DEF InQueue
    <2> QED BY <1>i, <2>1, <2>2 DEF InQueue
  <1>2. CASE ShutDown
    <2>1. queue'[n] = Append(queue[n], NoJob)
      BY <1>2 DEF ShutDown, Sentinel
    <2>2. i \in DOMAIN queue'[n] /\ queue'[n][i] = j
      BY <1>0, <1>i, <2>1
    <2> QED BY <2>2 DEF InQueue
  <1>3. ASSUME NEW m \in Notebooks, TakeJob(m) \/ StopWorker(m)
        PROVE  InQueue(j)' \/ (TakeJob(m) /\ thread'[m].job = j)
    <2>1. queue[m] # <<>> /\ queue' = [queue EXCEPT ![m] = Tail(queue[m])]
      BY <1>3 DEF TakeJob, StopWorker
    <2>2. CASE n # m
      BY <1>0, <1>i, <2>1, <2>2 DEF InQueue
    <2>3. CASE n = m /\ i # 1
      <3>1. queue'[n] = Tail(queue[n])
        BY <1>0, <2>1, <2>3
      <3>2. i - 1 \in DOMAIN queue'[n] /\ queue'[n][i - 1] = j
        BY <1>0, <1>i, <2>1, <2>3, <3>1
      <3> QED BY <3>2 DEF InQueue
    <2>4. CASE n = m /\ i = 1
      <3>1. Head(queue[m]) = j
        BY <1>0, <1>i, <2>1, <2>4, TailElements
      <3>2. TakeJob(m)
        BY <1>0, <1>3, <3>1 DEF StopWorker, Sentinel
      <3>3. thread'[m].job = j
        BY <1>0, <1>i, <2>4, <3>2, TakenApart
      <3> QED BY <3>2, <3>3
    <2> QED BY <2>2, <2>3, <2>4
  <1>4. UNCHANGED queue => InQueue(j)'
    BY <1>i DEF InQueue
  <1>5. CASE Enqueue
    BY <1>0, <1>1, <1>4, <1>5 DEF Enqueue
  <1> QED BY <1>2, <1>3, <1>4, <1>5, QueueSteps DEF Orderly, Truthful

\* Until a job is completed, whoever has it passes it on.
LEMMA HeldStep ==
  ASSUME "get" \notin FaultyOps, Orderly, RestHasNoJob, [Next]_vars, NEW j \in Jobs, Held(j)
  PROVE  Held(j)' \/ jobs'[j] = NoInfo
  <1>0. /\ queue \in [Notebooks -> Seq(Jobs \union {Sentinel})]
        /\ thread \in [Threads -> ThreadStates] /\ j # NoJob
        /\ Loop \in Threads /\ Notebooks \subseteq Threads /\ Loop \notin Notebooks
    BY CoordinatorAssumption DEF Threads, Orderly, Truthful, Shape, TypeOK, Jobs, NoJob
  <1>1. CASE Crash
    BY <1>1 DEF Crash, Reset
  \* A queued job.
  <1>2. ASSUME ~Crash, InQueue(j)
        PROVE  Held(j)'
    BY <1>0, <1>2, InQueueStep DEF Held, HeldBy
  \* A job in hand.
  <1>3. ASSUME HeldBy(Loop, j), SubmitStep
        PROVE  Held(j)' \/ jobs'[j] = NoInfo
    <2>1. thread[Loop].job = j /\ thread[Loop].pc \in {"save queued", "enqueue", "undo"}
      BY <1>3 DEF HeldBy
    <2>2. CASE SaveQueued
      <3>1. \E pc \in {"enqueue", "undo"} : Goto(Loop, pc)
        BY <2>2 DEF SaveQueued
      <3>2. thread'[Loop].job = j /\ thread'[Loop].pc \in {"enqueue", "undo"}
        BY <1>0, <2>1, <3>1 DEF Goto, ThreadStates
      <3> QED BY <1>0, <3>2 DEF Held, HeldBy
    <2>3. CASE Enqueue
      <3>1. CASE Goto(Loop, "undo")
        <4>1. thread'[Loop].job = j /\ thread'[Loop].pc = "undo"
          BY <1>0, <2>1, <3>1 DEF Goto, ThreadStates
        <4> QED BY <1>0, <4>1 DEF Held, HeldBy
      <3>2. ASSUME NEW m \in Notebooks, queue' = [queue EXCEPT ![m] = Append(@, j)]
            PROVE  Held(j)'
        <4>1. queue'[m] = Append(queue[m], j)
          BY <1>0, <3>2
        <4>2. Len(queue[m]) + 1 \in DOMAIN queue'[m] /\ queue'[m][Len(queue[m]) + 1] = j
          BY <1>0, <4>1
        <4> QED BY <4>2 DEF Held, InQueue
      <3>3. request[j].notebook \in Notebooks
        <4>1. Drawn(j)
          BY <1>0, <2>1, HandFacts DEF Orderly
        <4> QED BY <4>1, InfoType DEF Drawn, Orderly, Truthful, Shape, TypeOK
      <3> QED BY <2>1, <2>3, <3>1, <3>2, <3>3 DEF Enqueue
    <2>4. CASE UndoAdmission
      BY <2>1, <2>4 DEF UndoAdmission, Complete, Orderly, Truthful, Shape, TypeOK, AdmissionTypeOK
    <2> QED BY <1>3, <2>1, <2>2, <2>3, <2>4 DEF SubmitStep, SaveSubmitFailed, SaveAlias, ReadOriginal,
            AppendAlias, SubmitDone, ReadAlias, SaveAliasRunning, SaveAliasFinal, At
  <1>4. ASSUME NEW n \in Notebooks, HeldBy(n, j), WorkerStep(n)
        PROVE  Held(j)' \/ jobs'[j] = NoInfo
    <2>1. thread[n].job = j
      BY <1>4 DEF HeldBy
    <2>2. CASE TakeJob(n) \/ StopWorker(n)
      BY <1>0, <2>1, <2>2 DEF RestHasNoJob, TakeJob, StopWorker, At
    <2>3. ASSUME thread'[n].job = j
          PROVE  Held(j)'
      BY <1>0, <2>3 DEF Held, HeldBy
    <2>4. CASE CompleteJob(n)
      BY <2>1, <2>4 DEF CompleteJob, Complete, Orderly, Truthful, Shape, TypeOK, AdmissionTypeOK
    <2>5. ASSUME (\E pc : Goto(n, pc)) \/ (\E pc, final : Conclude(n, pc, final))
          PROVE  thread'[n].job = j
      <3>1. ASSUME NEW pc, Goto(n, pc) PROVE thread'[n].job = j
        BY <1>0, <2>1, <3>1 DEF Goto, ThreadStates
      <3>2. ASSUME NEW pc, NEW final, Conclude(n, pc, final) PROVE thread'[n].job = j
        BY <1>0, <2>1, <3>2 DEF Conclude, ThreadStates
      <3> QED BY <2>5, <3>1, <3>2
    <2>6. CASE \/ MarkRunning(n) \/ Prepare(n) \/ Deliver(n) \/ RecordOutcome(n) \/ SaveFinal(n)
               \/ ReadAlias(n) \/ SaveAliasRunning(n)
      BY <2>3, <2>5, <2>6 DEF MarkRunning, Prepare, Deliver, RecordOutcome, SaveFinal, ReadAlias,
         SaveAliasRunning, Raises
    <2>7. CASE PopAliases(n) \/ SaveAliasFinal(n)
      <3>1. thread'[n].job = j
        BY <1>0, <2>1, <2>7 DEF PopAliases, SaveAliasFinal, ThreadStates
      <3> QED BY <2>3, <3>1
    <2> QED BY <1>4, <2>2, <2>4, <2>6, <2>7 DEF WorkerStep
  <1>5. ASSUME NEW t \in Threads, HeldBy(t, j), thread'[t] = thread[t]
        PROVE  Held(j)'
    BY <1>5 DEF Held, HeldBy
  <1>6. ASSUME NEW info \in JobInfo, SubmitAccepted(info) \/ SubmitCoalesced(info),
               NEW t \in Threads, HeldBy(t, j)
        PROVE  thread'[t] = thread[t]
    <2>1. t # Loop
      BY <1>6 DEF SubmitAccepted, SubmitCoalesced, MaySubmit, At, HeldBy
    <2> QED BY <1>0, <1>6, <2>1 DEF SubmitAccepted, SubmitCoalesced, Begin
  <1>7. ASSUME NEW t \in Threads, HeldBy(t, j), ~Crash
        PROVE  Held(j)' \/ jobs'[j] = NoInfo
    <2>1. CASE Start \/ UNCHANGED thread
      BY <1>5, <1>7, <2>1 DEF Start
    <2>2. CASE SubmitStep
      <3>1. t # Loop => thread'[t] = thread[t]
        BY <2>2, LoopActs DEF Acts, Orderly, Truthful
      <3> QED BY <1>3, <1>5, <1>7, <2>2, <3>1
    <2>3. ASSUME NEW n \in Notebooks, WorkerStep(n)
          PROVE  Held(j)' \/ jobs'[j] = NoInfo
      <3>1. t # n => thread'[t] = thread[t]
        BY <2>3, WorkerActs DEF Acts, Orderly, Truthful
      <3> QED BY <1>4, <1>5, <1>7, <2>3, <3>1
    <2> QED BY <1>5, <1>6, <1>7, <2>1, <2>2, <2>3, QuietSteps DEF Orderly, Truthful
  <1> QED BY <1>1, <1>2, <1>7 DEF Held

LEMMA AdmittedStep ==
  ASSUME Orderly, AdmittedAsRequested, [Next]_vars
  PROVE  AdmittedAsRequested'
  <1> SUFFICES ASSUME NEW j \in Jobs, jobs'[j] # NoInfo
               PROVE  jobs'[j] = request'[j]
    BY DEF AdmittedAsRequested
  <1>1. CASE jobs'[j] \in {jobs[j], NoInfo}
    <2>1. jobs'[j] = request[j] /\ Drawn(j)
      BY <1>1 DEF AdmittedAsRequested, Drawn
    <2> QED BY <2>1, HistoryStays DEF Orderly, Truthful
  <1>2. ASSUME NEW info \in JobInfo, SubmitAccepted(info), j = NextJob, jobs'[j] = info
        PROVE  jobs'[j] = request'[j]
    BY <1>2 DEF SubmitAccepted, Begin, Orderly, Truthful, Shape, TypeOK
  <1> QED BY <1>1, <1>2, JobsSteps DEF Orderly, Truthful

LEMMA AdmittedHeldStep ==
  ASSUME "get" \notin FaultyOps, Orderly, RestHasNoJob, AdmittedAreHeld, [Next]_vars
  PROVE  AdmittedAreHeld'
  <1> SUFFICES ASSUME NEW j \in Jobs, jobs'[j] # NoInfo
               PROVE  Held(j)'
    BY DEF AdmittedAreHeld
  <1>1. CASE jobs'[j] \in {jobs[j], NoInfo}
    BY <1>1, HeldStep DEF AdmittedAreHeld
  <1>2. ASSUME NEW info \in JobInfo, SubmitAccepted(info), j = NextJob
        PROVE  Held(j)'
    <2>1. PICK new : new = NextJob
      OBVIOUS
    <2>2. thread'[Loop].job = new
      BY <1>2, <2>1, SubmitFacts
    <2>3. thread'[Loop].pc = "save queued" /\ Loop \in Threads
      BY <1>2 DEF SubmitAccepted, Begin, Idle, Orderly, Truthful, Shape, TypeOK, Threads
    <2> QED BY <1>2, <2>1, <2>2, <2>3 DEF Held, HeldBy
  <1> QED BY <1>1, <1>2, JobsSteps DEF Orderly, Truthful

LEMMA AdmittedInvariant == Spec => [](RestHasNoJob /\ AdmittedAsRequested)
  <1>1. Init => RestHasNoJob /\ AdmittedAsRequested
    BY DEF Init, RestHasNoJob, Idle, AdmittedAsRequested, AdmissionInit, AdmissionEmpty
  <1>2. (RestHasNoJob /\ AdmittedAsRequested) /\ Orderly /\ [Next]_vars
          => (RestHasNoJob /\ AdmittedAsRequested)'
    BY RestStep, AdmittedStep DEF Orderly, Truthful
  <1> QED BY <1>1, <1>2, OrderlyInvariant, PTL DEF Spec

\* After any failure of a save, of a delivery or of its clean-up, after a refused
\* submission and after a restart: a notebook with nothing queued or executing holds no
\* slot and no fingerprint, so that the next snapshot proceeds.  Somebody who will
\* complete it has every admitted job.  (A read that fails does lose a job: see
\* alias_read_fails.)
THEOREM UnsticksIfReadsSucceed ==
  ASSUME "get" \notin FaultyOps
  PROVE  Spec => []UnsticksWithoutRestart
  <1>1. Init => AdmittedAreHeld
    BY DEF Init, AdmittedAreHeld, AdmissionInit, AdmissionEmpty
  <1>2. AdmittedAreHeld /\ RestHasNoJob /\ Orderly /\ [Next]_vars => AdmittedAreHeld'
    BY AdmittedHeldStep
  <1>3. ASSUME AdmittedAreHeld, RestHasNoJob, AdmittedAsRequested, Orderly, SlotsCounted, ActiveIsExact
        PROVE  UnsticksWithoutRestart
    <2> SUFFICES ASSUME NEW n \in Notebooks, At(Loop, "idle"),
                        thread[n].pc \in {"idle", "stopped"}, Queued(n) = {}
                 PROVE  pending[n] = 0 /\ \A r \in Runs : active[<<n, r>>] = NoJob
      BY DEF UnsticksWithoutRestart
    <2>0. /\ queue \in [Notebooks -> Seq(Jobs \union {Sentinel})] /\ NoJob \notin Jobs
          /\ Loop \notin Notebooks /\ Threads = Notebooks \union {Loop}
      BY <1>3, CoordinatorAssumption DEF Orderly, Truthful, Shape, TypeOK, Jobs, NoJob, Threads
    <2>1. ASSUME NEW j \in Jobs, jobs[j] # NoInfo, jobs[j].notebook = n
          PROVE  FALSE
      <3>1. NotebookOf(j) = n /\ Held(j)
        BY <1>3, <2>1 DEF AdmittedAreHeld, AdmittedAsRequested, NotebookOf
      <3>2. ASSUME NEW m \in Notebooks, NEW i \in DOMAIN queue[m], queue[m][i] = j
            PROVE  FALSE
        <4>1. m = n
          BY <1>3, <2>0, <3>1, <3>2 DEF Orderly, QueuedApart
        <4>2. j \in Queued(n)
          BY <2>0, <3>2, <4>1 DEF Queued, ToSet, Sentinel
        <4> QED BY <4>2
      <3>3. ASSUME NEW t \in Threads, HeldBy(t, j)
            PROVE  FALSE
        <4>1. t # Loop
          BY <3>3 DEF HeldBy, At
        <4>2. t = n
          BY <1>3, <2>0, <3>1, <3>3, <4>1 DEF HeldBy, Orderly, AllPlaced, Placed
        <4> QED BY <1>3, <2>0, <3>3, <4>2 DEF RestHasNoJob, HeldBy
      <3> QED BY <3>1, <3>2, <3>3 DEF Held, InQueue
    <2>2. AdmittedFor(n) = {}
      BY <2>1 DEF AdmittedFor
    <2>3. pending[n] = 0
      <3>1. Cardinality({}) = 0
        BY FS_EmptySet
      <3> QED BY <1>3, <2>2, <3>1 DEF SlotsCounted
    <2>4. ASSUME NEW r \in Runs, active[<<n, r>>] # NoJob
          PROVE  FALSE
      <3>1. PICK f : f = <<n, r>>
        OBVIOUS
      <3>2. f \in Fingerprints
        BY <3>1 DEF Fingerprints
      <3>3. active[f] \in Jobs
        BY <1>3, <2>4, <3>1, <3>2 DEF Orderly, Truthful, Shape, TypeOK, AdmissionTypeOK
      <3>4. jobs[active[f]] # NoInfo /\ FingerprintOf(jobs[active[f]]) = f
        BY <1>3, <3>2, <3>3 DEF ActiveIsExact
      <3>5. jobs[active[f]].notebook = n
        BY <3>1, <3>4 DEF FingerprintOf
      <3> QED BY <2>1, <3>3, <3>4, <3>5
    <2> QED BY <2>3, <2>4
  <1>4. Spec => []AdmittedAreHeld
    BY <1>1, <1>2, OrderlyInvariant, AdmittedInvariant, PTL DEF Spec
  <1> QED BY <1>3, <1>4, OrderlyInvariant, AdmittedInvariant, CoordinatorCountsSlots, CoordinatorDedupes, PTL

----------------------------------------------------------------------------
(* One run is delivered once.                                              *)

HeldAreAdmitted == \A j \in Jobs : Held(j) => jobs[j] # NoInfo

\* What was delivered is no alias, and was not delivered in the future.
DeliveredInTime ==
  \A j \in Jobs : Delivered(j) => coalescedInto[j] = NoJob /\ deliveredAt[j] <= now

\* The job of the submission under way has not been delivered, and the job of a worker
\* that is shown as saved will be completed as a success.
LoopUndelivered == thread[Loop].job # NoJob => ~Delivered(thread[Loop].job)
Shown(j) == row[j] = "persisted"
ShownSucceeds ==
  \A n \in Notebooks :
    thread[n].job # NoJob /\ Shown(thread[n].job) =>
      thread[n].final = "persisted" /\ thread[n].pc # "record"

\* Job j was accepted, for a trigger run with fingerprint f.
Executes(j, f) ==
  /\ Drawn(j) /\ coalescedInto[j] = NoJob
  /\ IsTrigger(request[j]) /\ FingerprintOf(request[j]) = f

\* A run that was delivered and is shown as saved is still admitted, is remembered as
\* completed, or was delivered longer ago than the TTL.
Remembered ==
  \A j \in Jobs, f \in Fingerprints :
    Executes(j, f) /\ Delivered(j) /\ Shown(j) /\ Current(j) /\ jobs[j] = NoInfo =>
      \/ completed[f] # Never /\ deliveredAt[j] <= completed[f]
      \/ deliveredAt[j] + DedupeTTL < now

\* When a run is accepted again its earlier job has ended, and if that was delivered and
\* is shown as saved, the TTL has passed.
EndedBefore ==
  \A j, k \in Jobs, f \in Fingerprints :
    j < k /\ Executes(j, f) /\ Executes(k, f) /\ life[j] = life[k] =>
      /\ jobs[j] = NoInfo
      /\ Delivered(j) /\ Shown(j) => deliveredAt[j] + DedupeTTL < now

\* Nobody but the thread that has a job in hand completes it.
LEMMA JobsEnd ==
  ASSUME Shape, [Next]_vars, NEW j \in Jobs, jobs[j] # NoInfo, jobs'[j] = NoInfo
  PROVE  \/ Crash
         \/ UndoAdmission /\ thread[Loop].job = j
         \/ \E n \in Notebooks : CompleteJob(n) /\ thread[n].job = j
  <1>0. jobs \in [Jobs -> JobInfo \union {NoInfo}]
    BY DEF Shape, TypeOK, AdmissionTypeOK
  <1>1. ASSUME NEW info \in JobInfo, SubmitAccepted(info)
        PROVE  FALSE
    <2>1. jobs'[j] = jobs[j] \/ jobs'[j] = info
      BY <1>0, <1>1 DEF SubmitAccepted, Accept
    <2> QED BY <2>1, InfoType
  <1>2. ASSUME NEW info \in JobInfo, SubmitCoalesced(info) \/ SubmitRejected(info)
        PROVE  UNCHANGED jobs
    BY <1>2 DEF SubmitCoalesced, SubmitRejected, Coalesce, Reject
  <1>3. ASSUME NEW job, NEW succeeded, Complete(job, succeeded)
        PROVE  job = j
    BY <1>0, <1>3 DEF Complete
  <1>4. CASE \/ SaveQueued \/ Enqueue \/ SaveSubmitFailed \/ SaveAlias \/ ReadOriginal
             \/ AppendAlias \/ SubmitDone \/ ClockTick \/ ShutDown \/ Start \/ UNCHANGED vars
    BY <1>4 DEF SaveQueued, Enqueue, SaveSubmitFailed, SaveAlias, ReadOriginal, AppendAlias, SubmitDone,
       ClockTick, Tick, ShutDown, Start, vars, StoreOnly, admissionVars
  <1>5. ASSUME NEW t,
               \/ ReadAlias(t) \/ SaveAliasRunning(t) \/ SaveAliasFinal(t) \/ TakeJob(t)
               \/ StopWorker(t) \/ MarkRunning(t) \/ Prepare(t) \/ Deliver(t)
               \/ RecordOutcome(t) \/ SaveFinal(t) \/ PopAliases(t)
        PROVE  UNCHANGED jobs
    BY <1>5 DEF ReadAlias, SaveAliasRunning, SaveAliasFinal, TakeJob, StopWorker, MarkRunning, Prepare,
       Deliver, RecordOutcome, SaveFinal, PopAliases, StoreOnly, admissionVars
  <1>6. ASSUME UndoAdmission PROVE thread[Loop].job = j
    BY <1>3, <1>6 DEF UndoAdmission
  <1>7. ASSUME NEW n \in Notebooks, CompleteJob(n) PROVE thread[n].job = j
    BY <1>3, <1>7 DEF CompleteJob
  <1> QED BY <1>1, <1>2, <1>4, <1>5, <1>6, <1>7 DEF Next, Submit, SubmitStep, WorkerStep

\* Only an accepted submission comes to hold a job.
LEMMA HeldBefore ==
  ASSUME Orderly, [Next]_vars, NEW j \in Jobs, Held(j)'
  PROVE  Held(j) \/ \E info \in JobInfo : SubmitAccepted(info) /\ j = NextJob
  <1>0. /\ queue \in [Notebooks -> Seq(Jobs \union {Sentinel})]
        /\ thread \in [Threads -> ThreadStates] /\ j # NoJob
        /\ Loop \in Threads /\ Notebooks \subseteq Threads /\ Loop \notin Notebooks
    BY CoordinatorAssumption DEF Threads, Orderly, Truthful, Shape, TypeOK, Jobs, NoJob
  <1>1. ASSUME NEW n \in Notebooks, NEW i \in DOMAIN queue'[n], queue'[n][i] = j
        PROVE  Held(j)
    <2>0. ASSUME \E k \in DOMAIN queue[n] : queue[n][k] = j
          PROVE  Held(j)
      BY <2>0 DEF Held, InQueue
    <2>1. CASE UNCHANGED queue
      BY <1>1, <2>0, <2>1
    <2>2. CASE Enqueue
      <3>1. PICK job : job = thread[Loop].job
        OBVIOUS
      <3>2. /\ At(Loop, "enqueue")
            /\ queue'[n] = queue[n] \/ queue'[n] = Append(queue[n], job)
        BY <1>0, <2>2, <3>1 DEF Enqueue
      <3>3. PICK long : long = queue'[n]
        OBVIOUS
      <3>4. CASE long = Append(queue[n], job)
        <4>1. j = job \/ \E k \in DOMAIN queue[n] : j = queue[n][k]
          BY <1>0, <1>1, <3>3, <3>4, AppendElements
        <4> QED BY <1>0, <2>0, <3>1, <3>2, <4>1 DEF Held, HeldBy, At
      <3> QED BY <1>1, <2>0, <3>2, <3>3, <3>4
    <2>3. CASE ShutDown
      <3>1. PICK long : long = queue'[n]
        OBVIOUS
      <3>2. long = Append(queue[n], Sentinel)
        BY <2>3, <3>1 DEF ShutDown
      <3> QED BY <1>0, <1>1, <2>0, <3>1, <3>2, AppendElements DEF Sentinel
    <2>4. ASSUME NEW m \in Notebooks, TakeJob(m) \/ StopWorker(m)
          PROVE  Held(j)
      <3>1. queue[m] # <<>> /\ queue' = [queue EXCEPT ![m] = Tail(queue[m])]
        BY <2>4 DEF TakeJob, StopWorker
      <3> QED BY <1>0, <1>1, <2>0, <3>1, TailElements
    <2>5. CASE Crash
      <3>1. queue'[n] = <<>>
        BY <2>5 DEF Crash
      <3> QED BY <1>1, <3>1, EmptyDomain
    <2> QED BY <2>1, <2>2, <2>3, <2>4, <2>5, QueueSteps DEF Orderly, Truthful
  <1>2. ASSUME NEW t \in Threads, HeldBy(t, j)
        PROVE  Held(j)
    BY <1>2 DEF Held
  <1>3. ASSUME NEW n \in Notebooks, WorkerStep(n), thread'[n].job = j
        PROVE  Held(j)
    <2>1. CASE TakeJob(n)
      <3>1. 1 \in DOMAIN queue[n] /\ queue[n][1] = j
        BY <1>3, <2>1, TakenApart
      <3> QED BY <3>1 DEF Held, InQueue
    <2>2. CASE ~TakeJob(n)
      <3>1. thread[n].job = j
        BY <1>0, <1>3, <2>2, HandSteps DEF Orderly, Truthful
      <3> QED BY <1>0, <3>1 DEF Held, HeldBy
    <2> QED BY <2>1, <2>2
  <1>4. ASSUME SubmitStep, thread'[Loop].job = j, thread'[Loop].pc \in {"save queued", "enqueue", "undo"}
        PROVE  Held(j)
    <2>1. thread[Loop].job = j
      BY <1>0, <1>4, HandSteps DEF Orderly, Truthful
    <2>2. SaveQueued \/ Enqueue
      <3>1. ASSUME NEW pc, Goto(Loop, pc) PROVE thread'[Loop].pc = pc
        BY <1>0, <3>1 DEF Goto, ThreadStates
      <3>2. ASSUME Return(Loop) PROVE thread'[Loop].pc = "idle"
        BY <1>0, <3>2 DEF Return, Idle
      <3>3. CASE UndoAdmission \/ SaveSubmitFailed \/ SaveAlias \/ AppendAlias \/ SubmitDone
        BY <1>4, <3>1, <3>2, <3>3 DEF UndoAdmission, SaveSubmitFailed, SaveAlias, AppendAlias, SubmitDone
      <3>4. CASE ReadOriginal
        <4>1. thread'[Loop].pc \in {"aliases", "append", "save failed"}
          BY <1>0, <3>4 DEF ReadOriginal, Goto, ThreadStates
        <4> QED BY <1>4, <4>1
      <3>5. CASE ReadAlias(Loop) \/ SaveAliasRunning(Loop)
        BY <1>4, <3>1, <3>2, <3>5 DEF ReadAlias, SaveAliasRunning
      <3>6. CASE SaveAliasFinal(Loop)
        BY <1>0, <1>4, <3>6 DEF SaveAliasFinal, ThreadStates
      <3> QED BY <1>4, <3>3, <3>4, <3>5, <3>6 DEF SubmitStep
    <2> QED BY <1>0, <2>1, <2>2 DEF SaveQueued, Enqueue, At, Held, HeldBy
  <1>5. ASSUME NEW t \in Threads, HeldBy(t, j)', thread'[t] = thread[t]
        PROVE  Held(j)
    BY <1>5 DEF Held, HeldBy
  <1>6. ASSUME NEW t \in Threads, HeldBy(t, j)'
        PROVE  Held(j) \/ \E info \in JobInfo : SubmitAccepted(info) /\ j = NextJob
    <2>1. CASE SubmitStep
      <3>1. t # Loop => thread'[t] = thread[t]
        BY <2>1, LoopActs DEF Acts, Orderly, Truthful
      <3> QED BY <1>4, <1>5, <1>6, <2>1, <3>1 DEF HeldBy
    <2>2. ASSUME NEW n \in Notebooks, WorkerStep(n)
          PROVE  Held(j)
      <3>1. t # n => thread'[t] = thread[t]
        BY <2>2, WorkerActs DEF Acts, Orderly, Truthful
      <3> QED BY <1>3, <1>5, <1>6, <2>2, <3>1 DEF HeldBy
    <2>3. CASE UNCHANGED thread \/ Start
      BY <1>5, <1>6, <2>3 DEF Start
    <2>4. CASE Crash
      BY <1>0, <1>6, <2>4 DEF Crash, Idle, HeldBy
    <2>5. ASSUME NEW info \in JobInfo, SubmitAccepted(info) \/ SubmitCoalesced(info)
          PROVE  Held(j) \/ (SubmitAccepted(info) /\ j = NextJob)
      <3>1. PICK new : new = NextJob
        OBVIOUS
      <3>2. /\ thread'[Loop].job = new
            /\ \A u \in Threads \ {Loop} : thread'[u] = thread[u]
        BY <2>5, <3>1, SubmitFacts
      <3>3. SubmitCoalesced(info) => thread'[Loop].pc = "save alias"
        BY <1>0, <2>5 DEF SubmitCoalesced, Begin, Idle
      <3> QED BY <1>5, <1>6, <2>5, <3>1, <3>2, <3>3 DEF HeldBy
    <2> QED BY <2>1, <2>2, <2>3, <2>4, <2>5, QuietSteps DEF Orderly, Truthful
  <1> QED BY <1>1, <1>6 DEF Held, InQueue

\* The clock does not run back.
LEMMA TimePasses ==
  ASSUME Shape, [Next]_vars
  PROVE  now \in Nat /\ now' \in {now, now + 1}
  BY StepOfAdmission
  DEF Shape, TypeOK, AdmissionTypeOK, AdmissionNext, admissionVars, Coalesce, Reject, Accept, Complete,
      Tick, Reset

LEMMA HeldAreAdmittedStep ==
  ASSUME Orderly, HeldAreAdmitted, [Next]_vars
  PROVE  HeldAreAdmitted'
  <1> SUFFICES ASSUME NEW j \in Jobs, Held(j)', jobs'[j] = NoInfo
               PROVE  FALSE
    BY DEF HeldAreAdmitted
  <1>0. /\ jobs \in [Jobs -> JobInfo \union {NoInfo}] /\ j # NoJob
        /\ thread \in [Threads -> ThreadStates]
        /\ Loop \in Threads /\ Notebooks \subseteq Threads /\ Loop \notin Notebooks
    BY CoordinatorAssumption DEF Orderly, Truthful, Shape, TypeOK, AdmissionTypeOK, Threads, Jobs, NoJob
  <1>1. ASSUME NEW info \in JobInfo, SubmitAccepted(info), j = NextJob
        PROVE  FALSE
    <2>1. jobs'[j] = info
      BY <1>0, <1>1 DEF SubmitAccepted, Accept
    <2> QED BY <2>1, InfoType
  <1>2. CASE Held(j)
    <2>1. jobs[j] # NoInfo
      BY <1>2 DEF HeldAreAdmitted
    <2>2. CASE Crash
      <3>1. /\ \A n \in Notebooks : queue'[n] = <<>>
            /\ \A t \in Threads : thread'[t].job = NoJob
        BY <2>2 DEF Crash, Idle
      <3> QED BY <1>0, <3>1, EmptyDomain DEF Held, InQueue, HeldBy
    <2>3. ASSUME NEW t \in Threads, thread[t].job = j, UNCHANGED queue, ~HeldBy(t, j)',
                 \A u \in Threads \ {t} : thread'[u] = thread[u]
          PROVE  FALSE
      <3>1. ~InQueue(j)'
        BY <1>0, <2>3 DEF InQueue, Orderly, QueuedApart
      <3>2. \A u \in Threads \ {t} : thread[u].job # j
        BY <1>0, <2>3, JobsApart
      <3> QED BY <2>3, <3>1, <3>2 DEF Held, HeldBy
    <2>4. ASSUME UndoAdmission, thread[Loop].job = j
          PROVE  FALSE
      <3>1. thread'[Loop].pc = "save failed" /\ UNCHANGED queue
        BY <1>0, <2>4 DEF UndoAdmission, Goto, ThreadStates, serverVars
      <3>2. \A u \in Threads \ {Loop} : thread'[u] = thread[u]
        BY <1>0, <2>4 DEF UndoAdmission, Goto
      <3> QED BY <1>0, <2>3, <2>4, <3>1, <3>2 DEF HeldBy
    <2>5. ASSUME NEW n \in Notebooks, CompleteJob(n), thread[n].job = j
          PROVE  FALSE
      <3>1. thread'[n].job = NoJob /\ UNCHANGED queue
        BY <1>0, <2>5 DEF CompleteJob, Return, Idle, serverVars
      <3>2. \A u \in Threads \ {n} : thread'[u] = thread[u]
        BY <1>0, <2>5 DEF CompleteJob, Return
      <3> QED BY <1>0, <2>3, <2>5, <3>1, <3>2 DEF HeldBy
    <2> QED BY <2>1, <2>2, <2>4, <2>5, JobsEnd DEF Orderly, Truthful
  <1> QED BY <1>1, <1>2, HeldBefore

LEMMA DeliveredInTimeStep ==
  ASSUME Orderly, DeliveredInTime, [Next]_vars
  PROVE  DeliveredInTime'
  <1> SUFFICES ASSUME NEW j \in Jobs, Delivered(j)'
               PROVE  coalescedInto'[j] = NoJob /\ deliveredAt'[j] <= now'
    BY DEF DeliveredInTime
  <1>0. /\ deliveredAt \in [Jobs -> Nat \union {Never}] /\ now \in Nat /\ now' \in {now, now + 1}
        /\ Loop \notin Notebooks /\ Notebooks \subseteq Threads
    BY TimePasses, CoordinatorAssumption DEF Orderly, Truthful, Shape, TypeOK, AdmissionTypeOK, Threads
  <1>1. ASSUME Delivered(j), deliveredAt'[j] = deliveredAt[j]
        PROVE  coalescedInto'[j] = NoJob /\ deliveredAt'[j] <= now'
    <2>1. Drawn(j) /\ coalescedInto[j] = NoJob /\ deliveredAt[j] <= now
      BY <1>1 DEF DeliveredInTime, Orderly, DeliveredWereDrawn
    <2>2. coalescedInto'[j] = coalescedInto[j]
      BY <2>1, HistoryStays DEF Orderly, Truthful
    <2>3. deliveredAt[j] \in Nat
      BY <1>0, <1>1 DEF Delivered
    <2> QED BY <1>0, <1>1, <2>1, <2>2, <2>3
  <1>2. CASE UNCHANGED deliveredAt
    BY <1>1, <1>2 DEF Delivered
  <1>3. ASSUME NEW n \in Notebooks, Deliver(n),
               deliveredAt' = [deliveredAt EXCEPT ![thread[n].job] = now]
        PROVE  coalescedInto'[j] = NoJob /\ deliveredAt'[j] <= now'
    <2>1. CASE thread[n].job = j
      <3>1. coalescedInto[j] = NoJob
        BY <1>0, <1>3, <2>1, HandFacts DEF Orderly, Deliver, At
      <3>2. UNCHANGED coalescedInto
        BY <1>3 DEF Deliver, historyVars
      <3>3. deliveredAt'[j] = now
        BY <1>0, <1>3, <2>1
      <3> QED BY <1>0, <3>1, <3>2, <3>3
    <2>2. CASE thread[n].job # j
      <3>1. deliveredAt'[j] = deliveredAt[j]
        BY <1>0, <1>3, <2>2
      <3> QED BY <1>1, <3>1 DEF Delivered
    <2> QED BY <2>1, <2>2
  <1> QED BY <1>2, <1>3, DeliverySteps

LEMMA LoopUndeliveredStep ==
  ASSUME Orderly, LoopUndelivered, [Next]_vars
  PROVE  LoopUndelivered'
  <1> SUFFICES ASSUME NEW j, j = thread'[Loop].job, j # NoJob, Delivered(j)'
               PROVE  FALSE
    BY DEF LoopUndelivered
  <1>0. /\ thread \in [Threads -> ThreadStates] /\ deliveredAt \in [Jobs -> Nat \union {Never}]
        /\ Loop \in Threads /\ Loop \notin Notebooks /\ Notebooks \subseteq Threads
    BY CoordinatorAssumption DEF Orderly, Truthful, Shape, TypeOK, Threads
  <1>1. CASE thread[Loop].job = j
    <2>1. j \in Jobs /\ ~Delivered(j)
      BY <1>0, <1>1, HandFacts DEF Orderly, LoopUndelivered
    <2>2. ASSUME NEW n \in Notebooks, deliveredAt' = [deliveredAt EXCEPT ![thread[n].job] = now]
          PROVE  FALSE
      <3>1. thread[n].job # j
        BY <1>1, <2>2 DEF Orderly, LoopApart
      <3>2. deliveredAt'[j] = deliveredAt[j]
        BY <1>0, <2>1, <2>2, <3>1
      <3> QED BY <2>1, <3>2 DEF Delivered
    <2> QED BY <2>1, <2>2, DeliverySteps DEF Delivered
  <1>2. ASSUME NEW info \in JobInfo, SubmitAccepted(info) \/ SubmitCoalesced(info)
        PROVE  FALSE
    <2>1. PICK new : new = NextJob
      OBVIOUS
    <2>2. thread'[Loop].job = new /\ ~Delivered(new) /\ UNCHANGED deliveredAt
      BY <1>2, <2>1, SubmitFacts
    <2> QED BY <2>2 DEF Delivered
  <1>3. CASE SubmitStep
    BY <1>1, <1>3, HandSteps DEF Orderly, Truthful
  <1>4. ASSUME NEW n \in Notebooks, WorkerStep(n)
        PROVE  FALSE
    <2>1. thread'[Loop] = thread[Loop]
      BY <1>0, <1>4, WorkerActs DEF Acts, Orderly, Truthful
    <2> QED BY <1>1, <2>1
  <1>5. CASE Crash
    BY <1>0, <1>5 DEF Crash, Idle
  <1>6. CASE UNCHANGED thread \/ Start
    BY <1>1, <1>6 DEF Start
  <1> QED BY <1>2, <1>3, <1>4, <1>5, <1>6, QuietSteps DEF Orderly, Truthful

\* A job that is executed is shown as saved by the worker that has it in hand.
LEMMA ShownByItsWorker ==
  ASSUME Orderly, LoopUndelivered, [Next]_vars,
         NEW j \in Jobs, coalescedInto[j] = NoJob, ~Shown(j), Shown(j)'
  PROVE  \E n \in Notebooks : WorkerStep(n) /\ thread[n].job = j /\ thread[n].final = "persisted"
  <1>0. /\ row \in [Jobs -> RowStates] /\ row'[j] # row[j] /\ j # NoJob
        /\ Loop \in Threads /\ Notebooks \subseteq Threads /\ Shape
    BY DEF Threads, Orderly, Truthful, Shape, TypeOK, Shown, Jobs, NoJob
  <1>1. ASSUME NEW t \in Threads, Acts(t)
        PROVE  thread[t].job = j /\ thread[t].final = "persisted"
    <2>1. thread[t].job = j
      BY <1>0, <1>1, OthersKept
    <2>2. PICK job \in Jobs, state \in {"queued", "running", "failed", thread[t].final} :
            row' = Saved(row, job, state)
      BY <1>0, <1>1 DEF Acts, Wrote
    <2>3. row'[j] = state
      BY <1>0, <2>2, SavedRows
    <2> QED BY <2>1, <2>2, <2>3 DEF Shown
  <1>2. ~SubmitStep
    <2>1. ASSUME thread[Loop].job = j, thread[Loop].final = "persisted"
          PROVE  FALSE
      <3>1. PICK o \in Jobs : Answers(j, o) /\ Delivered(o)
        BY <1>0, <2>1 DEF Orderly, Truthful, AllSincere, Sincere
      <3>2. o = j
        BY <3>1 DEF Answers, Original
      <3> QED BY <1>0, <2>1, <3>1, <3>2 DEF LoopUndelivered
    <2> QED BY <1>0, <1>1, <2>1, LoopActs
  <1>3. ASSUME NEW info \in JobInfo, SubmitAccepted(info) \/ SubmitCoalesced(info)
        PROVE  FALSE
    BY <1>0, <1>3 DEF SubmitAccepted, SubmitCoalesced
  <1>4. ~Crash
    BY <1>0 DEF Crash
  <1>5. ~Start
    <2>1. ASSUME row' = Abandoned(row) PROVE row'[j] \in {row[j], "abandoned"}
      BY <1>0, <2>1 DEF Abandoned
    <2> QED BY <1>0, <2>1 DEF Start, Shown
  <1>6. PICK n \in Notebooks : WorkerStep(n)
    BY <1>0, <1>2, <1>3, <1>4, <1>5, QuietSteps
  <1> QED BY <1>0, <1>1, <1>6, WorkerActs

\* A worker's job that is shown as saved stays a success until it is completed: the one
\* save that can turn a success into a failure comes before the row says so.
LEMMA ShownSucceedsStep ==
  ASSUME Orderly, LoopUndelivered, ShownSucceeds, [Next]_vars
  PROVE  ShownSucceeds'
  <1> SUFFICES ASSUME NEW n \in Notebooks, NEW j, j = thread'[n].job, j # NoJob, Shown(j)'
               PROVE  thread'[n].final = "persisted" /\ thread'[n].pc # "record"
    BY DEF ShownSucceeds
  <1>0. /\ thread \in [Threads -> ThreadStates] /\ row \in [Jobs -> RowStates]
        /\ Loop \in Threads /\ Loop \notin Notebooks /\ Notebooks \subseteq Threads /\ n \in Threads
    BY CoordinatorAssumption DEF Orderly, Truthful, Shape, TypeOK, Threads
  <1>1. thread[n].job = j => j \in Jobs /\ coalescedInto[j] = NoJob
    BY <1>0, HandFacts DEF Orderly
  <1>2. ASSUME thread'[n] = thread[n], ~WorkerStep(n)
        PROVE  thread'[n].final = "persisted" /\ thread'[n].pc # "record"
    <2>1. j \in Jobs /\ coalescedInto[j] = NoJob /\ thread[n].job = j
      BY <1>1, <1>2
    <2>2. ASSUME NEW m \in Notebooks, thread[m].job = j
          PROVE  m = n
      BY <1>0, <2>1, <2>2, JobsApart
    <2>3. Shown(j)
      BY <1>2, <2>1, <2>2, ShownByItsWorker
    <2> QED BY <1>2, <2>1, <2>3 DEF ShownSucceeds
  <1>3. ASSUME ~WorkerStep(n), thread'[n] # thread[n]
        PROVE  FALSE
    <2>1. ASSUME NEW info \in JobInfo, SubmitAccepted(info) \/ SubmitCoalesced(info)
          PROVE  FALSE
      BY <1>0, <1>3, <2>1, SubmitFacts
    <2>2. CASE SubmitStep
      BY <1>0, <1>3, <2>2, LoopActs DEF Acts, Orderly, Truthful
    <2>3. ASSUME NEW m \in Notebooks, WorkerStep(m)
          PROVE  FALSE
      BY <1>0, <1>3, <2>3, WorkerActs DEF Acts, Orderly, Truthful
    <2>4. CASE Crash
      BY <1>0, <2>4 DEF Crash, Idle
    <2>5. CASE Start
      BY <1>3, <2>5 DEF Start
    <2> QED BY <1>3, <2>1, <2>2, <2>3, <2>4, <2>5, QuietSteps DEF Orderly, Truthful
  <1>4. ASSUME WorkerStep(n)
        PROVE  thread'[n].final = "persisted" /\ thread'[n].pc # "record"
    <2>0. thread[n].job = j \/ TakeJob(n)
      BY <1>4, HandSteps DEF Orderly, Truthful
    <2>1. CASE TakeJob(n)
      <3>1. PICK q : q = queue[n][1]
        OBVIOUS
      <3>2. j = q /\ 1 \in DOMAIN queue[n] /\ q # NoJob
        BY <2>1, <3>1, TakenApart
      <3>3. row[q] = "queued" /\ UNCHANGED row
        BY <2>1, <3>1, <3>2 DEF Orderly, QueuedApart, TakeJob
      <3> QED BY <3>2, <3>3 DEF Shown
    <2>2. ASSUME thread[n].job = j, row'[j] = row[j]
          PROVE  Shown(j) /\ thread[n].final = "persisted" /\ thread[n].pc # "record"
      BY <2>2 DEF Shown, ShownSucceeds
    <2>3. CASE Deliver(n)
      <3>1. thread[n].pc = "deliver" /\ UNCHANGED row
        BY <2>3 DEF Deliver, At, Raises
      <3>2. row[thread[n].job] = "running"
        BY <1>0, <3>1 DEF Orderly, AllPlaced, Placed, PlacedAt
      <3>3. CASE thread[n].job = j
        BY <3>1, <3>2, <3>3 DEF Shown
      <3> QED BY <2>0, <2>1, <3>3
    <2>4. ASSUME MarkRunning(n) \/ Prepare(n), thread[n].job = j
          PROVE  FALSE
      <3>1. row[j] \in {"queued", "running"}
        BY <1>0, <2>4 DEF MarkRunning, Prepare, At, Orderly, AllPlaced, Placed, PlacedAt
      <3>2. UNCHANGED row \/ row' = Saved(row, j, "running")
        BY <2>4 DEF MarkRunning, Prepare, SaveBestEffort, Save, Raises
      <3>3. row'[j] \in {row[j], "running"}
        BY <1>0, <1>1, <2>4, <3>2, SavedRows
      <3> QED BY <3>1, <3>3 DEF Shown
    <2>5. ASSUME RecordOutcome(n), thread[n].job = j
          PROVE  thread'[n].final = "persisted" /\ thread'[n].pc # "record"
      <3>1. thread[n].pc = "record"
        BY <2>5 DEF RecordOutcome, At
      <3>2. row'[j] # row[j]
        BY <2>2, <2>5, <3>1
      <3>6. PICK state : state = thread[n].final
        OBVIOUS
      <3>3. row' = Saved(row, j, state) /\ Goto(n, "save final")
        BY <2>5, <3>2, <3>6 DEF RecordOutcome, Save, Raises
      <3>4. row'[j] = thread[n].final
        <4>1. PICK after : after = row'
          OBVIOUS
        <4>2. after = Saved(row, j, state) /\ j \in Jobs /\ after[j] # row[j]
          BY <1>1, <2>5, <3>2, <3>3, <4>1
        <4>3. after[j] = state
          BY <1>0, <4>2, SavedRows
        <4> QED BY <3>6, <4>1, <4>3
      <3>5. thread'[n].final = thread[n].final /\ thread'[n].pc = "save final"
        BY <1>0, <3>3 DEF Goto, ThreadStates
      <3> QED BY <3>4, <3>5 DEF Shown
    <2>6. ASSUME SaveFinal(n) \/ SaveAliasFinal(n), thread[n].job = j
          PROVE  thread'[n].final = "persisted" /\ thread'[n].pc # "record"
      <3>1. thread'[n].final = thread[n].final /\ thread'[n].pc # "record"
        BY <1>0, <2>6 DEF SaveFinal, SaveAliasFinal, Goto, ThreadStates
      <3>2. CASE row'[j] = row[j]
        BY <2>2, <2>6, <3>1, <3>2
      <3>3. CASE row'[j] # row[j]
        <4>1. CASE SaveFinal(n)
          <5>1. row' = Saved(row, j, thread[n].final)
            BY <2>6, <3>3, <4>1 DEF SaveFinal, SaveBestEffort, Save, Raises
          <5> QED BY <1>0, <1>1, <2>6, <3>1, <3>3, <5>1, SavedRows DEF Shown
        <4>2. CASE SaveAliasFinal(n)
          <5>1. PICK a : a = Head(thread[n].todo)
            OBVIOUS
          <5>2. row' = Saved(row, a, thread[n].final)
            BY <3>3, <4>2, <5>1 DEF SaveAliasFinal, SaveBestEffort, Save, Raises
          <5>3. a = j
            BY <3>3, <5>2 DEF Saved
          <5> QED BY <1>0, <1>1, <2>6, <3>1, <3>3, <5>2, <5>3, SavedRows DEF Shown
        <4> QED BY <2>6, <4>1, <4>2
      <3> QED BY <3>2, <3>3
    <2>7. ASSUME SaveAliasRunning(n), thread[n].job = j
          PROVE  thread'[n].final = "persisted" /\ thread'[n].pc # "record"
      <3>1. thread'[n].final = thread[n].final /\ thread'[n].pc = "alias final"
        BY <1>0, <2>7 DEF SaveAliasRunning, Goto, ThreadStates
      <3>2. PICK a : a = Head(thread[n].todo)
        OBVIOUS
      <3>3. UNCHANGED row \/ row' = Saved(row, a, "running")
        BY <2>7, <3>2 DEF SaveAliasRunning, SaveBestEffort, Save, Raises
      <3>4. row'[j] = row[j]
        BY <1>0, <1>1, <2>7, <3>3 DEF Saved, Shown
      <3> QED BY <2>2, <2>7, <3>1, <3>4
    <2>8. ASSUME StopWorker(n) \/ PopAliases(n) \/ CompleteJob(n) \/ ReadAlias(n), thread[n].job = j
          PROVE  thread'[n].final = "persisted" /\ thread'[n].pc # "record"
      <3>1. UNCHANGED row
        BY <2>8 DEF StopWorker, PopAliases, CompleteJob, ReadAlias, Raises
      <3>2. Return(n) => thread'[n].job = NoJob
        BY <1>0 DEF Return, Idle
      <3>3. ~Return(n) => thread'[n].final = thread[n].final /\ thread'[n].pc # "record"
        BY <1>0, <2>8 DEF StopWorker, PopAliases, CompleteJob, ReadAlias, Goto, ThreadStates
      <3> QED BY <2>2, <2>8, <3>1, <3>2, <3>3
    <2> QED BY <1>4, <2>0, <2>1, <2>3, <2>4, <2>5, <2>6, <2>7, <2>8 DEF WorkerStep
  <1> QED BY <1>2, <1>3, <1>4

\* The ways in which the table of completed runs and the clock change.
LEMMA CompletedSteps ==
  ASSUME Shape, [Next]_vars
  PROVE  \/ UNCHANGED <<completed, now>>
         \/ completed' = Unexpired /\ UNCHANGED <<now, deliveredAt, crashes>>
         \/ now' = now + 1 /\ UNCHANGED <<completed, jobs, deliveredAt, crashes>>
         \/ Crash
         \/ \E n \in Notebooks : CompleteJob(n)
  <1>1. ASSUME NEW info \in JobInfo,
               SubmitAccepted(info) \/ SubmitCoalesced(info) \/ SubmitRejected(info)
        PROVE  completed' = Unexpired /\ UNCHANGED <<now, deliveredAt, crashes>>
    BY <1>1 DEF SubmitAccepted, SubmitCoalesced, SubmitRejected, Accept, Coalesce, Reject
  <1>2. CASE UndoAdmission
    BY <1>2 DEF UndoAdmission, Complete
  <1>3. CASE ClockTick
    BY <1>3 DEF ClockTick, Tick
  <1>4. CASE \/ SaveQueued \/ Enqueue \/ SaveSubmitFailed \/ SaveAlias \/ ReadOriginal
             \/ AppendAlias \/ SubmitDone \/ ShutDown \/ Start \/ UNCHANGED vars
    BY <1>4 DEF SaveQueued, Enqueue, SaveSubmitFailed, SaveAlias, ReadOriginal, AppendAlias, SubmitDone,
       ShutDown, Start, vars, StoreOnly, admissionVars
  <1>5. ASSUME NEW t,
               \/ ReadAlias(t) \/ SaveAliasRunning(t) \/ SaveAliasFinal(t) \/ TakeJob(t)
               \/ StopWorker(t) \/ MarkRunning(t) \/ Prepare(t) \/ Deliver(t)
               \/ RecordOutcome(t) \/ SaveFinal(t) \/ PopAliases(t)
        PROVE  UNCHANGED <<completed, now>>
    BY <1>5 DEF ReadAlias, SaveAliasRunning, SaveAliasFinal, TakeJob, StopWorker, MarkRunning, Prepare,
       Deliver, RecordOutcome, SaveFinal, PopAliases, StoreOnly, admissionVars
  <1> QED BY <1>1, <1>2, <1>3, <1>4, <1>5 DEF Next, Submit, SubmitStep, WorkerStep

\* A job keeps the lifetime it was submitted in, and only a crash begins a new one.
LEMMA LifeStays ==
  ASSUME Orderly, [Next]_vars, NEW j \in Jobs, Drawn(j)
  PROVE  /\ Drawn(j)' /\ request'[j] = request[j] /\ coalescedInto'[j] = coalescedInto[j]
         /\ life'[j] = life[j] /\ life[j] <= crashes /\ life[j] \in Nat /\ crashes \in Nat
         /\ crashes' = IF Crash THEN crashes + 1 ELSE crashes
  <1>0. Shape
    BY DEF Orderly, Truthful
  <1>1. request'[j] = request[j] /\ coalescedInto'[j] = coalescedInto[j] /\ Drawn(j)'
    BY <1>0, HistoryStays DEF Drawn
  <1>2. life[j] <= crashes /\ life[j] \in Nat /\ crashes \in Nat
    BY <1>0 DEF Orderly, Lives, Shape, TypeOK
  <1>3. ASSUME NEW info \in JobInfo, SubmitAccepted(info) \/ SubmitCoalesced(info)
        PROVE  life'[j] = life[j] /\ crashes' = crashes
    <2>1. PICK new : new = NextJob
      OBVIOUS
    <2>2. /\ ~Drawn(new) /\ crashes' = crashes
          /\ \A i \in Jobs \ {new} : life'[i] = life[i]
      BY <1>3, <2>1, SubmitFacts
    <2> QED BY <2>2
  <1>4. SubmitStep => life' = life /\ crashes' = crashes
    BY <1>0, LoopActs DEF Acts
  <1>5. ASSUME NEW n \in Notebooks, WorkerStep(n)
        PROVE  life'[j] = life[j] /\ crashes' = crashes
    BY <1>0, <1>5, WorkerActs DEF Acts
  <1>6. Start => life' = life /\ crashes' = crashes
    BY DEF Start, historyVars
  <1>7. Crash => crashes' = crashes + 1 /\ life' = life
    BY DEF Crash, historyVars
  <1>8. (life'[j] = life[j] /\ crashes' = crashes) \/ Crash
    BY <1>0, <1>3, <1>4, <1>5, <1>6, QuietSteps
  <1> QED BY <1>1, <1>2, <1>7, <1>8

\* The bundle of a job is written only while the job is admitted.
LEMMA EndedIsNotDelivered ==
  ASSUME Orderly, HeldAreAdmitted, [Next]_vars, NEW j \in Jobs, jobs'[j] = NoInfo
  PROVE  deliveredAt'[j] = deliveredAt[j]
  <1>0. deliveredAt \in [Jobs -> Nat \union {Never}] /\ Notebooks \subseteq Threads /\ Loop \notin Notebooks
    BY CoordinatorAssumption DEF Orderly, Truthful, Shape, TypeOK, Threads
  <1>1. ASSUME NEW n \in Notebooks, Deliver(n),
               deliveredAt' = [deliveredAt EXCEPT ![thread[n].job] = now]
        PROVE  thread[n].job # j
    <2>1. UNCHANGED jobs
      BY <1>1 DEF Deliver, admissionVars
    <2>2. thread[n].job = j => jobs[j] # NoInfo
      BY <1>0 DEF HeldAreAdmitted, Held, HeldBy
    <2> QED BY <1>1, <2>1, <2>2
  <1> QED BY <1>0, <1>1, DeliverySteps

\* A job that has ended is not shown as saved later.
LEMMA EndedIsNotShown ==
  ASSUME Orderly, HeldAreAdmitted, LoopUndelivered, [Next]_vars,
         NEW j \in Jobs, coalescedInto[j] = NoJob, jobs'[j] = NoInfo, Shown(j)'
  PROVE  Shown(j)
  <1> SUFFICES ASSUME ~Shown(j) PROVE FALSE
    OBVIOUS
  <1>0. row'[j] # row[j]
    BY DEF Shown
  <1>1. PICK n \in Notebooks : WorkerStep(n) /\ thread[n].job = j /\ thread[n].final = "persisted"
    BY ShownByItsWorker
  <1>2. jobs[j] # NoInfo
    BY <1>1, CoordinatorAssumption DEF HeldAreAdmitted, Held, HeldBy, Threads
  <1>3. Crash \/ UndoAdmission \/ \E m \in Notebooks : CompleteJob(m)
    BY <1>2, JobsEnd DEF Orderly, Truthful
  <1> QED BY <1>0, <1>3 DEF Crash, UndoAdmission, CompleteJob

LEMMA RememberedStep ==
  ASSUME Orderly, AdmittedAsRequested, HeldAreAdmitted, DeliveredInTime, LoopUndelivered,
         ShownSucceeds, Remembered, [Next]_vars
  PROVE  Remembered'
  <1> SUFFICES ASSUME NEW j \in Jobs, NEW f \in Fingerprints,
                      Executes(j, f)', Delivered(j)', Shown(j)', Current(j)', jobs'[j] = NoInfo
               PROVE  \/ completed'[f] # Never /\ deliveredAt'[j] <= completed'[f]
                      \/ deliveredAt'[j] + DedupeTTL < now'
    BY DEF Remembered
  <1>0. /\ jobs \in [Jobs -> JobInfo \union {NoInfo}]
        /\ deliveredAt \in [Jobs -> Nat \union {Never}]
        /\ completed \in [Fingerprints -> Nat \union {Never}]
        /\ now \in Nat /\ DedupeTTL \in Nat /\ Never \notin Nat
    BY AdmissionAssumption DEF Orderly, Truthful, Shape, TypeOK, AdmissionTypeOK
  <1>1. deliveredAt'[j] = deliveredAt[j] /\ Delivered(j) /\ deliveredAt[j] \in Nat
    BY <1>0, EndedIsNotDelivered DEF Delivered
  <1>2. Drawn(j) /\ j # NoJob
    BY <1>1 DEF Orderly, DeliveredWereDrawn, Jobs, NoJob
  <1>3. /\ Executes(j, f) /\ Current(j) /\ ~Crash
        /\ deliveredAt[j] <= now /\ IsTrigger(request[j]) /\ FingerprintOf(request[j]) = f
    BY <1>1, <1>2, LifeStays DEF Executes, Current, DeliveredInTime
  <1>7. Shown(j)
    BY <1>3, EndedIsNotShown DEF Executes
  <1>4. ASSUME NEW n \in Notebooks, CompleteJob(n)
        PROVE  now' = now /\ completed'[f] \in {completed[f], now}
    BY <1>0, <1>4 DEF CompleteJob, Complete
  <1>5. CASE jobs[j] = NoInfo
    <2>1. \/ completed[f] # Never /\ deliveredAt[j] <= completed[f]
          \/ deliveredAt[j] + DedupeTTL < now
      BY <1>1, <1>3, <1>5, <1>7 DEF Remembered
    <2>2. CASE completed' = Unexpired /\ UNCHANGED now
      <3>1. completed'[f] = IF completed[f] # Never /\ completed[f] < now - DedupeTTL
                            THEN Never ELSE completed[f]
        BY <2>2 DEF Unexpired
      <3> QED BY <1>0, <1>1, <2>1, <2>2, <3>1
    <2>3. CASE now' = now + 1 /\ UNCHANGED completed
      BY <1>0, <1>1, <2>1, <2>3
    <2>4. CASE UNCHANGED <<completed, now>>
      BY <1>1, <2>1, <2>4
    <2>5. CASE \E n \in Notebooks : CompleteJob(n)
      BY <1>0, <1>1, <1>3, <1>4, <2>1, <2>5
    <2> QED BY <1>3, <2>2, <2>3, <2>4, <2>5, CompletedSteps DEF Orderly, Truthful
  <1>6. CASE jobs[j] # NoInfo
    <2>1. thread[Loop].job # j
      BY <1>1, <1>2 DEF LoopUndelivered
    <2>2. PICK n \in Notebooks : CompleteJob(n) /\ thread[n].job = j
      BY <1>3, <1>6, <2>1, JobsEnd DEF Orderly, Truthful
    <2>3. thread[n].final = "persisted" /\ jobs[j] = request[j]
      BY <1>1, <1>2, <1>6, <1>7, <2>2 DEF ShownSucceeds, AdmittedAsRequested
    <2>4. Complete(j, TRUE)
      BY <2>2, <2>3 DEF CompleteJob
    <2>5. completed'[f] = now
      BY <1>0, <1>3, <1>6, <2>3, <2>4 DEF Complete
    <2> QED BY <1>0, <1>1, <1>3, <2>5
  <1> QED BY <1>5, <1>6

LEMMA EndedBeforeStep ==
  ASSUME Orderly, ActiveIsExact, AdmittedAsRequested, HeldAreAdmitted, DeliveredInTime,
         LoopUndelivered, Remembered, EndedBefore, [Next]_vars
  PROVE  EndedBefore'
  <1> SUFFICES ASSUME NEW j \in Jobs, NEW k \in Jobs, NEW f \in Fingerprints,
                      j < k, Executes(j, f)', Executes(k, f)', life'[j] = life'[k]
               PROVE  jobs'[j] = NoInfo /\ (Delivered(j)' /\ Shown(j)' => deliveredAt'[j] + DedupeTTL < now')
    BY DEF EndedBefore
  <1>0. /\ deliveredAt \in [Jobs -> Nat \union {Never}]
        /\ completed \in [Fingerprints -> Nat \union {Never}]
        /\ DedupeTTL \in Nat /\ Never \notin Nat
        /\ Shape
    BY AdmissionAssumption DEF Orderly, Truthful, Shape, TypeOK, AdmissionTypeOK
  <1>5. now \in Nat /\ now' \in {now, now + 1}
    BY <1>0, TimePasses
  <1>1. ASSUME Drawn(j), jobs[j] = NoInfo, Delivered(j) /\ Shown(j) => deliveredAt[j] + DedupeTTL < now
        PROVE  jobs'[j] = NoInfo /\ (Delivered(j)' /\ Shown(j)' => deliveredAt'[j] + DedupeTTL < now')
    <2>1. ASSUME NEW info \in JobInfo, SubmitAccepted(info), j = NextJob
          PROVE  FALSE
      BY <1>1, <2>1, SubmitFacts
    <2>2. jobs'[j] = NoInfo
      BY <1>0, <1>1, <2>1, JobsSteps
    <2>3. deliveredAt'[j] = deliveredAt[j]
      BY <2>2, EndedIsNotDelivered
    <2>4. Delivered(j) => deliveredAt[j] \in Nat
      BY <1>0 DEF Delivered
    <2>5. coalescedInto[j] = NoJob
      BY <1>1, LifeStays DEF Executes
    <2>6. Shown(j)' => Shown(j)
      BY <2>2, <2>5, EndedIsNotShown
    <2> QED BY <1>0, <1>1, <1>5, <2>2, <2>3, <2>4, <2>6 DEF Delivered
  <1>2. CASE Drawn(j) /\ Drawn(k)
    <2>1. Executes(j, f) /\ Executes(k, f) /\ life[j] = life[k]
      BY <1>2, LifeStays DEF Executes
    <2> QED BY <1>1, <1>2, <2>1 DEF EndedBefore
  <1>3. CASE UNCHANGED <<request, coalescedInto>>
    BY <1>2, <1>3 DEF Executes, Drawn
  <1>4. ASSUME NEW info \in JobInfo, SubmitAccepted(info) \/ SubmitCoalesced(info)
        PROVE  jobs'[j] = NoInfo /\ (Delivered(j)' /\ Shown(j)' => deliveredAt'[j] + DedupeTTL < now')
    <2>1. PICK new : new = NextJob
      OBVIOUS
    <2>2. /\ new \in Jobs /\ ~Drawn(new) /\ life'[new] = crashes
          /\ \A i \in Jobs \ {new} : request'[i] = request[i]
      BY <1>4, <2>1, SubmitFacts
    <2>3. \A i \in Jobs : Drawn(i) <=> i < new
      BY <1>0, <2>1, <2>2, NextJobIsFresh DEF Shape, Drawn
    <2>4. \A i \in Jobs \ {new} : Drawn(i)' => Drawn(i)
      BY <2>2 DEF Drawn
    <2>5. CASE k # new
      <3>1. Drawn(k)
        BY <2>4, <2>5 DEF Executes
      <3>2. Drawn(j)
        BY <2>2, <2>3, <3>1 DEF Jobs
      <3> QED BY <1>2, <3>1, <3>2
    <2>6. CASE k = new
      <3>1. Drawn(j)
        BY <2>2, <2>4, <2>6 DEF Executes, Jobs
      <3>2. request'[new] = info
        BY <1>0, <1>4, <2>1, <2>2 DEF SubmitAccepted, SubmitCoalesced, Begin, Shape, TypeOK
      <3>3. IsTrigger(info) /\ FingerprintOf(info) = f
        BY <2>6, <3>2 DEF Executes
      <3>4. SubmitAccepted(info)
        <4>1. ASSUME SubmitCoalesced(info)
              PROVE  coalescedInto'[new] # NoJob
          BY <1>0, <2>1, <2>2, <4>1 DEF SubmitCoalesced, Coalesce, Coalesces, Shape, TypeOK
        <4> QED BY <1>4, <2>6, <4>1 DEF Executes
      <3>5. active[f] = NoJob /\ Unexpired[f] = Never
        BY <3>3, <3>4 DEF SubmitAccepted, Accept, Coalesces, IsDuplicate
      <3>6. Executes(j, f) /\ Current(j)
        BY <2>2, <2>6, <3>1, <3>4, LifeStays DEF Executes, Current
      <3>7. jobs[j] = NoInfo
        <4>1. ASSUME jobs[j] # NoInfo
              PROVE  active[f] = j
          BY <3>6, <4>1 DEF ActiveIsExact, AdmittedAsRequested, Executes
        <4> QED BY <3>5, <4>1 DEF Jobs, NoJob
      <3>8. ASSUME Delivered(j), Shown(j)
            PROVE  deliveredAt[j] + DedupeTTL < now
        <4>1. \/ completed[f] # Never /\ deliveredAt[j] <= completed[f]
              \/ deliveredAt[j] + DedupeTTL < now
          BY <3>6, <3>7, <3>8 DEF Remembered
        <4>2. completed[f] = Never \/ completed[f] < now - DedupeTTL
          BY <3>5 DEF Unexpired
        <4>3. deliveredAt[j] \in Nat
          BY <1>0, <3>8 DEF Delivered
        <4> QED BY <1>0, <1>5, <4>1, <4>2, <4>3
      <3> QED BY <1>1, <3>1, <3>7, <3>8
    <2> QED BY <2>5, <2>6
  <1> QED BY <1>3, <1>4, HistorySteps

LEMMA OneRunStep ==
  ASSUME Orderly, HeldAreAdmitted, LoopUndelivered, OneRunOneSnapshot, [Next]_vars,
         Orderly', DeliveredInTime', EndedBefore'
  PROVE  OneRunOneSnapshot'
  <1> SUFFICES ASSUME NEW j \in Jobs, NEW k \in Jobs, j < k, Shown(j)', Delivered(j)', Delivered(k)',
                      IsTrigger(request'[j]), IsTrigger(request'[k]),
                      FingerprintOf(request'[j]) = FingerprintOf(request'[k]),
                      life'[j] = life'[k]
               PROVE  deliveredAt'[k] > deliveredAt'[j] + DedupeTTL
    BY DEF OneRunOneSnapshot, Delivered, Shown
  <1>0. deliveredAt \in [Jobs -> Nat \union {Never}] /\ Shape
    BY DEF Orderly, Truthful, Shape, TypeOK
  <1>1. Drawn(j)' /\ Drawn(k)' /\ coalescedInto'[j] = NoJob /\ coalescedInto'[k] = NoJob
    BY DEF Orderly, DeliveredWereDrawn, DeliveredInTime
  <1>2. jobs'[j] = NoInfo /\ deliveredAt'[j] + DedupeTTL < now'
    <2>1. PICK f : f = FingerprintOf(request'[j])
      OBVIOUS
    <2>2. request'[j] \in JobInfo
      BY <1>1 DEF Orderly, Truthful, Shape, TypeOK, Drawn
    <2>3. f \in Fingerprints
      BY <2>1, <2>2, InfoType
    <2>4. Executes(j, f)' /\ Executes(k, f)'
      BY <1>1, <2>1 DEF Executes
    <2> QED BY <2>3, <2>4 DEF EndedBefore
  <1>3. deliveredAt'[j] = deliveredAt[j]
    BY <1>2, EndedIsNotDelivered
  <1>4. CASE deliveredAt'[k] = deliveredAt[k]
    <2>1. Delivered(j) /\ Delivered(k)
      BY <1>3, <1>4 DEF Delivered
    <2>2. Drawn(j) /\ Drawn(k)
      BY <2>1 DEF Orderly, DeliveredWereDrawn
    <2>3. request'[j] = request[j] /\ request'[k] = request[k] /\ life[j] = life[k]
      BY <2>2, LifeStays
    <2>4. Shown(j)
      BY <1>1, <1>2, <2>2, LifeStays, EndedIsNotShown
    <2> QED BY <1>3, <1>4, <2>1, <2>3, <2>4 DEF OneRunOneSnapshot, Delivered, Shown
  <1>5. ASSUME NEW n \in Notebooks, Deliver(n),
               deliveredAt' = [deliveredAt EXCEPT ![thread[n].job] = now]
        PROVE  deliveredAt'[k] = deliveredAt[k] \/ (deliveredAt'[k] = now /\ now' = now)
    BY <1>0, <1>5 DEF Deliver, admissionVars
  <1>6. \/ deliveredAt'[k] = deliveredAt[k]
        \/ deliveredAt'[k] = now /\ now' = now
    BY <1>5, DeliverySteps
  <1>7. CASE deliveredAt'[k] = now /\ now' = now
    <2>1. deliveredAt[j] \in Nat /\ now \in Nat /\ DedupeTTL \in Nat
      BY <1>0, <1>3, AdmissionAssumption DEF Delivered, Shape, TypeOK, AdmissionTypeOK
    <2> QED BY <1>2, <1>3, <1>7, <2>1
  <1> QED BY <1>4, <1>6, <1>7

\* What makes OneRunOneSnapshot inductive.
Once ==
  /\ Orderly /\ AdmittedAsRequested /\ HeldAreAdmitted /\ ActiveIsExact
  /\ DeliveredInTime /\ LoopUndelivered /\ ShownSucceeds
  /\ Remembered /\ EndedBefore /\ OneRunOneSnapshot

LEMMA OnceInit == Init => Once
  <1> SUFFICES ASSUME Init PROVE Once
    OBVIOUS
  <1>1. Orderly
    BY OrderlyInit
  <1>2. \A j \in Jobs : jobs[j] = NoInfo /\ ~Drawn(j) /\ ~Delivered(j)
    BY DEF Init, AdmissionInit, AdmissionEmpty, Drawn, Delivered
  <1>3. /\ \A t \in Threads : thread[t].job = NoJob
        /\ \A n \in Notebooks : queue[n] = <<>>
    BY DEF Init, Idle
  <1>4. HeldAreAdmitted
    <2>1. \A j \in Jobs : j # NoJob
      BY DEF Jobs, NoJob
    <2>2. \A n \in Notebooks : DOMAIN queue[n] = {}
      BY <1>3, EmptyDomain
    <2>3. \A j : ~InQueue(j)
      BY <2>2 DEF InQueue
    <2> QED BY <1>3, <2>1, <2>3 DEF HeldAreAdmitted, Held, HeldBy
  <1>5. LoopUndelivered /\ ShownSucceeds
    BY <1>3 DEF LoopUndelivered, ShownSucceeds, Threads
  <1>6. DeliveredInTime /\ Remembered /\ EndedBefore /\ OneRunOneSnapshot /\ AdmittedAsRequested
    BY <1>2 DEF DeliveredInTime, Remembered, EndedBefore, OneRunOneSnapshot, AdmittedAsRequested,
       Executes, Delivered
  <1>7. ActiveIsExact
    BY DEF Init, AdmissionInit, AdmissionEmpty, ActiveIsExact, Jobs, NoJob
  <1> QED BY <1>1, <1>4, <1>5, <1>6, <1>7 DEF Once

\* One run yields one saved snapshot, for any notebooks, runs and limits, any number of
\* submissions and restarts, and calls that raise at any point: once a job of a run is
\* shown as saved, no later job that the same server accepts for that run is delivered
\* within the dedupe TTL, however the submissions fall between a delivery, its rows and
\* the release of the slot.
THEOREM OneRunIsDeliveredOnce == Spec => []OneRunOneSnapshot
  <1>1. Init => Once
    BY OnceInit
  <1>2. Once /\ [Next]_vars /\ Orderly' /\ AdmittedAsRequested' /\ ActiveIsExact' => Once'
    <2> SUFFICES ASSUME Once, [Next]_vars, Orderly', AdmittedAsRequested', ActiveIsExact'
                 PROVE  Once'
      OBVIOUS
    <2> USE DEF Once
    <2>1. HeldAreAdmitted'
      BY HeldAreAdmittedStep
    <2>2. DeliveredInTime'
      BY DeliveredInTimeStep
    <2>3. LoopUndelivered'
      BY LoopUndeliveredStep
    <2>4. ShownSucceeds'
      BY ShownSucceedsStep
    <2>5. Remembered'
      BY RememberedStep
    <2>6. EndedBefore'
      BY EndedBeforeStep
    <2>7. OneRunOneSnapshot'
      BY <2>2, <2>6, OneRunStep
    <2> QED BY <2>1, <2>2, <2>3, <2>4, <2>5, <2>6, <2>7
  <1>3. Once => OneRunOneSnapshot
    BY DEF Once
  <1> QED BY <1>1, <1>2, <1>3, OrderlyInvariant, AdmittedInvariant, CoordinatorDedupes, PTL DEF Spec

----------------------------------------------------------------------------
(* Each row has one writer.                                                *)

\* Where an alias can be: in the event loop's hand, waiting for its original, or taken
\* by the worker that ends it.
InHand(a) == thread[Loop].job = a
Waits(a)  == \E k \in Jobs : \E i \in DOMAIN aliases[k] : aliases[k][i] = a
TakenBy(n, a) == \E i \in DOMAIN thread[n].todo : thread[n].todo[i] = a
Taken(a)  == \E n \in Notebooks : TakenBy(n, a)

AliasesApart ==
  \A a \in Jobs : /\ ~(InHand(a) /\ Waits(a))
                  /\ ~(InHand(a) /\ Taken(a))
                  /\ ~(Waits(a) /\ Taken(a))

\* The event loop ends no alias but the one it is submitting.
OwnAlias == \A i \in DOMAIN thread[Loop].todo : thread[Loop].todo[i] = thread[Loop].job

LEMMA AliasSteps ==
  ASSUME Shape, [Next]_vars
  PROVE  UNCHANGED aliases \/ AppendAlias \/ Crash \/ \E n \in Notebooks : PopAliases(n)
  <1>1. CASE Submit
    BY <1>1 DEF Submit, SubmitAccepted, SubmitCoalesced, SubmitRejected, serverVars
  <1>2. CASE \/ SaveQueued \/ Enqueue \/ UndoAdmission \/ SaveSubmitFailed \/ SaveAlias
             \/ ReadOriginal \/ SubmitDone \/ ClockTick \/ ShutDown \/ Start \/ UNCHANGED vars
    BY <1>2 DEF SaveQueued, Enqueue, UndoAdmission, SaveSubmitFailed, SaveAlias, ReadOriginal,
                SubmitDone, ClockTick, ShutDown, Start, vars, StoreOnly, serverVars
  <1>3. ASSUME NEW t,
               \/ ReadAlias(t) \/ SaveAliasRunning(t) \/ SaveAliasFinal(t) \/ TakeJob(t)
               \/ StopWorker(t) \/ MarkRunning(t) \/ Prepare(t) \/ Deliver(t)
               \/ RecordOutcome(t) \/ SaveFinal(t) \/ CompleteJob(t)
        PROVE  UNCHANGED aliases
    BY <1>3 DEF ReadAlias, SaveAliasRunning, SaveAliasFinal, TakeJob, StopWorker, MarkRunning,
                Prepare, Deliver, RecordOutcome, SaveFinal, CompleteJob, StoreOnly, serverVars
  <1> QED BY <1>1, <1>2, <1>3 DEF Next, SubmitStep, WorkerStep

\* How the list of aliases a thread has still to end changes.
LEMMA TodoSteps ==
  ASSUME Shape
  PROVE  /\ SubmitStep => \/ thread'[Loop].todo = <<>>
                          \/ \A i \in DOMAIN thread'[Loop].todo : thread'[Loop].todo[i] = thread[Loop].job
                          \/ \A i \in DOMAIN thread'[Loop].todo :
                               \E k \in DOMAIN thread[Loop].todo : thread'[Loop].todo[i] = thread[Loop].todo[k]
         /\ \A n \in Notebooks : WorkerStep(n) =>
              \/ PopAliases(n)
              \/ thread'[n].todo = <<>>
              \/ \A i \in DOMAIN thread'[n].todo :
                   \E k \in DOMAIN thread[n].todo : thread'[n].todo[i] = thread[n].todo[k]
  <1>0. /\ thread \in [Threads -> ThreadStates]
        /\ Loop \in Threads /\ Notebooks \subseteq Threads /\ Loop \notin Notebooks
    BY CoordinatorAssumption DEF Threads, Shape, TypeOK
  <1>1. ASSUME NEW t \in Threads, NEW pc, NEW final, Goto(t, pc) \/ Conclude(t, pc, final)
        PROVE  thread'[t].todo = thread[t].todo
    BY <1>0, <1>1 DEF Goto, Conclude, ThreadStates
  <1>2. ASSUME NEW t \in Threads, Return(t)
        PROVE  thread'[t].todo = <<>>
    BY <1>0, <1>2 DEF Return, Idle
  <1>3. ASSUME NEW t \in Threads, SaveAliasFinal(t)
        PROVE  \A i \in DOMAIN thread'[t].todo :
                 \E k \in DOMAIN thread[t].todo : thread'[t].todo[i] = thread[t].todo[k]
    <2>1. thread[t].todo \in Seq(Jobs) /\ thread[t].todo # <<>>
      BY <1>0, <1>3 DEF Shape, AliasInHand, SaveAliasFinal, At, ThreadStates
    <2>2. thread'[t].todo = Tail(thread[t].todo)
      BY <1>0, <1>3 DEF SaveAliasFinal, ThreadStates
    <2> QED BY <2>1, <2>2, TailElements
  <1>4. ASSUME NEW t \in Threads, ReadAlias(t) \/ SaveAliasRunning(t)
        PROVE  thread'[t].todo \in {<<>>, thread[t].todo}
    BY <1>1, <1>2, <1>4 DEF ReadAlias, SaveAliasRunning
  <1>5. ASSUME ReadOriginal
        PROVE  \/ thread'[Loop].todo = thread[Loop].todo
               \/ thread'[Loop].todo = <<thread[Loop].job>>
    <2>1. \/ \E pc : Goto(Loop, pc)
          \/ \E final : thread' = [thread EXCEPT ![Loop].pc = "aliases", ![Loop].final = final,
                                                ![Loop].todo = <<thread[Loop].job>>]
      BY <1>5 DEF ReadOriginal
    <2> QED BY <1>0, <1>1, <2>1 DEF ThreadStates
  <1>6. ASSUME SaveQueued \/ Enqueue \/ UndoAdmission \/ SaveSubmitFailed \/ SaveAlias \/ AppendAlias
                 \/ SubmitDone
        PROVE  thread'[Loop].todo \in {<<>>, thread[Loop].todo}
    BY <1>0, <1>1, <1>2, <1>6 DEF SaveQueued, Enqueue, UndoAdmission, SaveSubmitFailed, SaveAlias,
       AppendAlias, SubmitDone
  <1>7. ASSUME NEW n \in Notebooks,
               \/ StopWorker(n) \/ MarkRunning(n) \/ Prepare(n) \/ Deliver(n) \/ RecordOutcome(n)
               \/ SaveFinal(n) \/ CompleteJob(n)
        PROVE  thread'[n].todo \in {<<>>, thread[n].todo}
    BY <1>0, <1>1, <1>2, <1>7 DEF StopWorker, MarkRunning, Prepare, Deliver, RecordOutcome, SaveFinal,
       CompleteJob
  <1>8. ASSUME NEW n \in Notebooks, TakeJob(n)
        PROVE  thread'[n].todo = <<>>
    BY <1>0, <1>8 DEF TakeJob, Idle
  <1>9. ASSUME SubmitStep
        PROVE  \/ thread'[Loop].todo = <<>>
               \/ \A i \in DOMAIN thread'[Loop].todo : thread'[Loop].todo[i] = thread[Loop].job
               \/ \A i \in DOMAIN thread'[Loop].todo :
                    \E k \in DOMAIN thread[Loop].todo : thread'[Loop].todo[i] = thread[Loop].todo[k]
    <2>1. CASE SaveAliasFinal(Loop)
      BY <1>0, <1>3, <2>1
    <2>2. CASE thread'[Loop].todo = <<thread[Loop].job>>
      BY <2>2
    <2>3. CASE thread'[Loop].todo \in {<<>>, thread[Loop].todo}
      BY <2>3
    <2> QED BY <1>0, <1>4, <1>5, <1>6, <1>9, <2>1, <2>2, <2>3 DEF SubmitStep
  <1>10. ASSUME NEW n \in Notebooks, WorkerStep(n)
         PROVE  \/ PopAliases(n)
                \/ thread'[n].todo = <<>>
                \/ \A i \in DOMAIN thread'[n].todo :
                     \E k \in DOMAIN thread[n].todo : thread'[n].todo[i] = thread[n].todo[k]
    <2>1. CASE SaveAliasFinal(n)
      BY <1>0, <1>3, <2>1
    <2>2. CASE thread'[n].todo \in {<<>>, thread[n].todo}
      BY <2>2
    <2> QED BY <1>0, <1>4, <1>7, <1>8, <1>10, <2>1, <2>2 DEF WorkerStep
  <1> QED BY <1>9, <1>10

\* An alias begins to wait when the submission under way lets go of it ...
LEMMA WaitsStep ==
  ASSUME Orderly, [Next]_vars, NEW a \in Jobs, Waits(a)'
  PROVE  Waits(a) \/ (InHand(a) /\ thread'[Loop].job = NoJob)
  <1>0. /\ aliases \in [Jobs -> Seq(Jobs)] /\ thread \in [Threads -> ThreadStates]
        /\ Loop \in Threads /\ Shape
    BY DEF Threads, Orderly, Truthful, Shape, TypeOK
  <1>k. PICK k \in Jobs : \E i \in DOMAIN aliases'[k] : aliases'[k][i] = a
    BY DEF Waits
  <1>1. PICK i \in DOMAIN aliases'[k] : aliases'[k][i] = a
    BY <1>k
  <1>2. CASE aliases'[k] = aliases[k]
    BY <1>1, <1>2 DEF Waits
  <1>3. CASE AppendAlias
    <2>1. thread'[Loop].job = NoJob
      BY <1>0, <1>3 DEF AppendAlias, Return, Idle
    <2>2. PICK alias : alias = thread[Loop].job
      OBVIOUS
    <2>3. aliases'[k] = aliases[k] \/ aliases'[k] = Append(aliases[k], alias)
      BY <1>0, <1>3, <2>2 DEF AppendAlias
    <2>4. PICK long : long = aliases'[k]
      OBVIOUS
    <2>5. CASE long = Append(aliases[k], alias)
      <3>1. long[i] = alias \/ \E l \in DOMAIN aliases[k] : long[i] = aliases[k][l]
        BY <1>0, <1>1, <2>4, <2>5, AppendElements
      <3> QED BY <1>1, <2>1, <2>2, <2>4, <3>1 DEF Waits, InHand
    <2> QED BY <1>1, <1>2, <2>3, <2>4, <2>5
  <1>4. ASSUME Crash \/ \E n \in Notebooks : PopAliases(n)
        PROVE  aliases'[k] = aliases[k]
    <2>1. aliases'[k] = <<>> \/ aliases'[k] = aliases[k]
      BY <1>0, <1>4 DEF Crash, PopAliases
    <2> QED BY <1>1, <2>1, EmptyDomain
  <1> QED BY <1>0, <1>2, <1>3, <1>4, AliasSteps

\* ... and it is taken out of the waiting list of its original, which is then empty.
LEMMA TakenStep ==
  ASSUME Orderly, [Next]_vars, NEW a \in Jobs, Taken(a)'
  PROVE  Taken(a) \/ (Waits(a) /\ ~Waits(a)')
  <1>0. /\ aliases \in [Jobs -> Seq(Jobs)] /\ thread \in [Threads -> ThreadStates]
        /\ Loop \in Threads /\ Loop \notin Notebooks /\ Notebooks \subseteq Threads /\ Shape
    BY CoordinatorAssumption DEF Threads, Orderly, Truthful, Shape, TypeOK
  <1>n. PICK n \in Notebooks : \E i \in DOMAIN thread'[n].todo : thread'[n].todo[i] = a
    BY DEF Taken, TakenBy
  <1>1. PICK i \in DOMAIN thread'[n].todo : thread'[n].todo[i] = a
    BY <1>n
  <1>2. CASE \E k \in DOMAIN thread[n].todo : thread'[n].todo[i] = thread[n].todo[k]
    BY <1>1, <1>2 DEF Taken, TakenBy
  <1>3. thread'[n].todo # <<>>
    <2>1. ASSUME NEW todo, todo = thread'[n].todo, todo = <<>> PROVE FALSE
      BY <1>1, <2>1, EmptyDomain
    <2> QED BY <2>1
  <1>4. CASE PopAliases(n)
    <2>1. PICK job : job = thread[n].job
      OBVIOUS
    <2>2. job \in Jobs
      BY <1>0, <1>4, <2>1 DEF PopAliases, At, Shape, JobInHand
    <2>3. thread'[n].todo = aliases[job]
      BY <1>0, <1>4, <2>1 DEF PopAliases, ThreadStates
    <2>4. Waits(a)
      BY <1>1, <2>2, <2>3 DEF Waits
    <2>5. coalescedInto[a] = job
      BY <1>1, <2>2, <2>3 DEF Orderly, Truthful, WaitingAnswer, Coalesced
    <2>6. aliases'[job] = <<>> /\ \A k \in Jobs \ {job} : aliases'[k] = aliases[k]
      BY <1>0, <1>4, <2>1, <2>2 DEF PopAliases
    <2>7. ASSUME NEW k \in Jobs, NEW l \in DOMAIN aliases'[k], aliases'[k][l] = a
          PROVE  FALSE
      <3>1. k # job
        BY <2>6, <2>7, EmptyDomain
      <3>2. coalescedInto[a] = k
        BY <2>6, <2>7, <3>1 DEF Orderly, Truthful, WaitingAnswer, Coalesced
      <3> QED BY <2>5, <3>1, <3>2
    <2> QED BY <2>4, <2>7 DEF Waits
  <1>5. CASE thread'[n] = thread[n]
    BY <1>1, <1>5 DEF Taken, TakenBy
  <1>6. ASSUME WorkerStep(n)
        PROVE  PopAliases(n) \/ \E k \in DOMAIN thread[n].todo : thread'[n].todo[i] = thread[n].todo[k]
    BY <1>0, <1>1, <1>3, <1>6, TodoSteps
  <1>7. ASSUME NEW m \in Notebooks, WorkerStep(m), m # n
        PROVE  thread'[n] = thread[n]
    BY <1>0, <1>7, WorkerActs DEF Acts
  <1>8. CASE SubmitStep
    BY <1>0, <1>5, <1>8, LoopActs DEF Acts
  <1>9. ASSUME NEW info \in JobInfo, SubmitAccepted(info) \/ SubmitCoalesced(info)
        PROVE  thread'[n] = thread[n]
    BY <1>0, <1>9, SubmitFacts
  <1>10. CASE Crash
    BY <1>0, <1>3, <1>10 DEF Crash, Idle
  <1>11. CASE UNCHANGED thread \/ Start
    BY <1>5, <1>11 DEF Start
  <1> QED BY <1>0, <1>2, <1>4, <1>5, <1>6, <1>7, <1>8, <1>9, <1>10, <1>11, QuietSteps

\* Only a submission puts a job into the event loop's hand, and the job is new.
LEMMA InHandStep ==
  ASSUME Orderly, [Next]_vars, NEW a \in Jobs, InHand(a)'
  PROVE  InHand(a) \/ ~(Drawn(a) \/ Waits(a) \/ Waits(a)' \/ Taken(a) \/ Taken(a)')
  <1>0. /\ thread \in [Threads -> ThreadStates] /\ a # NoJob /\ Shape
        /\ Loop \in Threads /\ Loop \notin Notebooks /\ Notebooks \subseteq Threads
    BY CoordinatorAssumption DEF Threads, Orderly, Truthful, Shape, TypeOK, Jobs, NoJob
  <1>1. ASSUME NEW info \in JobInfo, SubmitAccepted(info) \/ SubmitCoalesced(info)
        PROVE  ~(Drawn(a) \/ Waits(a) \/ Waits(a)' \/ Taken(a) \/ Taken(a)')
    <2>1. PICK new : new = NextJob
      OBVIOUS
    <2>2. /\ thread'[Loop].job = new /\ ~Drawn(new) /\ UNCHANGED aliases
          /\ \A t \in Threads \ {Loop} : thread'[t] = thread[t]
      BY <1>1, <2>1, SubmitFacts
    <2>3. ~Drawn(a)
      BY <2>2 DEF InHand
    <2>4. ~Waits(a)
      BY <2>3 DEF Waits, Orderly, Truthful, WaitingAnswer, Coalesced, Answers
    <2>5. ~Taken(a)
      BY <1>0, <2>3 DEF Taken, TakenBy, Orderly, Truthful, AllSincere, Sincere, Coalesced, Answers
    <2>6. ~Waits(a)' /\ ~Taken(a)'
      BY <1>0, <2>2, <2>4, <2>5 DEF Waits, Taken, TakenBy
    <2> QED BY <2>3, <2>4, <2>5, <2>6
  <1>2. SubmitStep => InHand(a)
    BY <1>0, HandSteps DEF InHand
  <1>3. ASSUME NEW n \in Notebooks, WorkerStep(n)
        PROVE  InHand(a)
    BY <1>0, <1>3, WorkerActs DEF Acts, InHand
  <1>4. ~Crash
    BY <1>0 DEF Crash, Idle, InHand
  <1>5. UNCHANGED thread \/ Start => InHand(a)
    BY DEF Start, InHand
  <1> QED BY <1>0, <1>1, <1>2, <1>3, <1>4, <1>5, QuietSteps

LEMMA AliasesApartStep ==
  ASSUME Orderly, AliasesApart, [Next]_vars
  PROVE  AliasesApart'
  <1> SUFFICES ASSUME NEW a \in Jobs
               PROVE  /\ ~(InHand(a)' /\ Waits(a)')
                      /\ ~(InHand(a)' /\ Taken(a)')
                      /\ ~(Waits(a)' /\ Taken(a)')
    BY DEF AliasesApart
  <1>1. a # NoJob
    BY DEF Jobs, NoJob
  <1>2. InHand(a)' => thread'[Loop].job = a
    BY DEF InHand
  <1>3. /\ ~(InHand(a) /\ Waits(a))
        /\ ~(InHand(a) /\ Taken(a))
        /\ ~(Waits(a) /\ Taken(a))
    BY DEF AliasesApart
  <1> QED BY <1>1, <1>2, <1>3, WaitsStep, TakenStep, InHandStep

LEMMA OwnAliasStep ==
  ASSUME Orderly, OwnAlias, [Next]_vars
  PROVE  OwnAlias'
  <1> SUFFICES ASSUME NEW i \in DOMAIN thread'[Loop].todo
               PROVE  thread'[Loop].todo[i] = thread'[Loop].job
    BY DEF OwnAlias
  <1>0. /\ thread \in [Threads -> ThreadStates] /\ Shape
        /\ Loop \in Threads /\ Loop \notin Notebooks /\ Notebooks \subseteq Threads
    BY CoordinatorAssumption DEF Threads, Orderly, Truthful, Shape, TypeOK
  <1>1. thread'[Loop].todo # <<>>
    <2>1. ASSUME NEW todo, todo = thread'[Loop].todo, todo = <<>> PROVE FALSE
      BY <2>1, EmptyDomain
    <2> QED BY <2>1
  <1>2. CASE SubmitStep
    <2>1. thread'[Loop].todo[i] = thread[Loop].job
      BY <1>1, <1>2, <1>0, TodoSteps DEF OwnAlias
    <2>2. thread'[Loop].job = thread[Loop].job
      <3>1. ASSUME Return(Loop) PROVE FALSE
        BY <1>0, <1>1, <3>1 DEF Return, Idle
      <3>2. ASSUME NEW pc, Goto(Loop, pc) PROVE thread'[Loop].job = thread[Loop].job
        BY <1>0, <3>2 DEF Goto, ThreadStates
      <3>3. CASE SaveQueued \/ Enqueue \/ UndoAdmission \/ SaveSubmitFailed \/ SaveAlias \/ AppendAlias
                   \/ SubmitDone \/ ReadAlias(Loop) \/ SaveAliasRunning(Loop)
        BY <3>1, <3>2, <3>3 DEF SaveQueued, Enqueue, UndoAdmission, SaveSubmitFailed, SaveAlias,
           AppendAlias, SubmitDone, ReadAlias, SaveAliasRunning
      <3>4. CASE ReadOriginal
        <4> DEFINE ended == [thread EXCEPT ![Loop].pc = "aliases",
                                           ![Loop].final = row[coalescedInto[thread[Loop].job]],
                                           ![Loop].todo = <<thread[Loop].job>>]
        <4>1. ended[Loop].job = thread[Loop].job
          BY <1>0 DEF ThreadStates
        <4>2. thread' = ended \/ Goto(Loop, "append") \/ Goto(Loop, "save failed")
          BY <3>4, Zenon DEF ReadOriginal
        <4> HIDE DEF ended
        <4> QED BY <3>2, <4>1, <4>2
      <3>5. CASE SaveAliasFinal(Loop)
        BY <1>0, <3>5 DEF SaveAliasFinal, ThreadStates
      <3> QED BY <1>2, <3>3, <3>4, <3>5 DEF SubmitStep
    <2> QED BY <2>1, <2>2
  <1>3. CASE thread'[Loop] = thread[Loop]
    BY <1>3 DEF OwnAlias
  <1>4. ASSUME NEW n \in Notebooks, WorkerStep(n)
        PROVE  thread'[Loop] = thread[Loop]
    BY <1>0, <1>4, WorkerActs DEF Acts
  <1>5. ASSUME NEW info \in JobInfo, SubmitAccepted(info) \/ SubmitCoalesced(info)
        PROVE  FALSE
    BY <1>1, <1>5, SubmitFacts
  <1>6. ~Crash
    BY <1>0, <1>1 DEF Crash, Idle
  <1>7. UNCHANGED thread \/ Start => thread'[Loop] = thread[Loop]
    BY DEF Start
  <1> QED BY <1>0, <1>2, <1>3, <1>4, <1>5, <1>6, <1>7, QuietSteps

Apart == Orderly /\ AliasesApart /\ OwnAlias

LEMMA ApartInvariant == Spec => []Apart
  <1>1. Init => Apart
    <2> SUFFICES ASSUME Init PROVE Apart
      OBVIOUS
    <2>1. Orderly
      BY OrderlyInit
    <2>2. /\ \A j \in Jobs : DOMAIN aliases[j] = {}
          /\ \A t \in Threads : thread[t].job = NoJob /\ DOMAIN thread[t].todo = {}
      BY EmptyDomain DEF Init, Idle
    <2>3. Loop \in Threads /\ Notebooks \subseteq Threads /\ \A j \in Jobs : j # NoJob
      BY DEF Threads, Jobs, NoJob
    <2>4. AliasesApart /\ OwnAlias
      BY <2>2, <2>3 DEF AliasesApart, OwnAlias, InHand, Waits, Taken, TakenBy
    <2> QED BY <2>1, <2>4 DEF Apart
  <1>2. Apart /\ [Next]_vars /\ Orderly' => Apart'
    BY AliasesApartStep, OwnAliasStep DEF Apart
  <1> QED BY <1>1, <1>2, OrderlyInvariant, PTL DEF Spec

LEMMA AtMostOne ==
  ASSUME NEW S, \A x, y \in S : x = y
  PROVE  IF S = {} THEN Cardinality(S) = 0 ELSE Cardinality(S) = 1
  <1>1. CASE S = {}
    BY <1>1, FS_EmptySet
  <1>2. CASE S # {}
    <2>1. PICK x \in S : TRUE
      BY <1>2
    <2>2. S = {x}
      BY <2>1
    <2>3. Cardinality({x}) = 1
      BY FS_Singleton
    <2> QED BY <1>2, <2>2, <2>3
  <1> QED BY <1>1, <1>2

\* Where a job is that somebody writes, and what that says of it.
LEMMA Places ==
  ASSUME Apart, NEW j \in Jobs
  PROVE  /\ \A n \in Notebooks : j \in Queued(n) =>
              /\ NotebookOf(j) = n /\ coalescedInto[j] = NoJob
              /\ \A t \in Threads : thread[t].job # j
         /\ \A k \in Jobs : j \in Waiting(k) => coalescedInto[j] = k /\ Waits(j)
         /\ j \in Writes(Loop) => InHand(j)
         /\ \A n \in Notebooks : j \in Writes(n) =>
              \/ thread[n].job = j /\ coalescedInto[j] = NoJob
              \/ Taken(j) /\ coalescedInto[j] = thread[n].job /\ thread[n].job \in Jobs
  <1>0. /\ Loop \in Threads /\ Loop \notin Notebooks /\ Notebooks \subseteq Threads /\ j # NoJob
        /\ Orderly /\ Truthful /\ Shape
    BY CoordinatorAssumption DEF Threads, Apart, Orderly, Truthful, Jobs, NoJob
  <1>1. ASSUME NEW n \in Notebooks, j \in Queued(n)
        PROVE  /\ NotebookOf(j) = n /\ coalescedInto[j] = NoJob
               /\ \A t \in Threads : thread[t].job # j
    <2>1. PICK i \in DOMAIN queue[n] : queue[n][i] = j
      BY <1>1 DEF Queued, ToSet
    <2>2. Answers(j, j)
      BY <1>0, <2>1 DEF Truthful, QueuedAnswer
    <2> QED BY <1>0, <2>1, <2>2 DEF Orderly, QueuedApart, Answers
  <1>2. ASSUME NEW k \in Jobs, j \in Waiting(k)
        PROVE  coalescedInto[j] = k /\ Waits(j)
    <2>1. PICK i \in DOMAIN aliases[k] : aliases[k][i] = j
      BY <1>2 DEF Waiting, ToSet
    <2> QED BY <1>0, <2>1 DEF Truthful, WaitingAnswer, Coalesced, Waits
  <1>3. ASSUME NEW t \in Threads, j \in Writes(t)
        PROVE  thread[t].job = j \/ \E i \in DOMAIN thread[t].todo : thread[t].todo[i] = j
    BY <1>3 DEF Writes, ToSet
  <1>4. ASSUME j \in Writes(Loop)
        PROVE  InHand(j)
    BY <1>0, <1>3, <1>4 DEF Apart, OwnAlias, InHand
  <1>5. ASSUME NEW n \in Notebooks, j \in Writes(n)
        PROVE  \/ thread[n].job = j /\ coalescedInto[j] = NoJob
               \/ Taken(j) /\ coalescedInto[j] = thread[n].job /\ thread[n].job \in Jobs
    <2>1. CASE thread[n].job = j
      BY <1>0, <2>1, HandFacts
    <2>2. ASSUME NEW i \in DOMAIN thread[n].todo, thread[n].todo[i] = j
          PROVE  Taken(j) /\ coalescedInto[j] = thread[n].job /\ thread[n].job \in Jobs
      <3>1. PICK o \in Jobs : Answers(thread[n].job, o) /\ Coalesced(j, o)
        BY <1>0, <2>2 DEF Truthful, AllSincere, Sincere
      <3>2. thread[n].job \in Jobs /\ thread[n].job # NoJob
        BY <3>1 DEF Answers, Jobs, NoJob
      <3>3. Answers(thread[n].job, thread[n].job)
        BY <1>0, <3>2 DEF Truthful, AllSincere, Sincere
      <3> QED BY <2>2, <3>1, <3>2, <3>3 DEF Answers, Coalesced, Taken, TakenBy
    <2> QED BY <1>0, <1>3, <1>5, <2>1, <2>2
  <1> QED BY <1>1, <1>2, <1>4, <1>5

\* Each row has one writer at a time: for any number of notebooks and submissions, any
\* interleaving, any call that raises and any number of restarts, a job is in at most one
\* of the queues, the waiting lists and the threads that will write its row.  That is
\* what makes the read and the write of SqliteActivityStore.save one step.
THEOREM RowsHaveOneWriter == Spec => []SoleWriter
  <1>1. ASSUME Apart, NEW j \in Jobs
        PROVE  Cardinality({n \in Notebooks : j \in Queued(n)})
                 + Cardinality({k \in Jobs : j \in Waiting(k)})
                 + Cardinality({t \in Threads : j \in Writes(t)}) <= 1
    <2> DEFINE Queues  == {n \in Notebooks : j \in Queued(n)}
               Lists   == {k \in Jobs : j \in Waiting(k)}
               Writers == {t \in Threads : j \in Writes(t)}
    <2>0. /\ Loop \in Threads /\ Loop \notin Notebooks /\ Notebooks \subseteq Threads /\ j # NoJob
          /\ \A t \in Threads : t = Loop \/ t \in Notebooks
          /\ \A k \in Jobs : k # NoJob
          /\ Orderly
      BY <1>1, CoordinatorAssumption DEF Threads, Apart, Jobs, NoJob
    <2>1. \A n, m \in Queues : n = m
      BY <1>1, Places
    <2>2. \A k, l \in Lists : k = l
      BY <1>1, Places
    <2>3. ASSUME NEW t \in Writers, NEW u \in Writers, t # u
          PROVE  FALSE
      <3>1. ASSUME NEW n \in Notebooks, j \in Writes(n), j \in Writes(Loop)
            PROVE  FALSE
        <4>1. InHand(j) /\ ~Taken(j)
          BY <1>1, <3>1, Places DEF Apart, AliasesApart
        <4>2. thread[n].job # j
          BY <2>0, <4>1, JobsApart DEF InHand
        <4> QED BY <1>1, <3>1, <4>1, <4>2, Places
      <3>2. ASSUME NEW n \in Notebooks, NEW m \in Notebooks, n # m, j \in Writes(n), j \in Writes(m)
            PROVE  FALSE
        <4>1. thread[n].job # NoJob => thread[n].job # thread[m].job
          BY <2>0, <3>2, JobsApart
        <4> QED BY <1>1, <2>0, <3>2, <4>1, Places
      <3> QED BY <2>0, <2>3, <3>1, <3>2
    <2>4. Queues = {} \/ Lists = {}
      BY <1>1, <2>0, Places
    <2>5. Queues = {} \/ Writers = {}
      <3>1. ASSUME NEW n \in Notebooks, j \in Queued(n), NEW t \in Threads, j \in Writes(t)
            PROVE  FALSE
        BY <1>1, <2>0, <3>1, Places DEF InHand
      <3> QED BY <3>1
    <2>6. Lists = {} \/ Writers = {}
      <3>1. ASSUME NEW k \in Jobs, j \in Waiting(k), NEW t \in Threads, j \in Writes(t)
            PROVE  FALSE
        <4>1. coalescedInto[j] = k /\ ~InHand(j) /\ ~Taken(j)
          BY <1>1, <3>1, Places DEF Apart, AliasesApart
        <4> QED BY <1>1, <2>0, <3>1, <4>1, Places
      <3> QED BY <3>1
    <2>7. /\ IF Queues = {} THEN Cardinality(Queues) = 0 ELSE Cardinality(Queues) = 1
          /\ IF Lists = {} THEN Cardinality(Lists) = 0 ELSE Cardinality(Lists) = 1
          /\ IF Writers = {} THEN Cardinality(Writers) = 0 ELSE Cardinality(Writers) = 1
      <3> HIDE DEF Queues, Lists, Writers
      <3> QED BY <2>1, <2>2, <2>3, AtMostOne
    <2> HIDE DEF Queues, Lists, Writers
    <2>8. Cardinality(Queues) + Cardinality(Lists) + Cardinality(Writers) <= 1
      BY <2>4, <2>5, <2>6, <2>7
    <2> QED BY <2>8 DEF Queues, Lists, Writers
  <1>2. Apart => SoleWriter
    BY <1>1 DEF SoleWriter
  <1> QED BY <1>2, ApartInvariant, PTL

----------------------------------------------------------------------------
(* What is in flight is owned, if the store's reads and saves succeed.     *)

Ends == {"persisted", "failed"}

\* How far a worker is with its job, and how far the job's row then is.
WorkerAdvanced(s) ==
  /\ s.pc \in WorkerLocations \union AliasLocations
  /\ s.pc \in {"record", "save final", "pop aliases"} \union AliasLocations => s.final \in Ends
  /\ s.pc = "record" => row[s.job] = "running"
  /\ s.pc = "save final" =>
       row[s.job] = s.final \/ (row[s.job] \in InflightStates /\ s.final = "failed")
  /\ s.pc \in {"pop aliases"} \union AliasLocations => row[s.job] = s.final

\* The same of the event loop, which ends an alias as the original it has read about.
LoopAdvanced(s) ==
  /\ s.pc \in LoopLocations \union AliasLocations
  /\ s.pc \in {"undo", "save failed"} => coalescedInto[s.job] = NoJob
  /\ s.pc \in {"save alias", "register"} => row[coalescedInto[s.job]] # NoRow
  /\ s.pc \in AliasLocations =>
       /\ s.final \in Ends /\ coalescedInto[s.job] \in Jobs
       /\ row[coalescedInto[s.job]] = s.final

\* An alias about to be given its end is not queued any more.
AliasBegun(s) == s.pc = "alias final" => row[Head(s.todo)] \notin {NoRow, "queued"}

Advancing ==
  /\ \A n \in Notebooks : WorkerAdvanced(thread[n])
  /\ LoopAdvanced(thread[Loop])
  /\ \A t \in Threads : AliasBegun(thread[t])

\* What is active has a row, once its own submission has saved it.
ActiveRecorded ==
  \A f \in Fingerprints : active[f] # NoJob =>
    row[active[f]] # NoRow \/ (At(Loop, "save queued") /\ InHand(active[f]))

\* InflightOwned and AliasAgrees without their condition.  The lemmas below keep them in
\* a step in which no save and no read raises.
AllOwned == up => \A j \in Jobs : row[j] \in InflightStates => j \in Owned
AllAgree ==
  \A j \in Jobs :
    coalescedInto[j] # NoJob /\ row[j] \in Ends => row[coalescedInto[j]] = row[j]

\* Rows go forwards: an end is for good, and nothing is queued again.
LEMMA RowFate ==
  ASSUME Shape, [Next]_vars, NEW j \in Jobs
  PROVE  /\ row[j] \in TerminalStates => row'[j] = row[j]
         /\ row[j] \notin {NoRow, "queued"} => row'[j] \notin {NoRow, "queued"}
         /\ row[j] # NoRow => row'[j] # NoRow
  <1>0. row \in [Jobs -> RowStates]
    BY DEF Shape, TypeOK
  <1>1. row[j] \in RowStates
    BY <1>0
  <1>2. CASE row' = Abandoned(row)
    BY <1>0, <1>1, <1>2 DEF Abandoned, RowStates, JobStates, InflightStates, TerminalStates, NoRow
  <1>3. ASSUME NEW t \in Threads, Wrote(t)
        PROVE  row'[j] = row[j] \/ row[j] = NoRow \/ row'[j] \in AllowedTransitions[row[j]]
    <2>1. PICK job, state : job \in Jobs /\ row' = Saved(row, job, state)
      BY <1>3 DEF Wrote
    <2> QED BY <1>0, <2>1, SavedRows
  <1>4. CASE row'[j] = row[j] \/ row[j] = NoRow \/ row'[j] \in AllowedTransitions[row[j]]
    BY <1>1, <1>4 DEF AllowedTransitions, RowStates, JobStates, InflightStates, TerminalStates, NoRow
  <1> QED BY <1>2, <1>3, <1>4, RowSteps

\* A save that does not raise ends a job in flight, and begins a queued one.
LEMMA SavedTo ==
  ASSUME row \in [Jobs -> RowStates], NEW job \in Jobs, NEW state, row' = Saved(row, job, state)
  PROVE  /\ \A j \in Jobs \ {job} : row'[j] = row[j]
         /\ row[job] \in {NoRow, state} => row'[job] = state
         /\ row[job] \in InflightStates /\ state = "failed" => row'[job] = state
         /\ row[job] = "running" /\ state \in Ends => row'[job] = state
         /\ row[job] = "queued" /\ state = "running" => row'[job] = state
         /\ row[job] \in TerminalStates => row'[job] = row[job]
  BY DEF Saved, CanTransition, AllowedTransitions, JobStates, InflightStates, TerminalStates, Ends, NoRow

\* The head of what a thread has still to record is a job that has a row.
LEMMA HeadOfTodo ==
  ASSUME Orderly, NEW t \in Threads, thread[t].todo # <<>>
  PROVE  /\ Head(thread[t].todo) \in Jobs /\ row[Head(thread[t].todo)] \in JobStates
         /\ coalescedInto[Head(thread[t].todo)] = Original(thread[t].job)
         /\ Original(thread[t].job) \in Jobs
  <1>1. thread[t].todo \in Seq(Jobs) /\ row \in [Jobs -> RowStates]
    BY DEF Orderly, Truthful, Shape, TypeOK, ThreadStates
  <1>2. 1 \in DOMAIN thread[t].todo /\ Head(thread[t].todo) = thread[t].todo[1]
    BY <1>1, TailElements
  <1>3. PICK head : head = thread[t].todo[1]
    OBVIOUS
  <1>4. row[head] # NoRow
    BY <1>2, <1>3 DEF Orderly, AllPlaced, Placed
  <1>5. PICK o \in Jobs : Answers(thread[t].job, o) /\ Coalesced(head, o)
    BY <1>2, <1>3 DEF Orderly, Truthful, AllSincere, Sincere
  <1>6. head \in Jobs /\ coalescedInto[head] = o /\ Original(thread[t].job) = o
    BY <1>5 DEF Coalesced, Answers
  <1>7. row[head] \in JobStates
    BY <1>1, <1>4, <1>6 DEF RowStates
  <1> QED BY <1>2, <1>3, <1>6, <1>7

\* Other threads' steps do not set a thread back.
LEMMA OthersAdvanced ==
  ASSUME Orderly, Advancing, [Next]_vars, NEW u \in Threads, Acts(u), NEW t \in Threads, t # u
  PROVE  /\ t # Loop => WorkerAdvanced(thread[t])'
         /\ t = Loop => LoopAdvanced(thread[t])'
         /\ AliasBegun(thread[t])'
  <1>1. PICK s : s = thread[t]
    OBVIOUS
  <1>2. /\ thread'[t] = s /\ UNCHANGED coalescedInto /\ Shape
        /\ row \in [Jobs -> RowStates] /\ s.todo \in Seq(Jobs)
    BY <1>1 DEF Acts, Orderly, Truthful, Shape, TypeOK, ThreadStates
  <1>3. /\ s.pc \notin {"idle", "stopped"} => s.job \in Jobs /\ s.job # NoJob /\ s.job # thread[u].job
        /\ t # Loop /\ s.job # NoJob => coalescedInto[s.job] = NoJob
    BY <1>1, HandFacts, JobsApart DEF Orderly
  <1>4. t # Loop /\ s.pc \notin {"idle", "stopped"} => row'[s.job] = row[s.job]
    BY <1>3, OthersKept
  <1>5. AliasBegun(s)'
    <2>1. ASSUME s.pc = "alias final" PROVE row'[Head(s.todo)] \notin {NoRow, "queued"}
      <3>1. thread[t].todo # <<>>
        BY <1>1, <2>1 DEF Orderly, Truthful, Shape, AliasInHand
      <3>2. PICK head : head = Head(s.todo)
        OBVIOUS
      <3>3. head \in Jobs
        BY <1>1, <3>1, <3>2, HeadOfTodo
      <3>4. row[head] \notin {NoRow, "queued"}
        BY <1>1, <2>1, <3>2 DEF Advancing, AliasBegun
      <3>5. row'[head] \notin {NoRow, "queued"}
        BY <1>2, <3>3, <3>4, RowFate
      <3> QED BY <3>2, <3>5
    <2> QED BY <2>1 DEF AliasBegun
  <1>6. CASE t # Loop
    <2>1. WorkerAdvanced(s)
      BY <1>1, <1>6 DEF Advancing, Threads
    <2>2. WorkerAdvanced(s)'
      BY <1>4, <1>6, <2>1 DEF WorkerAdvanced, AliasLocations
    <2> QED BY <1>2, <1>5, <1>6, <2>2 DEF WorkerAdvanced, AliasBegun
  <1>7. CASE t = Loop
    <2>1. LoopAdvanced(s)
      BY <1>1, <1>7 DEF Advancing
    <2>3. ASSUME s.pc \in {"save alias", "register"}
          PROVE  row'[coalescedInto[s.job]] # NoRow
      <3>1. Answers(s.job, coalescedInto[s.job])
        BY <1>1, <1>7, <2>3 DEF Orderly, Truthful, AllSincere, Sincere
      <3>2. coalescedInto[s.job] \in Jobs /\ row[coalescedInto[s.job]] # NoRow
        BY <2>1, <2>3, <3>1 DEF LoopAdvanced, Answers
      <3>3. PICK o : o = coalescedInto[s.job]
        OBVIOUS
      <3> QED BY <1>2, <3>2, <3>3, RowFate
    <2>4. ASSUME s.pc \in AliasLocations
          PROVE  row'[coalescedInto[s.job]] = s.final
      <3>1. s.final \in TerminalStates /\ coalescedInto[s.job] \in Jobs /\ row[coalescedInto[s.job]] = s.final
        BY <2>1, <2>4 DEF LoopAdvanced, Ends, TerminalStates
      <3>2. PICK o : o = coalescedInto[s.job]
        OBVIOUS
      <3> QED BY <1>2, <3>1, <3>2, RowFate
    <2>5. LoopAdvanced(s)'
      BY <1>2, <2>1, <2>3, <2>4 DEF LoopAdvanced
    <2> QED BY <1>2, <1>5, <1>7, <2>5 DEF LoopAdvanced, AliasBegun
  <1> QED BY <1>6, <1>7

\* What the steps of a thread leave it with.
LEMMA ThreadGoes ==
  ASSUME Shape, NEW t \in Threads
  PROVE  /\ \A pc : Goto(t, pc) =>
              /\ thread'[t].pc = pc /\ thread'[t].job = thread[t].job
              /\ thread'[t].final = thread[t].final /\ thread'[t].todo = thread[t].todo
         /\ \A pc, final : Conclude(t, pc, final) =>
              /\ thread'[t].pc = pc /\ thread'[t].job = thread[t].job
              /\ thread'[t].final = final /\ thread'[t].todo = thread[t].todo
         /\ Return(t) => thread'[t].pc = "idle"
  <1>0. thread \in [Threads -> ThreadStates]
    BY DEF Shape, TypeOK
  <1>1. ASSUME NEW pc, Goto(t, pc)
        PROVE  /\ thread'[t].pc = pc /\ thread'[t].job = thread[t].job
               /\ thread'[t].final = thread[t].final /\ thread'[t].todo = thread[t].todo
    BY <1>0, <1>1 DEF Goto, ThreadStates
  <1>2. ASSUME NEW pc, NEW final, Conclude(t, pc, final)
        PROVE  /\ thread'[t].pc = pc /\ thread'[t].job = thread[t].job
               /\ thread'[t].final = final /\ thread'[t].todo = thread[t].todo
    BY <1>0, <1>2 DEF Conclude, ThreadStates
  <1>3. Return(t) => thread'[t].pc = "idle"
    BY <1>0 DEF Return, Idle
  <1> QED BY <1>1, <1>2, <1>3

\* Recording an alias changes neither the job nor its outcome.
LEMMA AliasAdvances ==
  ASSUME ~Raises("save"), ~Raises("get"), Orderly, Advancing,
         NEW t \in Threads, ReadAlias(t) \/ SaveAliasRunning(t) \/ SaveAliasFinal(t)
  PROVE  /\ thread[t].pc \in AliasLocations /\ thread'[t].pc \in AliasLocations
         /\ thread'[t].job = thread[t].job /\ thread'[t].final = thread[t].final
         /\ AliasBegun(thread[t])'
  <1>0. thread \in [Threads -> ThreadStates] /\ row \in [Jobs -> RowStates]
    BY DEF Orderly, Truthful, Shape, TypeOK
  <1>1. CASE ReadAlias(t)
    <2>1. Goto(t, "alias running") /\ thread[t].pc = "aliases"
      BY <1>1 DEF ReadAlias, Raises, At
    <2> QED BY <1>0, <2>1 DEF Goto, ThreadStates, AliasLocations, AliasBegun
  <1>2. CASE SaveAliasRunning(t)
    <2>1. Goto(t, "alias final") /\ thread[t].pc = "alias running"
      BY <1>2 DEF SaveAliasRunning, At
    <2>2. PICK head : head = Head(thread[t].todo)
      OBVIOUS
    <2>3. thread[t].todo # <<>>
      BY <2>1 DEF Orderly, Truthful, Shape, AliasInHand
    <2>4. head \in Jobs /\ row[head] \in JobStates
      BY <2>2, <2>3, HeadOfTodo
    <2>5. row' = Saved(row, head, "running")
      BY <1>2, <2>2 DEF SaveAliasRunning, SaveBestEffort, Save, Raises
    <2>6. row'[head] \notin {NoRow, "queued"}
      BY <1>0, <2>4, <2>5, SavedTo DEF JobStates, InflightStates, TerminalStates, NoRow
    <2>7. /\ thread'[t].pc = "alias final" /\ thread'[t].job = thread[t].job
          /\ thread'[t].final = thread[t].final /\ thread'[t].todo = thread[t].todo
      BY <1>0, <2>1 DEF Goto, ThreadStates
    <2> QED BY <2>1, <2>2, <2>6, <2>7 DEF AliasLocations, AliasBegun
  <1>3. CASE SaveAliasFinal(t)
    <2>1. /\ thread[t].pc = "alias final" /\ thread'[t].pc = "aliases"
          /\ thread'[t].job = thread[t].job /\ thread'[t].final = thread[t].final
      BY <1>0, <1>3 DEF SaveAliasFinal, At, ThreadStates
    <2> QED BY <2>1 DEF AliasLocations, AliasBegun
  <1> QED BY <1>1, <1>2, <1>3

\* A worker goes forward with its job.
LEMMA WorkerAdvances ==
  ASSUME ~Raises("save"), ~Raises("get"), Orderly, Advancing,
         NEW n \in Notebooks, WorkerStep(n)
  PROVE  WorkerAdvanced(thread[n])' /\ AliasBegun(thread[n])'
  <1>0. /\ thread \in [Threads -> ThreadStates] /\ row \in [Jobs -> RowStates]
        /\ n \in Threads /\ Orderly /\ Shape /\ [Next]_vars
    BY DEF Threads, Orderly, Truthful, Shape, TypeOK, Next
  <1>1. PICK s : s = thread[n]
    OBVIOUS
  <1>2. PICK next : next = thread'[n]
    OBVIOUS
  <1>3. /\ WorkerAdvanced(s) /\ PlacedAt(s.pc, s.job)
        /\ s.pc \notin {"idle", "stopped"} => s.job \in Jobs
    BY <1>0, <1>1, HandFacts DEF Advancing, Orderly, AllPlaced, Placed
  <1>4. ASSUME next.pc \in {"idle", "stopped", "begin", "prepare", "deliver"}
        PROVE  WorkerAdvanced(next)' /\ AliasBegun(next)'
    BY <1>4 DEF WorkerAdvanced, AliasBegun, WorkerLocations, AliasLocations
  <1>5. ASSUME TakeJob(n) \/ StopWorker(n) \/ MarkRunning(n) \/ CompleteJob(n)
        PROVE  next.pc \in {"idle", "stopped", "begin", "prepare", "deliver"}
    <2>1. CASE TakeJob(n)
      BY <1>0, <1>2, <2>1 DEF TakeJob, Idle
    <2>2. Return(n) \/ Goto(n, "stopped") \/ Goto(n, "prepare") => next.pc \in {"idle", "stopped", "prepare"}
      BY <1>0, <1>2, ThreadGoes
    <2> QED BY <1>5, <2>1, <2>2 DEF StopWorker, MarkRunning, CompleteJob
  <1>6. ASSUME Prepare(n)
        PROVE  WorkerAdvanced(next)' /\ AliasBegun(next)'
    <2>1. CASE Goto(n, "deliver")
      <3>1. next.pc = "deliver"
        BY <1>0, <1>2, <2>1 DEF Goto, ThreadStates
      <3> QED BY <1>4, <3>1
    <2>2. CASE UNCHANGED row /\ Conclude(n, "save final", "failed")
      <3>1. next.pc = "save final" /\ next.job = s.job /\ next.final = "failed"
        BY <1>0, <1>1, <1>2, <2>2 DEF Conclude, ThreadStates
      <3>2. row'[s.job] \in InflightStates
        BY <1>1, <1>3, <1>6, <2>2 DEF Prepare, At, PlacedAt, InflightStates
      <3> QED BY <3>1, <3>2 DEF WorkerAdvanced, AliasBegun, WorkerLocations, AliasLocations, Ends
    <2> QED BY <1>6, <2>1, <2>2 DEF Prepare, Raises
  <1>7. ASSUME Deliver(n)
        PROVE  WorkerAdvanced(next)' /\ AliasBegun(next)'
    <2>1. /\ \/ Conclude(n, "record", "persisted")
             \/ Conclude(n, "record", "failed")
             \/ Conclude(n, "save final", "failed")
          /\ UNCHANGED row
      BY <1>7 DEF Deliver, Raises
    <2>2. /\ \/ next.pc = "record" /\ next.final \in Ends
             \/ next.pc = "save final" /\ next.final = "failed"
          /\ next.job = s.job
      <3>1. ASSUME NEW pc, NEW final, Conclude(n, pc, final)
            PROVE  next.pc = pc /\ next.final = final /\ next.job = s.job
        BY <1>0, <1>1, <1>2, <3>1, ThreadGoes
      <3> QED BY <2>1, <3>1 DEF Ends
    <2>3. row'[s.job] = "running"
      BY <1>1, <1>3, <1>7, <2>1 DEF Deliver, At, PlacedAt
    <2> QED BY <2>2, <2>3 DEF WorkerAdvanced, AliasBegun, WorkerLocations, AliasLocations, Ends, InflightStates
  <1>8. ASSUME RecordOutcome(n)
        PROVE  WorkerAdvanced(next)' /\ AliasBegun(next)'
    <2>1. row' = Saved(row, s.job, s.final) /\ Goto(n, "save final") /\ s.pc = "record"
      BY <1>1, <1>8 DEF RecordOutcome, Save, Raises, At
    <2>2. next.pc = "save final" /\ next.job = s.job /\ next.final = s.final
      BY <1>0, <1>1, <1>2, <2>1 DEF Goto, ThreadStates
    <2>3. row[s.job] = "running" /\ s.final \in Ends /\ s.job \in Jobs
      BY <1>3, <2>1 DEF WorkerAdvanced
    <2>4. row'[s.job] = s.final
      BY <1>0, <2>1, <2>3, SavedTo
    <2> QED BY <2>2, <2>3, <2>4 DEF WorkerAdvanced, AliasBegun, WorkerLocations, AliasLocations
  <1>9. ASSUME SaveFinal(n)
        PROVE  WorkerAdvanced(next)' /\ AliasBegun(next)'
    <2>1. row' = Saved(row, s.job, s.final) /\ Goto(n, "pop aliases") /\ s.pc = "save final"
      BY <1>1, <1>9 DEF SaveFinal, SaveBestEffort, Save, Raises, At
    <2>2. next.pc = "pop aliases" /\ next.job = s.job /\ next.final = s.final
      BY <1>0, <1>1, <1>2, <2>1 DEF Goto, ThreadStates
    <2>3. /\ row[s.job] = s.final \/ (row[s.job] \in InflightStates /\ s.final = "failed")
          /\ s.final \in Ends /\ s.job \in Jobs
      BY <1>3, <2>1 DEF WorkerAdvanced
    <2>4. row'[s.job] = s.final
      BY <1>0, <2>1, <2>3, SavedTo
    <2> QED BY <2>2, <2>3, <2>4 DEF WorkerAdvanced, AliasBegun, WorkerLocations, AliasLocations
  <1>10. ASSUME s.pc \in {"pop aliases"} \union AliasLocations, next.pc \in AliasLocations,
                next.job = s.job, next.final = s.final
         PROVE  WorkerAdvanced(next)'
    <2>1. row[s.job] = s.final /\ s.final \in Ends /\ s.job \in Jobs
      BY <1>3, <1>10 DEF WorkerAdvanced, AliasLocations
    <2>2. row'[s.job] = s.final
      BY <1>0, <2>1, RowFate DEF Ends, TerminalStates
    <2> QED BY <1>10, <2>1, <2>2 DEF WorkerAdvanced, AliasLocations
  <1>11. ASSUME PopAliases(n)
         PROVE  WorkerAdvanced(next)' /\ AliasBegun(next)'
    <2>1. s.pc = "pop aliases" /\ next.pc = "aliases" /\ next.job = s.job /\ next.final = s.final
      BY <1>0, <1>1, <1>2, <1>11 DEF PopAliases, At, ThreadStates
    <2> QED BY <1>10, <2>1 DEF AliasLocations, AliasBegun
  <1>12. ASSUME ReadAlias(n) \/ SaveAliasRunning(n) \/ SaveAliasFinal(n)
         PROVE  WorkerAdvanced(next)' /\ AliasBegun(next)'
    <2>1. /\ s.pc \in AliasLocations /\ next.pc \in AliasLocations
          /\ next.job = s.job /\ next.final = s.final /\ AliasBegun(next)'
      BY <1>0, <1>1, <1>2, <1>12, AliasAdvances DEF AliasBegun
    <2> QED BY <1>10, <2>1
  <1>13. WorkerAdvanced(next)' /\ AliasBegun(next)'
    BY <1>4, <1>5, <1>6, <1>7, <1>8, <1>9, <1>11, <1>12 DEF WorkerStep
  <1> QED BY <1>2, <1>13 DEF WorkerAdvanced, AliasBegun

\* The event loop goes forward with its submission.
LEMMA LoopAdvances ==
  ASSUME ~Raises("save"), ~Raises("get"), Orderly, Advancing, SubmitStep
  PROVE  LoopAdvanced(thread[Loop])' /\ AliasBegun(thread[Loop])'
  <1>0. /\ thread \in [Threads -> ThreadStates] /\ row \in [Jobs -> RowStates]
        /\ Loop \in Threads /\ Orderly /\ Truthful /\ Shape /\ [Next]_vars
    BY DEF Threads, Orderly, Truthful, Shape, TypeOK, Next
  <1>1. PICK s : s = thread[Loop]
    OBVIOUS
  <1>2. PICK next : next = thread'[Loop]
    OBVIOUS
  <1>3. UNCHANGED coalescedInto /\ LoopAdvanced(s) /\ Sincere(Loop, s)
    BY <1>0, <1>1, LoopActs DEF Acts, Advancing, Truthful, AllSincere
  <1>4. ASSUME next.pc \in {"idle", "enqueue", "append"}
        PROVE  LoopAdvanced(next)' /\ AliasBegun(next)'
    BY <1>4 DEF LoopAdvanced, AliasBegun, LoopLocations, AliasLocations
  <1>5. ASSUME SaveQueued \/ SaveSubmitFailed \/ AppendAlias \/ SubmitDone
        PROVE  next.pc \in {"idle", "enqueue"}
    <2>1. Return(Loop) \/ Goto(Loop, "enqueue")
      BY <1>5 DEF SaveQueued, SaveSubmitFailed, AppendAlias, SubmitDone, Raises
    <2> QED BY <1>0, <1>2, <2>1, ThreadGoes
  <1>6. ASSUME Enqueue \/ UndoAdmission
        PROVE  LoopAdvanced(next)' /\ AliasBegun(next)'
    <2>1. Return(Loop) \/ (\E pc \in {"undo", "save failed"} : Goto(Loop, pc))
      BY <1>6 DEF Enqueue, UndoAdmission
    <2>2. next.pc = "idle" \/ (next.pc \in {"undo", "save failed"} /\ next.job = s.job)
      BY <1>0, <1>1, <1>2, <2>1, ThreadGoes
    <2>3. s.pc \in {"enqueue", "undo"}
      BY <1>1, <1>6 DEF Enqueue, UndoAdmission, At
    <2>4. coalescedInto[s.job] = NoJob
      BY <1>0, <1>1, <1>3, <2>3, HandFacts DEF LoopAdvanced
    <2> QED BY <1>3, <1>4, <2>2, <2>4 DEF LoopAdvanced, AliasBegun, LoopLocations, AliasLocations
  <1>7. ASSUME SaveAlias
        PROVE  LoopAdvanced(next)' /\ AliasBegun(next)'
    <2>1. s.pc = "save alias" /\ Goto(Loop, "register")
      BY <1>1, <1>7 DEF SaveAlias, At, Raises
    <2>2. next.pc = "register" /\ next.job = s.job
      BY <1>0, <1>1, <1>2, <2>1 DEF Goto, ThreadStates
    <2>3. PICK o : o = coalescedInto[s.job]
      OBVIOUS
    <2>4. o \in Jobs /\ row[o] # NoRow
      BY <1>3, <2>1, <2>3 DEF LoopAdvanced, Sincere, Answers
    <2>5. row'[o] # NoRow
      BY <1>0, <2>4, RowFate
    <2> QED BY <1>3, <2>2, <2>3, <2>5 DEF LoopAdvanced, AliasBegun, LoopLocations, AliasLocations
  <1>8. ASSUME s.pc \in AliasLocations, next.pc \in AliasLocations,
               next.job = s.job, next.final = s.final
        PROVE  LoopAdvanced(next)'
    <2>1. PICK o : o = coalescedInto[s.job]
      OBVIOUS
    <2>2. row[o] = s.final /\ s.final \in Ends /\ o \in Jobs
      BY <1>3, <1>8, <2>1 DEF LoopAdvanced
    <2>3. row'[o] = s.final
      BY <1>0, <2>2, RowFate DEF Ends, TerminalStates
    <2> QED BY <1>3, <1>8, <2>1, <2>2, <2>3 DEF LoopAdvanced, AliasLocations
  <1>9. ASSUME ReadOriginal
        PROVE  LoopAdvanced(next)' /\ AliasBegun(next)'
    <2>1. PICK o : o = coalescedInto[s.job]
      OBVIOUS
    <2>2. /\ s.pc = "register" /\ UNCHANGED row
          /\ \/ Goto(Loop, "append")
             \/ /\ row[o] \in TerminalStates
                /\ thread' = [thread EXCEPT ![Loop].pc = "aliases", ![Loop].final = row[o],
                                            ![Loop].todo = <<s.job>>]
      BY <1>1, <1>9, <2>1 DEF ReadOriginal, At, Raises, IsTerminal
    <2>3. \/ next.pc = "append"
          \/ /\ next.pc = "aliases" /\ next.job = s.job /\ next.final = row[o]
             /\ row[o] \in TerminalStates
      BY <1>0, <1>1, <1>2, <2>2 DEF Goto, ThreadStates
    <2>4. next.final # "abandoned"
      BY <1>0, <1>2, PlacedStep DEF AllPlaced, Placed
    <2>5. o \in Jobs
      BY <1>3, <2>1, <2>2 DEF Sincere, Answers
    <2>6. CASE next.pc = "aliases"
      BY <1>3, <2>1, <2>2, <2>3, <2>4, <2>5, <2>6 DEF LoopAdvanced, AliasBegun, LoopLocations,
         AliasLocations, Ends, TerminalStates
    <2> QED BY <1>4, <2>3, <2>6
  <1>10. ASSUME ReadAlias(Loop) \/ SaveAliasRunning(Loop) \/ SaveAliasFinal(Loop)
         PROVE  LoopAdvanced(next)' /\ AliasBegun(next)'
    <2>1. /\ s.pc \in AliasLocations /\ next.pc \in AliasLocations
          /\ next.job = s.job /\ next.final = s.final /\ AliasBegun(next)'
      BY <1>0, <1>1, <1>2, <1>10, AliasAdvances DEF AliasBegun
    <2> QED BY <1>8, <2>1
  <1>11. LoopAdvanced(next)' /\ AliasBegun(next)'
    BY <1>4, <1>5, <1>6, <1>7, <1>9, <1>10 DEF SubmitStep
  <1> QED BY <1>2, <1>11 DEF LoopAdvanced, AliasBegun

\* A new submission is coalesced into a job that has a row.
LEMMA SubmitAdvances ==
  ASSUME Orderly, ActiveRecorded, NEW info \in JobInfo, SubmitAccepted(info) \/ SubmitCoalesced(info)
  PROVE  LoopAdvanced(thread[Loop])' /\ AliasBegun(thread[Loop])'
  <1>1. PICK new : new = NextJob
    OBVIOUS
  <1>2. PICK next : next = thread'[Loop]
    OBVIOUS
  <1>3. /\ next.pc \in {"save queued", "save alias"} /\ next.job = new /\ new \in Jobs
        /\ UNCHANGED row
    BY <1>1, <1>2, SubmitFacts
  <1>4. ASSUME next.pc = "save alias"
        PROVE  row'[coalescedInto'[new]] # NoRow
    <2>1. ~SubmitAccepted(info)
      BY <1>2, <1>4 DEF SubmitAccepted, Begin, Idle, Threads, Orderly, Truthful, Shape, TypeOK
    <2>2. PICK o : o = active[FingerprintOf(info)]
      OBVIOUS
    <2>3. o # NoJob /\ FingerprintOf(info) \in Fingerprints /\ ~At(Loop, "save queued")
      BY <2>1, <2>2, InfoType DEF SubmitCoalesced, Coalesce, Coalesces, MaySubmit, At
    <2>4. row[o] # NoRow
      BY <2>2, <2>3 DEF ActiveRecorded
    <2>5. coalescedInto'[new] = o
      BY <1>1, <1>3, <2>1, <2>2 DEF SubmitCoalesced, Orderly, Truthful, Shape, TypeOK
    <2> QED BY <1>3, <2>4, <2>5
  <1>5. LoopAdvanced(next)' /\ AliasBegun(next)'
    BY <1>3, <1>4 DEF LoopAdvanced, AliasBegun, LoopLocations, AliasLocations
  <1> QED BY <1>2, <1>5 DEF LoopAdvanced, AliasBegun

LEMMA AdvancingStep ==
  ASSUME ~Raises("save"), ~Raises("get"), Orderly, Advancing, ActiveRecorded, [Next]_vars
  PROVE  Advancing'
  <1>0. /\ Loop \in Threads /\ Loop \notin Notebooks /\ Notebooks \subseteq Threads /\ Shape
        /\ thread \in [Threads -> ThreadStates]
        /\ \A t \in Threads : t = Loop \/ t \in Notebooks
    BY CoordinatorAssumption DEF Threads, Orderly, Truthful, Shape, TypeOK
  <1>1. ASSUME NEW t \in Threads, Acts(t), AliasBegun(thread[t])',
               t # Loop => WorkerAdvanced(thread[t])', t = Loop => LoopAdvanced(thread[t])'
        PROVE  Advancing'
    <2>1. ASSUME NEW u \in Threads
          PROVE  /\ u # Loop => WorkerAdvanced(thread[u])'
                 /\ u = Loop => LoopAdvanced(thread[u])'
                 /\ AliasBegun(thread[u])'
      BY <1>1, OthersAdvanced
    <2> QED BY <1>0, <2>1 DEF Advancing
  <1>2. CASE SubmitStep
    BY <1>0, <1>1, <1>2, LoopActs, LoopAdvances
  <1>3. ASSUME NEW n \in Notebooks, WorkerStep(n)
        PROVE  Advancing'
    BY <1>0, <1>1, <1>3, WorkerActs, WorkerAdvances
  <1>4. ASSUME NEW info \in JobInfo, SubmitAccepted(info) \/ SubmitCoalesced(info)
        PROVE  Advancing'
    <2>1. /\ LoopAdvanced(thread[Loop])' /\ AliasBegun(thread[Loop])'
          /\ UNCHANGED row /\ \A t \in Threads \ {Loop} : thread'[t] = thread[t]
      BY <1>4, SubmitAdvances, SubmitFacts
    <2>2. ASSUME NEW t \in Threads, t # Loop
          PROVE  WorkerAdvanced(thread[t])' /\ AliasBegun(thread[t])'
      BY <1>0, <2>1, <2>2 DEF Advancing, WorkerAdvanced, AliasBegun
    <2> QED BY <1>0, <2>1, <2>2 DEF Advancing
  <1>5. ASSUME Crash \/ Start
        PROVE  Advancing'
    <2>1. \A t \in Threads : thread'[t] = Idle
      BY <1>5 DEF Crash, Start, Orderly, Lives
    <2>2. ASSUME NEW t \in Threads
          PROVE  /\ WorkerAdvanced(thread[t])' /\ LoopAdvanced(thread[t])'
                 /\ AliasBegun(thread[t])'
      <3>1. thread'[t].pc = "idle"
        BY <2>1 DEF Idle
      <3> QED BY <3>1 DEF WorkerAdvanced, LoopAdvanced, AliasBegun, WorkerLocations, LoopLocations,
              AliasLocations
    <2> QED BY <1>0, <2>2 DEF Advancing
  <1>6. ASSUME UNCHANGED <<row, thread, coalescedInto>>
        PROVE  Advancing'
    BY <1>6 DEF Advancing, WorkerAdvanced, LoopAdvanced, AliasBegun
  <1> QED BY <1>0, <1>2, <1>3, <1>4, <1>5, <1>6, QuietSteps

LEMMA ActiveRecordedStep ==
  ASSUME ~Raises("save"), Orderly, ActiveRecorded, [Next]_vars
  PROVE  ActiveRecorded'
  <1> SUFFICES ASSUME NEW f \in Fingerprints, active'[f] # NoJob
               PROVE  \/ row'[active'[f]] # NoRow
                      \/ At(Loop, "save queued")' /\ InHand(active[f])'
    BY DEF ActiveRecorded, At, InHand
  <1>0. /\ Loop \in Threads /\ Loop \notin Notebooks /\ Notebooks \subseteq Threads /\ Shape
        /\ thread \in [Threads -> ThreadStates] /\ row \in [Jobs -> RowStates]
        /\ active \in [Fingerprints -> Jobs \union {NoJob}]
    BY CoordinatorAssumption DEF Threads, Orderly, Truthful, Shape, TypeOK, AdmissionTypeOK
  <1>1. PICK o : o = active'[f]
    OBVIOUS
  <1>2. ASSUME active[f] = o, row[o] # NoRow
        PROVE  row'[o] # NoRow
    BY <1>0, <1>1, <1>2, RowFate
  <1>3. active[f] = o => row[o] # NoRow \/ (At(Loop, "save queued") /\ InHand(o))
    BY <1>1 DEF ActiveRecorded
  <1>4. ASSUME SubmitStep
        PROVE  row'[o] # NoRow
    <2>1. active[f] = o
      BY <1>0, <1>1, <1>4, ActiveKept
    <2>2. ASSUME At(Loop, "save queued"), InHand(o)
          PROVE  row'[o] # NoRow
      <3>1. SaveQueued
        BY <1>4, <2>2 DEF SubmitStep, Enqueue, UndoAdmission, SaveSubmitFailed, SaveAlias, ReadOriginal,
           AppendAlias, SubmitDone, ReadAlias, SaveAliasRunning, SaveAliasFinal, At
      <3>2. row' = Saved(row, o, "queued") /\ o \in Jobs
        BY <1>0, <1>1, <2>1, <2>2, <3>1 DEF SaveQueued, Save, Raises, InHand
      <3>3. row[o] = NoRow
        BY <1>0, <2>2 DEF At, InHand, Orderly, AllPlaced, Placed, PlacedAt
      <3> QED BY <1>0, <3>2, <3>3, SavedTo DEF NoRow
    <2> QED BY <1>1, <1>2, <1>3, <2>1, <2>2
  <1>5. ASSUME NEW n \in Notebooks, WorkerStep(n)
        PROVE  row'[o] # NoRow \/ (At(Loop, "save queued")' /\ InHand(o)')
    <2>1. active[f] = o
      BY <1>0, <1>1, <1>5, ActiveKept
    <2>2. thread'[Loop] = thread[Loop]
      BY <1>0, <1>5, WorkerActs DEF Acts
    <2> QED BY <1>2, <1>3, <2>1, <2>2 DEF At, InHand
  <1>6. ASSUME NEW info \in JobInfo, SubmitAccepted(info) \/ SubmitCoalesced(info)
        PROVE  row'[o] # NoRow \/ (At(Loop, "save queued")' /\ InHand(o)')
    <2>1. ~At(Loop, "save queued")
      BY <1>6 DEF SubmitAccepted, SubmitCoalesced, MaySubmit, At
    <2>2. CASE active[f] = o
      BY <1>2, <1>3, <2>1, <2>2
    <2>3. CASE active[f] # o
      <3>1. SubmitAccepted(info) /\ o = NextJob
        BY <1>0, <1>1, <1>6, <2>3 DEF SubmitAccepted, SubmitCoalesced, Accept, Coalesce
      <3>2. thread'[Loop].pc = "save queued" /\ thread'[Loop].job = o
        BY <1>0, <3>1 DEF SubmitAccepted, Begin, Idle
      <3> QED BY <3>2 DEF At, InHand
    <2> QED BY <2>2, <2>3
  <1>7. ~Crash
    BY <1>0 DEF Crash, Reset
  <1>8. ASSUME Start \/ UNCHANGED <<thread, active>>
        PROVE  row'[o] # NoRow \/ (At(Loop, "save queued")' /\ InHand(o)')
    <2>1. UNCHANGED <<thread, active>>
      BY <1>8 DEF Start, admissionVars
    <2> QED BY <1>1, <1>2, <1>3, <2>1 DEF At, InHand
  <1>9. row'[o] # NoRow \/ (At(Loop, "save queued")' /\ InHand(o)')
    BY <1>0, <1>4, <1>5, <1>6, <1>7, <1>8, QuietSteps
  <1> QED BY <1>1, <1>9 DEF InHand

LEMMA WillPopIs ==
  ASSUME NEW k \in Jobs
  PROVE  /\ k \in WillPop <=> InQueue(k) \/ \E n \in Notebooks : WorksOn(n, k)
         /\ k \in WillPop' <=> InQueue(k)' \/ \E n \in Notebooks : WorksOn(n, k)'
  <1>1. k # Sentinel
    BY DEF Sentinel, Jobs, NoJob
  <1> QED BY <1>1 DEF WillPop, Queued, ToSet, InQueue

LEMMA WorksOnStep ==
  ASSUME Shape, NEW n \in Notebooks, NEW k, WorksOn(n, k), WorkerStep(n)
  PROVE  WorksOn(n, k)' \/ PopAliases(n)
  <1>0. n \in Threads
    BY DEF Threads
  <1>1. thread[n].job = k /\ thread[n].pc \in WorkerLocations \ {"idle", "stopped"}
    BY DEF WorksOn
  <1>2. ASSUME \/ \E pc \in {"prepare", "deliver", "save final", "pop aliases"} : Goto(n, pc)
               \/ \E pc \in {"record", "save final"} : \E final : Conclude(n, pc, final)
        PROVE  WorksOn(n, k)'
    <2>1. /\ thread'[n].pc \in {"prepare", "deliver", "record", "save final", "pop aliases"}
          /\ thread'[n].job = k
      BY <1>0, <1>1, <1>2, ThreadGoes
    <2> QED BY <2>1 DEF WorksOn, WorkerLocations
  <1>3. CASE MarkRunning(n) \/ Prepare(n) \/ RecordOutcome(n) \/ SaveFinal(n)
    BY <1>2, <1>3 DEF MarkRunning, Prepare, RecordOutcome, SaveFinal
  <1>4. CASE Deliver(n)
    BY <1>2, <1>4 DEF Deliver
  <1> QED BY <1>1, <1>3, <1>4 DEF WorkerStep, TakeJob, StopWorker, CompleteJob, ReadAlias,
          SaveAliasRunning, SaveAliasFinal, At, WorkerLocations

\* Whoever will take the aliases of a job does so, unless the server stops.
LEMMA WillPopStep ==
  ASSUME Orderly, [Next]_vars, ~Crash, NEW k \in Jobs, k \in WillPop
  PROVE  k \in WillPop' \/ \E n \in Notebooks : PopAliases(n) /\ WorksOn(n, k)
  <1>0. /\ Notebooks \subseteq Threads /\ Loop \in Threads /\ Loop \notin Notebooks /\ Shape
        /\ thread \in [Threads -> ThreadStates]
    BY CoordinatorAssumption DEF Threads, Orderly, Truthful, Shape, TypeOK
  <1>1. InQueue(k)' \/ (\E n \in Notebooks : WorksOn(n, k)') => k \in WillPop'
    BY WillPopIs
  <1>2. CASE InQueue(k)
    <2>1. ASSUME NEW m \in Notebooks, TakeJob(m), thread'[m].job = k
          PROVE  WorksOn(m, k)'
      <3>1. thread'[m].pc = "begin"
        BY <1>0, <2>1 DEF TakeJob, Idle
      <3> QED BY <2>1, <3>1 DEF WorksOn, WorkerLocations
    <2> QED BY <1>1, <1>2, <2>1, InQueueStep
  <1>3. ASSUME NEW n \in Notebooks, WorksOn(n, k)
        PROVE  WorksOn(n, k)' \/ PopAliases(n)
    <2>1. ASSUME thread'[n] = thread[n] PROVE WorksOn(n, k)'
      BY <1>3, <2>1 DEF WorksOn
    <2>2. SubmitStep => thread'[n] = thread[n]
      BY <1>0, LoopActs DEF Acts
    <2>3. ASSUME NEW m \in Notebooks, WorkerStep(m), m # n
          PROVE  thread'[n] = thread[n]
      BY <1>0, <2>3, WorkerActs DEF Acts
    <2>4. ASSUME NEW info \in JobInfo, SubmitAccepted(info) \/ SubmitCoalesced(info)
          PROVE  thread'[n] = thread[n]
      BY <1>0, <2>4, SubmitFacts
    <2>5. UNCHANGED thread \/ Start => thread'[n] = thread[n]
      BY DEF Start
    <2> QED BY <1>0, <1>3, <2>1, <2>2, <2>3, <2>4, <2>5, WorksOnStep, QuietSteps
  <1> QED BY <1>1, <1>2, <1>3, WillPopIs

\* What is executed itself is owned by its queue, by its worker, or by the event loop.
LEMMA OriginalsOwner ==
  ASSUME Apart, Advancing, NEW o \in Jobs, coalescedInto[o] = NoJob, o \in Owned, ~InHand(o)
  PROVE  o \in WillPop
  <1>0. /\ Orderly /\ \A j \in Jobs : j # NoJob
        /\ \A t \in Threads : t = Loop \/ t \in Notebooks
    BY DEF Apart, Jobs, NoJob, Threads
  <1>1. ASSUME NEW k \in WillPop, o \in Waiting(k)
        PROVE  FALSE
    BY <1>0, <1>1, Places DEF WillPop
  <1>2. ASSUME NEW t \in Threads, o \in Writes(t)
        PROVE  o \in WillPop
    <2>1. t # Loop
      BY <1>2, Places
    <2>2. t \in Notebooks /\ WorkerAdvanced(thread[t])
      BY <1>0, <2>1 DEF Advancing
    <2>3. ASSUME NEW i \in DOMAIN thread[t].todo, thread[t].todo[i] = o
          PROVE  FALSE
      BY <1>0, <2>3 DEF Orderly, Truthful, AllSincere, Sincere, Coalesced
    <2>4. thread[t].job = o /\ thread[t].pc \notin {"idle", "stopped"} \union AliasLocations
      BY <1>2, <2>3 DEF Writes, ToSet
    <2>5. WorksOn(t, o)
      BY <2>2, <2>4 DEF WorksOn, WorkerAdvanced
    <2> QED BY <2>2, <2>5, WillPopIs
  <1> QED BY <1>1, <1>2 DEF Owned

\* The original of an alias about to be appended still has its aliases to take.
AppendSafe == At(Loop, "append") => coalescedInto[thread[Loop].job] \in WillPop

\* The event loop gets there by reading the row of an original that has not ended.
LEMMA OnlyReadOriginalAppends ==
  ASSUME ~Raises("save"), ~Raises("get"), Orderly, Advancing, SubmitStep,
         At(Loop, "append")'
  PROVE  ReadOriginal /\ Goto(Loop, "append")
  <1>0. Loop \in Threads /\ Shape /\ thread \in [Threads -> ThreadStates] /\ thread'[Loop].pc = "append"
    BY DEF Threads, Orderly, Truthful, Shape, TypeOK, At
  <1>1. ASSUME \/ Return(Loop)
               \/ \E pc \in {"enqueue", "undo", "save failed", "register"} : Goto(Loop, pc)
        PROVE  FALSE
    BY <1>0, <1>1, ThreadGoes
  <1>2. ~(ReadAlias(Loop) \/ SaveAliasRunning(Loop) \/ SaveAliasFinal(Loop))
    BY <1>0, AliasAdvances DEF AliasLocations
  <1>3. ~(\/ SaveQueued \/ Enqueue \/ UndoAdmission \/ SaveSubmitFailed \/ SaveAlias \/ AppendAlias
          \/ SubmitDone)
    BY <1>1 DEF SaveQueued, Enqueue, UndoAdmission, SaveSubmitFailed, SaveAlias, AppendAlias, SubmitDone
  <1>4. ReadOriginal
    BY <1>2, <1>3 DEF SubmitStep
  <1>5. Goto(Loop, "append")
    <2>1. \/ Goto(Loop, "append")
          \/ \E final, todo : thread' = [thread EXCEPT ![Loop].pc = "aliases", ![Loop].final = final,
                                                       ![Loop].todo = todo]
      BY <1>4 DEF ReadOriginal, Raises
    <2>2. ASSUME NEW final, NEW todo,
                 thread' = [thread EXCEPT ![Loop].pc = "aliases", ![Loop].final = final,
                                          ![Loop].todo = todo]
          PROVE  FALSE
      BY <1>0, <2>2 DEF ThreadStates
    <2> QED BY <2>1, <2>2
  <1> QED BY <1>4, <1>5

LEMMA AppendSafeStep ==
  ASSUME ~Raises("save"), ~Raises("get"), Apart, Advancing, AppendSafe, AllOwned,
         [Next]_vars
  PROVE  AppendSafe'
  <1> SUFFICES ASSUME At(Loop, "append")'
               PROVE  coalescedInto'[thread'[Loop].job] \in WillPop'
    BY DEF AppendSafe
  <1>0. /\ Loop \in Threads /\ Loop \notin Notebooks /\ Notebooks \subseteq Threads
        /\ Orderly /\ Shape /\ thread \in [Threads -> ThreadStates] /\ thread'[Loop].pc = "append"
    BY CoordinatorAssumption DEF Threads, Apart, Orderly, Truthful, Shape, TypeOK, At
  <1>1. ~Crash
    BY <1>0 DEF Crash, Idle
  <1>2. ASSUME thread'[Loop] = thread[Loop], UNCHANGED coalescedInto
        PROVE  coalescedInto'[thread'[Loop].job] \in WillPop'
    <2>1. PICK k : k = coalescedInto[thread[Loop].job]
      OBVIOUS
    <2>2. At(Loop, "append")
      BY <1>0, <1>2 DEF At
    <2>3. k \in WillPop /\ k \in Jobs /\ \A n \in Notebooks : ~PopAliases(n)
      BY <2>1, <2>2 DEF AppendSafe, WillPop, PopAliases, AliasLockHeld
    <2>4. k \in WillPop'
      BY <1>0, <1>1, <2>3, WillPopStep
    <2> QED BY <1>2, <2>1, <2>4
  <1>3. ASSUME SubmitStep
        PROVE  coalescedInto'[thread'[Loop].job] \in WillPop'
    <2>1. ReadOriginal /\ Goto(Loop, "append")
      BY <1>0, <1>3, OnlyReadOriginalAppends
    <2>2. PICK alias : alias = thread[Loop].job
      OBVIOUS
    <2>3. PICK o : o = coalescedInto[alias]
      OBVIOUS
    <2>4. thread[Loop].pc = "register" /\ row[o] \notin TerminalStates
      <3>1. thread[Loop].pc = "register"
        BY <2>1 DEF ReadOriginal, At
      <3>2. ASSUME NEW final, NEW todo,
                   thread' = [thread EXCEPT ![Loop].pc = "aliases", ![Loop].final = final,
                                            ![Loop].todo = todo]
            PROVE  FALSE
        BY <1>0, <3>2 DEF ThreadStates
      <3> QED BY <2>1, <2>2, <2>3, <3>1, <3>2 DEF ReadOriginal, Raises, IsTerminal
    <2>5. Answers(alias, o)
      BY <1>0, <2>2, <2>3, <2>4 DEF Orderly, Truthful, AllSincere, Sincere
    <2>6. /\ o \in Jobs /\ coalescedInto[o] = NoJob /\ ~InHand(o)
          /\ row[o] # NoRow
      BY <2>2, <2>3, <2>4, <2>5 DEF Answers, InHand, Jobs, NoJob, Advancing, LoopAdvanced
    <2>7. row[o] \in InflightStates /\ up
      BY <1>0, <2>4, <2>6 DEF Orderly, Truthful, Shape, TypeOK, RowStates, JobStates, Lives, Idle
    <2>8. o \in WillPop
      BY <2>6, <2>7, OriginalsOwner DEF AllOwned
    <2>9. ASSUME NEW n \in Notebooks, PopAliases(n) PROVE FALSE
      <3>1. thread'[Loop] = thread[Loop]
        BY <1>0, <2>9 DEF PopAliases
      <3> QED BY <1>0, <2>4, <3>1
    <2>10. o \in WillPop'
      BY <1>0, <1>1, <2>6, <2>8, <2>9, WillPopStep
    <2>11. thread'[Loop].job = alias /\ UNCHANGED coalescedInto
      BY <1>0, <1>3, <2>1, <2>2, ThreadGoes, LoopActs DEF Acts
    <2> QED BY <2>3, <2>10, <2>11
  <1>4. ASSUME NEW n \in Notebooks, WorkerStep(n)
        PROVE  coalescedInto'[thread'[Loop].job] \in WillPop'
    BY <1>0, <1>2, <1>4, WorkerActs DEF Acts
  <1>5. ASSUME NEW info \in JobInfo, SubmitAccepted(info) \/ SubmitCoalesced(info)
        PROVE  FALSE
    BY <1>0, <1>5, SubmitFacts
  <1>6. ASSUME Start
        PROVE  coalescedInto'[thread'[Loop].job] \in WillPop'
    BY <1>2, <1>6 DEF Start, historyVars
  <1> QED BY <1>0, <1>1, <1>2, <1>3, <1>4, <1>5, <1>6, QuietSteps

----------------------------------------------------------------------------
(* Whoever owns a job hands it on, or ends it.                             *)

\* A thread that ends aliases goes on until it has ended them all.
LEMMA TodoOwned ==
  ASSUME ~Raises("save"), ~Raises("get"), Orderly, Advancing,
         NEW t \in Threads, thread[t].pc \in AliasLocations,
         NEW i \in DOMAIN thread[t].todo, NEW j \in Jobs, j = thread[t].todo[i],
         (t = Loop /\ SubmitStep) \/ (t \in Notebooks /\ WorkerStep(t))
  PROVE  (\E k \in DOMAIN thread'[t].todo : thread'[t].todo[k] = j /\ thread'[t].pc \in AliasLocations)
           \/ row'[j] \in TerminalStates
  <1>0. /\ thread \in [Threads -> ThreadStates] /\ row \in [Jobs -> RowStates] /\ Shape
        /\ thread[t].todo \in Seq(Jobs)
    BY DEF Orderly, Truthful, Shape, TypeOK, ThreadStates
  <1>1. thread[t].todo # <<>>
    <2>1. ASSUME NEW todo, todo = thread[t].todo, todo = <<>> PROVE FALSE
      BY <2>1, EmptyDomain
    <2> QED BY <2>1
  <1>2. ReadAlias(t) \/ SaveAliasRunning(t) \/ SaveAliasFinal(t)
    BY <1>1 DEF SubmitStep, SaveQueued, Enqueue, UndoAdmission, SaveSubmitFailed, SaveAlias, ReadOriginal,
       AppendAlias, SubmitDone, WorkerStep, TakeJob, StopWorker, MarkRunning, Prepare, Deliver,
       RecordOutcome, SaveFinal, PopAliases, CompleteJob, At, AliasLocations
  <1>3. CASE ReadAlias(t) \/ SaveAliasRunning(t)
    <2>1. Goto(t, "alias running") \/ Goto(t, "alias final")
      BY <1>3 DEF ReadAlias, SaveAliasRunning, Raises
    <2>2. thread'[t].todo = thread[t].todo /\ thread'[t].pc \in AliasLocations
      BY <1>0, <2>1, ThreadGoes DEF AliasLocations
    <2> QED BY <2>2
  <1>4. CASE SaveAliasFinal(t)
    <2>1. thread'[t].todo = Tail(thread[t].todo) /\ thread'[t].pc = "aliases"
      BY <1>0, <1>4 DEF SaveAliasFinal, ThreadStates
    <2>2. CASE i # 1
      <3>1. i - 1 \in DOMAIN Tail(thread[t].todo) /\ Tail(thread[t].todo)[i - 1] = j
        BY <1>0, <1>1, <2>2
      <3> QED BY <2>1, <3>1 DEF AliasLocations
    <2>3. CASE i = 1
      <3>1. j = Head(thread[t].todo)
        BY <1>0, <1>1, <2>3, TailElements
      <3>2. row[j] \in {"running"} \union TerminalStates
        <4>1. row[j] \in JobStates
          BY <1>1, <3>1, HeadOfTodo
        <4>2. row[j] # "queued"
          BY <1>4, <3>1 DEF SaveAliasFinal, At, Advancing, AliasBegun
        <4> QED BY <4>1, <4>2 DEF JobStates, InflightStates
      <3>3. thread[t].final \in Ends
        BY DEF Advancing, WorkerAdvanced, LoopAdvanced, Threads
      <3>4. row' = Saved(row, j, thread[t].final)
        BY <1>4, <3>1 DEF SaveAliasFinal, SaveBestEffort, Save, Raises
      <3>5. row[j] = "running" => row'[j] = thread[t].final
        BY <1>0, <3>3, <3>4, SavedTo
      <3>6. row[j] \in TerminalStates => row'[j] = row[j]
        BY <1>0, <3>4, SavedTo
      <3> QED BY <3>2, <3>3, <3>5, <3>6 DEF Ends, TerminalStates
    <2> QED BY <2>2, <2>3
  <1> QED BY <1>2, <1>3, <1>4

\* The event loop enqueues the job it is submitting, ends it, or has an alias wait.
LEMMA SubmissionOwned ==
  ASSUME ~Raises("save"), ~Raises("get"), Apart, Advancing, AppendSafe, SubmitStep,
         NEW j \in Jobs, InHand(j), thread[Loop].pc \notin {"idle", "stopped"} \union AliasLocations,
         row[j] \in InflightStates
  PROVE  j \in Owned' \/ row'[j] \in TerminalStates
  <1>0. /\ Loop \in Threads /\ Loop \notin Notebooks /\ Orderly /\ Shape /\ [Next]_vars
        /\ thread \in [Threads -> ThreadStates] /\ row \in [Jobs -> RowStates]
        /\ queue \in [Notebooks -> Seq(Jobs \union {Sentinel})] /\ aliases \in [Jobs -> Seq(Jobs)]
        /\ j # NoJob /\ j = thread[Loop].job
    BY CoordinatorAssumption DEF Threads, Apart, Orderly, Truthful, Shape, TypeOK, Next, Jobs, NoJob, InHand
  <1>1. ASSUME thread'[Loop].job = j, thread'[Loop].pc \notin {"idle", "stopped"} \union AliasLocations
        PROVE  j \in Owned'
    BY <1>0, <1>1 DEF Owned, Writes
  <1>2. ASSUME NEW pc \in {"enqueue", "undo", "save failed", "register", "append"}, Goto(Loop, pc)
        PROVE  j \in Owned'
    <2>1. thread'[Loop].job = j /\ thread'[Loop].pc = pc
      BY <1>0, <1>2, ThreadGoes
    <2> QED BY <1>1, <2>1 DEF AliasLocations
  <1>3. CASE SaveQueued \/ UndoAdmission \/ SaveAlias
    BY <1>2, <1>3 DEF SaveQueued, UndoAdmission, SaveAlias
  <1>4. CASE Enqueue
    <2>1. CASE Goto(Loop, "undo")
      BY <1>2, <2>1
    <2>2. ASSUME NEW m \in Notebooks, queue' = [queue EXCEPT ![m] = Append(@, j)]
          PROVE  j \in Owned'
      <3>1. queue'[m] = Append(queue[m], j)
        BY <1>0, <2>2
      <3>2. Len(queue[m]) + 1 \in DOMAIN queue'[m] /\ queue'[m][Len(queue[m]) + 1] = j
        BY <1>0, <3>1
      <3>3. InQueue(j)'
        BY <3>2 DEF InQueue
      <3> QED BY <3>3, WillPopIs DEF Owned
    <2>3. request[j].notebook \in Notebooks
      <3>1. Drawn(j)
        BY <1>0, HandFacts DEF Orderly
      <3> QED BY <1>0, <3>1, InfoType DEF Drawn, Shape, TypeOK
    <2> QED BY <1>0, <1>4, <2>1, <2>2, <2>3 DEF Enqueue
  <1>5. CASE SaveSubmitFailed
    <2>1. row' = Saved(row, j, "failed")
      BY <1>0, <1>5 DEF SaveSubmitFailed, SaveBestEffort, Save, Raises
    <2>2. row'[j] = "failed"
      BY <1>0, <2>1, SavedTo
    <2> QED BY <2>2 DEF TerminalStates
  <1>6. CASE ReadOriginal
    <2>1. CASE Goto(Loop, "append")
      BY <1>2, <2>1
    <2>2. ASSUME NEW final, thread' = [thread EXCEPT ![Loop].pc = "aliases", ![Loop].final = final,
                                                     ![Loop].todo = <<j>>]
          PROVE  j \in Owned'
      <3>1. thread'[Loop].pc = "aliases" /\ thread'[Loop].todo = <<j>>
        BY <1>0, <2>2 DEF ThreadStates
      <3>2. j \in ToSet(thread'[Loop].todo)
        <4>1. 1 \in DOMAIN <<j>> /\ <<j>>[1] = j
          OBVIOUS
        <4> QED BY <3>1, <4>1 DEF ToSet
      <3> QED BY <1>0, <3>1, <3>2 DEF Owned, Writes, AliasLocations
    <2> QED BY <1>0, <1>6, <2>1, <2>2 DEF ReadOriginal, Raises
  <1>7. CASE AppendAlias
    <2>1. PICK k : k = coalescedInto[j]
      OBVIOUS
    <2>2. At(Loop, "append") /\ aliases' = [aliases EXCEPT ![k] = Append(@, j)] /\ Return(Loop)
      BY <1>0, <1>7, <2>1 DEF AppendAlias
    <2>3. k \in WillPop /\ k \in Jobs /\ \A n \in Notebooks : ~PopAliases(n)
      BY <1>0, <2>1, <2>2 DEF AppendSafe, WillPop, PopAliases, AliasLockHeld
    <2>4. ~Crash
      BY <1>7 DEF AppendAlias, Crash
    <2>5. k \in WillPop'
      BY <1>0, <2>3, <2>4, WillPopStep
    <2>6. j \in Waiting(k)'
      <3>1. aliases'[k] = Append(aliases[k], j)
        BY <1>0, <2>2, <2>3
      <3>2. Len(aliases[k]) + 1 \in DOMAIN aliases'[k] /\ aliases'[k][Len(aliases[k]) + 1] = j
        BY <1>0, <2>3, <3>1
      <3> QED BY <3>2 DEF Waiting, ToSet
    <2> QED BY <2>5, <2>6 DEF Owned
  <1> QED BY <1>0, <1>3, <1>4, <1>5, <1>6, <1>7 DEF SubmitStep, SubmitDone, ReadAlias, SaveAliasRunning,
          SaveAliasFinal, At, AliasLocations

LEMMA OwnedStep ==
  ASSUME ~Raises("save"), ~Raises("get"), Apart, Advancing, AppendSafe,
         [Next]_vars, ~Crash, NEW j \in Jobs, j \in Owned, row[j] \in InflightStates
  PROVE  j \in Owned' \/ row'[j] \in TerminalStates
  <1>0. /\ Loop \in Threads /\ Loop \notin Notebooks /\ Notebooks \subseteq Threads
        /\ Orderly /\ Shape /\ thread \in [Threads -> ThreadStates] /\ j # NoJob
        /\ aliases \in [Jobs -> Seq(Jobs)] /\ \A t \in Threads : t = Loop \/ t \in Notebooks
    BY CoordinatorAssumption DEF Threads, Apart, Orderly, Truthful, Shape, TypeOK, Jobs, NoJob
  <1>1. ASSUME j \in WillPop
        PROVE  j \in Owned'
    <2>1. ASSUME NEW n \in Notebooks, PopAliases(n), WorksOn(n, j)
          PROVE  FALSE
      <3>1. row[j] \in Ends
        BY <2>1 DEF PopAliases, WorksOn, At, Advancing, WorkerAdvanced
      <3> QED BY <3>1 DEF Ends, InflightStates
    <2> QED BY <1>0, <1>1, <2>1, WillPopStep DEF Owned
  <1>2. ASSUME NEW k \in WillPop, j \in Waiting(k)
        PROVE  j \in Owned'
    <2>0. k \in Jobs
      BY DEF WillPop
    <2>i. PICK i \in DOMAIN aliases[k] : aliases[k][i] = j
      BY <1>2 DEF Waiting, ToSet
    <2>1. ASSUME NEW n \in Notebooks, PopAliases(n), thread[n].job = k
          PROVE  j \in Owned'
      <3>1. thread'[n].pc = "aliases" /\ thread'[n].todo = aliases[k]
        BY <1>0, <2>1 DEF PopAliases, ThreadStates
      <3>2. j \in Writes(n)'
        BY <2>i, <3>1 DEF Writes, ToSet, AliasLocations
      <3> QED BY <1>0, <3>2 DEF Owned
    <2>2. ASSUME NEW e, aliases'[k] \in {aliases[k], Append(aliases[k], e)}, k \in WillPop'
          PROVE  j \in Owned'
      <3>1. i \in DOMAIN aliases'[k] /\ aliases'[k][i] = j
        <4>1. aliases[k] \in Seq(Jobs)
          BY <1>0, <2>0
        <4>2. CASE aliases'[k] = Append(aliases[k], e)
          BY <2>i, <4>1, <4>2
        <4>3. CASE aliases'[k] = aliases[k]
          BY <2>i, <4>3
        <4> QED BY <2>2, <4>2, <4>3
      <3>2. j \in Waiting(k)'
        BY <3>1 DEF Waiting, ToSet
      <3> QED BY <2>2, <3>2 DEF Owned
    <2>3. ASSUME k \in WillPop'
          PROVE  j \in Owned'
      <3>1. UNCHANGED aliases => j \in Owned'
        BY <2>2, <2>3
      <3>2. AppendAlias => j \in Owned'
        <4>1. ASSUME NEW o, NEW e, aliases' = [aliases EXCEPT ![o] = Append(@, e)]
              PROVE  aliases'[k] \in {aliases[k], Append(aliases[k], e)}
          BY <1>0, <2>0, <4>1
        <4> QED BY <2>2, <2>3, <4>1 DEF AppendAlias
      <3>3. ASSUME NEW n \in Notebooks, PopAliases(n), thread[n].job # k
            PROVE  aliases'[k] = aliases[k]
        BY <1>0, <2>0, <3>3 DEF PopAliases
      <3> QED BY <1>0, <2>1, <2>2, <2>3, <3>1, <3>2, <3>3, AliasSteps
    <2> QED BY <1>0, <2>0, <2>1, <2>3, WillPopStep DEF WorksOn
  <1>3. ASSUME NEW t \in Threads, j \in Writes(t)
        PROVE  j \in Owned' \/ row'[j] \in TerminalStates
    <2>1. CASE thread'[t] = thread[t]
      <3>1. j \in Writes(t)'
        BY <1>3, <2>1 DEF Writes
      <3> QED BY <3>1 DEF Owned
    <2>2. thread[t].pc \notin {"idle", "stopped"}
      <3>1. thread[t].pc \in {"idle", "stopped"} => Writes(t) = {}
        BY DEF Writes, AliasLocations
      <3> QED BY <1>3, <3>1
    <2>3. ASSUME (t = Loop /\ SubmitStep) \/ (t \in Notebooks /\ WorkerStep(t))
          PROVE  j \in Owned' \/ row'[j] \in TerminalStates
      <3>1. CASE thread[t].pc \in AliasLocations
        <4>1. PICK i \in DOMAIN thread[t].todo : thread[t].todo[i] = j
          BY <1>3, <3>1 DEF Writes, ToSet, AliasLocations
        <4>2. ASSUME NEW k \in DOMAIN thread'[t].todo, thread'[t].todo[k] = j,
                     thread'[t].pc \in AliasLocations
              PROVE  j \in Owned'
          <5>1. j \in Writes(t)'
            BY <4>2 DEF Writes, ToSet, AliasLocations
          <5> QED BY <5>1 DEF Owned
        <4> QED BY <1>0, <2>3, <3>1, <4>1, <4>2, TodoOwned
      <3>2. CASE thread[t].pc \notin AliasLocations
        <4>1. thread[t].job = j
          BY <1>3, <2>2, <3>2 DEF Writes
        <4>2. CASE t = Loop
          BY <1>0, <2>2, <2>3, <3>2, <4>1, <4>2, SubmissionOwned DEF InHand
        <4>3. CASE t \in Notebooks
          <5>1. WorksOn(t, j)
            BY <2>2, <3>2, <4>1, <4>3 DEF WorksOn, Advancing, WorkerAdvanced
          <5> QED BY <1>1, <4>3, <5>1, WillPopIs
        <4> QED BY <1>0, <4>2, <4>3
      <3> QED BY <3>1, <3>2
    <2>4. ASSUME SubmitStep, t # Loop
          PROVE  thread'[t] = thread[t]
      BY <1>0, <2>4, LoopActs DEF Acts
    <2>5. ASSUME NEW n \in Notebooks, WorkerStep(n), t # n
          PROVE  thread'[t] = thread[t]
      BY <1>0, <2>5, WorkerActs DEF Acts
    <2>6. ASSUME NEW info \in JobInfo, SubmitAccepted(info) \/ SubmitCoalesced(info)
          PROVE  thread'[t] = thread[t]
      <3>1. t # Loop
        BY <2>2, <2>6 DEF SubmitAccepted, SubmitCoalesced, MaySubmit, At
      <3> QED BY <1>0, <2>6, <3>1, SubmitFacts
    <2>7. UNCHANGED thread \/ Start => thread'[t] = thread[t]
      BY DEF Start
    <2> QED BY <1>0, <2>1, <2>3, <2>4, <2>5, <2>6, <2>7, QuietSteps
  <1> QED BY <1>1, <1>2, <1>3 DEF Owned

\* A row begins in the hand of the event loop.
LEMMA FirstRow ==
  ASSUME ~Raises("save"), Orderly, Advancing, RestHasNoJob, [Next]_vars, NEW t \in Threads,
         (t = Loop /\ SubmitStep) \/ (t \in Notebooks /\ WorkerStep(t)),
         NEW j \in Jobs, row[j] = NoRow, row'[j] \in InflightStates
  PROVE  j \in Owned'
  <1>0. /\ Loop \in Threads /\ Loop \notin Notebooks /\ Shape /\ row \in [Jobs -> RowStates]
        /\ thread \in [Threads -> ThreadStates] /\ row'[j] # row[j] /\ j # NoJob
    BY CoordinatorAssumption DEF Threads, Orderly, Truthful, Shape, TypeOK, InflightStates, NoRow, Jobs, NoJob
  <1>1. Wrote(t)
    BY <1>0, RowSteps
  <1>2. thread[t].job = j
    <2>1. PICK job, state : /\ job \in Jobs /\ row' = Saved(row, job, state)
                            /\ job = thread[t].job \/ \E i \in DOMAIN thread[t].todo : job = thread[t].todo[i]
      BY <1>1 DEF Wrote
    <2>2. j = job
      BY <1>0, <2>1, SavedRows
    <2>3. \A i \in DOMAIN thread[t].todo : row[thread[t].todo[i]] # NoRow
      BY DEF Orderly, AllPlaced, Placed
    <2> QED BY <2>1, <2>2, <2>3
  <1>3. t = Loop
    <2>1. ASSUME t \in Notebooks PROVE FALSE
      <3>1. WorkerAdvanced(thread[t]) /\ thread[t].pc \notin {"idle", "stopped"} /\ PlacedAt(thread[t].pc, j)
        BY <1>0, <1>2, <2>1 DEF Advancing, RestHasNoJob, Orderly, AllPlaced, Placed
      <3> QED BY <1>2, <3>1 DEF WorkerAdvanced, PlacedAt, WorkerLocations, AliasLocations, Ends, NoRow
    <2> QED BY <2>1
  <1>4. CASE SaveQueued \/ SaveAlias
    <2>1. Goto(Loop, "enqueue") \/ Goto(Loop, "register")
      BY <1>4 DEF SaveQueued, SaveAlias, Raises
    <2>2. thread'[Loop].job = j /\ thread'[Loop].pc \in {"enqueue", "register"}
      BY <1>0, <1>2, <1>3, <2>1, ThreadGoes
    <2> QED BY <1>0, <2>2 DEF Owned, Writes, AliasLocations
  <1>5. CASE SaveSubmitFailed
    <2>1. row' = Saved(row, j, "failed")
      BY <1>0, <1>2, <1>3, <1>5 DEF SaveSubmitFailed, SaveBestEffort, Save, Raises
    <2>2. row'[j] = "failed"
      BY <1>0, <2>1, SavedRows
    <2> QED BY <2>2 DEF InflightStates
  <1>6. ASSUME SaveAliasRunning(Loop) \/ SaveAliasFinal(Loop)
        PROVE  FALSE
    <2>1. thread[Loop].todo # <<>>
      BY <1>0, <1>6 DEF SaveAliasRunning, SaveAliasFinal, At, Shape, AliasInHand
    <2>2. PICK head : head = Head(thread[Loop].todo)
      OBVIOUS
    <2>3. head \in Jobs /\ row[head] \in JobStates
      BY <1>0, <2>1, <2>2, HeadOfTodo
    <2>4. \E state : row' = Saved(row, head, state)
      BY <1>0, <1>6, <2>2 DEF SaveAliasRunning, SaveAliasFinal, SaveBestEffort, Save, Raises
    <2>5. head = j
      BY <1>0, <2>3, <2>4, SavedRows
    <2> QED BY <2>3, <2>5 DEF JobStates, InflightStates, TerminalStates, NoRow
  <1>7. ASSUME Enqueue \/ UndoAdmission \/ ReadOriginal \/ AppendAlias \/ SubmitDone \/ ReadAlias(Loop)
        PROVE  UNCHANGED row
    BY <1>7 DEF Enqueue, UndoAdmission, ReadOriginal, AppendAlias, SubmitDone, ReadAlias, Raises
  <1> QED BY <1>0, <1>3, <1>4, <1>5, <1>6, <1>7 DEF SubmitStep

LEMMA InflightStep ==
  ASSUME ~Raises("save"), ~Raises("get"), Apart, Advancing, AppendSafe, RestHasNoJob,
         AllOwned, [Next]_vars
  PROVE  AllOwned'
  <1> SUFFICES ASSUME up', NEW j \in Jobs, row'[j] \in InflightStates
               PROVE  j \in Owned'
    BY DEF AllOwned
  <1>0. /\ Loop \in Threads /\ Notebooks \subseteq Threads /\ Orderly /\ Shape
        /\ row \in [Jobs -> RowStates]
    BY DEF Threads, Apart, Orderly, Truthful, Shape, TypeOK
  <1>1. ~Crash
    BY DEF Crash
  <1>2. ~Start
    BY <1>0 DEF Start, Abandoned, InflightStates
  <1>3. up
    <2>1. SubmitStep \/ (\E n \in Notebooks : WorkerStep(n)) => UNCHANGED up
      BY <1>0, LoopActs, WorkerActs DEF Acts
    <2>2. ASSUME NEW info \in JobInfo, SubmitAccepted(info) \/ SubmitCoalesced(info) PROVE UNCHANGED up
      BY <1>0, <2>2, SubmitFacts
    <2> QED BY <1>0, <1>1, <1>2, <2>1, <2>2, QuietSteps
  <1>4. row'[j] \notin TerminalStates
    BY DEF InflightStates, TerminalStates
  <1>5. CASE row[j] \in InflightStates
    BY <1>1, <1>3, <1>4, <1>5, OwnedStep DEF AllOwned
  <1>6. CASE row[j] \notin InflightStates
    <2>1. row[j] = NoRow
      <3>1. row[j] \notin TerminalStates
        BY <1>0, <1>4, RowFate
      <3> QED BY <1>0, <1>6, <3>1 DEF RowStates, JobStates
    <2>2. ~UNCHANGED row
      BY <1>6
    <2>3. ~(\E info \in JobInfo : SubmitAccepted(info) \/ SubmitCoalesced(info))
      BY <2>2 DEF SubmitAccepted, SubmitCoalesced
    <2>4. SubmitStep \/ \E n \in Notebooks : WorkerStep(n)
      BY <1>0, <1>1, <1>2, <2>2, <2>3, QuietSteps
    <2> QED BY <1>0, <2>1, <2>4, FirstRow
  <1> QED BY <1>5, <1>6

\* What raises is counted.
LEMMA FaultsCounted ==
  ASSUME Shape, [Next]_vars, faults' = 0
  PROVE  faults = 0 /\ ~Raises("save") /\ ~Raises("get")
  <1>0. faults \in Nat
    BY DEF Shape, TypeOK
  <1>1. ASSUME NEW op, Raises(op) PROVE faults' = faults + 1
    BY <1>1 DEF Raises
  <1>2. ASSUME Submit PROVE faults' = faults
    BY <1>2 DEF Submit, SubmitAccepted, SubmitCoalesced, SubmitRejected
  <1>3. ASSUME \/ SaveQueued \/ Enqueue \/ UndoAdmission \/ SaveSubmitFailed \/ SaveAlias
               \/ ReadOriginal \/ AppendAlias \/ SubmitDone \/ ClockTick \/ ShutDown \/ Crash
               \/ Start \/ UNCHANGED vars
        PROVE  faults' = faults \/ faults' = faults + 1
    BY <1>1, <1>3 DEF SaveQueued, Enqueue, UndoAdmission, SaveSubmitFailed, SaveAlias, ReadOriginal,
       AppendAlias, SubmitDone, ClockTick, ShutDown, Crash, Start, vars, Save, SaveBestEffort
  <1>4. ASSUME NEW t,
               \/ ReadAlias(t) \/ SaveAliasRunning(t) \/ SaveAliasFinal(t) \/ TakeJob(t)
               \/ StopWorker(t) \/ MarkRunning(t) \/ Prepare(t) \/ Deliver(t)
               \/ RecordOutcome(t) \/ SaveFinal(t) \/ PopAliases(t) \/ CompleteJob(t)
        PROVE  faults' = faults \/ faults' = faults + 1
    BY <1>1, <1>4 DEF ReadAlias, SaveAliasRunning, SaveAliasFinal, TakeJob, StopWorker, MarkRunning,
       Prepare, Deliver, RecordOutcome, SaveFinal, PopAliases, CompleteJob, Save, SaveBestEffort
  <1>5. faults' = faults \/ faults' = faults + 1
    BY <1>2, <1>3, <1>4 DEF Next, SubmitStep, WorkerStep
  <1> QED BY <1>0, <1>1, <1>5

\* What the two theorems below rest on.
Going == Advancing /\ ActiveRecorded /\ AppendSafe /\ AllOwned
GoingSoFar == faults = 0 => Going

LEMMA GoingInvariant == Spec => []GoingSoFar
  <1>1. Init => GoingSoFar
    <2> SUFFICES ASSUME Init PROVE Going
      BY DEF GoingSoFar
    <2>1. /\ \A t \in Threads : thread[t].pc = "idle"
          /\ \A f \in Fingerprints : active[f] = NoJob
          /\ \A j \in Jobs : row[j] = NoRow
      BY DEF Init, Idle, AdmissionInit, AdmissionEmpty
    <2>2. Loop \in Threads /\ Notebooks \subseteq Threads
      BY DEF Threads
    <2>3. Advancing
      BY <2>1, <2>2 DEF Advancing, WorkerAdvanced, LoopAdvanced, AliasBegun, WorkerLocations, LoopLocations,
         AliasLocations
    <2>4. ActiveRecorded /\ AppendSafe /\ AllOwned
      BY <2>1, <2>2 DEF ActiveRecorded, AppendSafe, At, AllOwned, InflightStates, NoRow
    <2> QED BY <2>3, <2>4 DEF Going
  <1>2. GoingSoFar /\ Apart /\ RestHasNoJob /\ [Next]_vars => GoingSoFar'
    <2> SUFFICES ASSUME faults = 0 => Going, Apart, RestHasNoJob, [Next]_vars, faults' = 0
                 PROVE  Going'
      BY DEF GoingSoFar
    <2>0. faults = 0 /\ ~Raises("save") /\ ~Raises("get")
      BY FaultsCounted DEF Apart, Orderly, Truthful
    <2>1. Orderly /\ Advancing /\ ActiveRecorded /\ AppendSafe /\ AllOwned
      BY <2>0 DEF Apart, Going
    <2>2. Advancing'
      BY <2>0, <2>1, AdvancingStep
    <2>3. ActiveRecorded'
      BY <2>0, <2>1, ActiveRecordedStep
    <2>4. AppendSafe'
      BY <2>0, <2>1, AppendSafeStep
    <2>5. AllOwned'
      BY <2>0, <2>1, InflightStep
    <2> QED BY <2>2, <2>3, <2>4, <2>5 DEF Going
  <1> QED BY <1>1, <1>2, ApartInvariant, AdmittedInvariant, PTL DEF Spec

\* As long as no call of the store has raised, no row shows queued or running
\* unless somebody in the running server will still end it: a coalesced alias that is
\* registered while its original ends, a submission to a closed pool, failed deliveries,
\* and restarts at any point included.  What carries it: an alias is registered only
\* while the worker of its original has yet to take the aliases, and a worker takes them
\* only when the row of its job has ended.
THEOREM InflightIsOwned == Spec => []InflightOwned
  <1>1. GoingSoFar => InflightOwned
    BY DEF GoingSoFar, Going, AllOwned, InflightOwned
  <1> QED BY <1>1, GoingInvariant, PTL

----------------------------------------------------------------------------
(* An alias ends as its original did.                                      *)

\* The thread that ends an alias has the end of the alias's original.
LEMMA AliasEnd ==
  ASSUME ~Raises("save"), Orderly, Advancing, NEW t \in Threads, SaveAliasFinal(t),
         NEW j \in Jobs, row'[j] # row[j]
  PROVE  /\ row'[j] = thread[t].final /\ thread[t].final \in Ends
         /\ coalescedInto[j] \in Jobs /\ row[coalescedInto[j]] = thread[t].final
  <1>0. /\ row \in [Jobs -> RowStates] /\ Truthful /\ Shape /\ thread[t].pc = "alias final"
        /\ t = Loop \/ t \in Notebooks
    BY DEF Threads, Orderly, Truthful, Shape, TypeOK, SaveAliasFinal, At
  <1>1. thread[t].todo # <<>>
    BY <1>0 DEF Shape, AliasInHand
  <1>2. PICK head : head = Head(thread[t].todo)
    OBVIOUS
  <1>3. row' = Saved(row, head, thread[t].final)
    BY <1>2 DEF SaveAliasFinal, SaveBestEffort, Save, Raises
  <1>4. head \in Jobs /\ coalescedInto[head] = Original(thread[t].job) /\ Original(thread[t].job) \in Jobs
    BY <1>1, <1>2, HeadOfTodo
  <1>5. j = head /\ row'[j] = thread[t].final
    <2>1. ASSUME NEW job \in Jobs, NEW state, row' = Saved(row, job, state)
          PROVE  j = job /\ row'[j] = state
      <3>1. PICK after : after = row'
        OBVIOUS
      <3>2. row \in [Jobs -> RowStates]
        BY <1>0
      <3>3. after[j] = row[j] \/ (j = job /\ after[j] = state)
        BY <2>1, <3>1, <3>2, SavedRows
      <3> QED BY <3>1, <3>3
    <2>2. PICK final : final = thread[t].final
      OBVIOUS
    <2>3. row' = Saved(row, head, final)
      BY <1>3, <2>2
    <2>4. head \in Jobs
      BY <1>4
    <2>5. j = head /\ row'[j] = final
      BY <2>1, <2>3, <2>4
    <2> QED BY <2>2, <2>5
  <1>6. thread[t].final \in Ends /\ row[Original(thread[t].job)] = thread[t].final
    <2>1. CASE t = Loop
      <3>1. LoopAdvanced(thread[t])
        BY <2>1 DEF Advancing
      <3>2. PICK o : o = coalescedInto[thread[t].job]
        OBVIOUS
      <3>3. thread[t].final \in Ends /\ o \in Jobs /\ row[o] = thread[t].final
        BY <1>0, <3>1, <3>2 DEF LoopAdvanced, AliasLocations
      <3>4. o # NoJob
        BY <3>3 DEF Jobs, NoJob
      <3>5. Original(thread[t].job) = o
        BY <3>2, <3>4 DEF Original
      <3> QED BY <3>3, <3>5
    <2>2. CASE t \in Notebooks
      <3>1. WorkerAdvanced(thread[t]) /\ t # Loop
        BY <2>2, CoordinatorAssumption DEF Advancing
      <3>2. Original(thread[t].job) = thread[t].job
        BY <1>0, <3>1, HandFacts DEF Original
      <3> QED BY <1>0, <3>1, <3>2 DEF WorkerAdvanced, AliasLocations
    <2> QED BY <1>0, <2>1, <2>2
  <1> QED BY <1>4, <1>5, <1>6

\* Nothing else ends the row of an alias.
LEMMA AliasEndsOnlyThere ==
  ASSUME ~Raises("save"), ~Raises("get"), Orderly, Advancing, [Next]_vars,
         NEW j \in Jobs, row'[j] # row[j], row'[j] \in Ends, coalescedInto[j] # NoJob
  PROVE  \E t \in Threads : SaveAliasFinal(t)
  <1>0. /\ row \in [Jobs -> RowStates] /\ Truthful /\ Shape
        /\ Loop \in Threads /\ Notebooks \subseteq Threads /\ Loop \notin Notebooks
        /\ ~UNCHANGED row
    BY CoordinatorAssumption DEF Threads, Orderly, Truthful, Shape, TypeOK
  <1>1. ASSUME NEW job \in Jobs, NEW state, row' = Saved(row, job, state)
        PROVE  j = job /\ row'[j] = state
    BY <1>0, <1>1, SavedRows
  <1>2. ASSUME NEW n \in Notebooks, MarkRunning(n) \/ Prepare(n) \/ RecordOutcome(n) \/ SaveFinal(n)
        PROVE  FALSE
    <2>1. /\ \E state : row' = Saved(row, thread[n].job, state)
          /\ thread[n].pc \notin {"idle", "stopped"}
      BY <1>0, <1>2 DEF MarkRunning, Prepare, RecordOutcome, SaveFinal, SaveBestEffort, Save, Raises, At
    <2>2. thread[n].job \in Jobs /\ coalescedInto[thread[n].job] = NoJob
      BY <1>0, <2>1, HandFacts
    <2> QED BY <1>1, <2>1, <2>2
  <1>3. ASSUME NEW t \in Threads, SaveAliasRunning(t)
        PROVE  FALSE
    <2>1. thread[t].todo # <<>>
      BY <1>0, <1>3 DEF SaveAliasRunning, At, Shape, AliasInHand
    <2>2. PICK head : head = Head(thread[t].todo)
      OBVIOUS
    <2>3. head \in Jobs /\ row' = Saved(row, head, "running")
      BY <1>3, <2>1, <2>2, HeadOfTodo DEF SaveAliasRunning, SaveBestEffort, Save, Raises
    <2> QED BY <1>1, <2>3 DEF Ends
  <1>4. ASSUME SaveQueued \/ SaveAlias
        PROVE  FALSE
    <2>1. row' = Saved(row, thread[Loop].job, "queued") /\ thread[Loop].job \in Jobs
      BY <1>0, <1>4, HandFacts DEF SaveQueued, SaveAlias, Save, Raises, At
    <2> QED BY <1>1, <2>1 DEF Ends
  <1>5. ASSUME SaveSubmitFailed
        PROVE  FALSE
    <2>1. row' = Saved(row, thread[Loop].job, "failed") /\ thread[Loop].job \in Jobs
      BY <1>0, <1>5, HandFacts DEF SaveSubmitFailed, SaveBestEffort, Save, Raises, At
    <2>2. coalescedInto[thread[Loop].job] = NoJob
      BY <1>5 DEF SaveSubmitFailed, At, Advancing, LoopAdvanced
    <2> QED BY <1>1, <2>1, <2>2
  <1>6. ASSUME \/ Enqueue \/ UndoAdmission \/ ReadOriginal \/ AppendAlias \/ SubmitDone
               \/ (\E t \in Threads : ReadAlias(t))
               \/ (\E n \in Notebooks : \/ TakeJob(n) \/ StopWorker(n) \/ Deliver(n) \/ PopAliases(n)
                                        \/ CompleteJob(n))
        PROVE  UNCHANGED row
    BY <1>6 DEF Enqueue, UndoAdmission, ReadOriginal, AppendAlias, SubmitDone, ReadAlias, TakeJob,
       StopWorker, Deliver, PopAliases, CompleteJob, Raises
  <1>7. ~Start
    BY <1>0 DEF Start, Abandoned, Ends
  <1>8. ~Crash /\ ~(\E info \in JobInfo : SubmitAccepted(info) \/ SubmitCoalesced(info))
    BY <1>0 DEF Crash, SubmitAccepted, SubmitCoalesced
  <1>9. CASE SubmitStep
    BY <1>0, <1>3, <1>4, <1>5, <1>6, <1>9 DEF SubmitStep
  <1>10. ASSUME NEW n \in Notebooks, WorkerStep(n)
         PROVE  \E t \in Threads : SaveAliasFinal(t)
    BY <1>0, <1>2, <1>3, <1>6, <1>10 DEF WorkerStep
  <1> QED BY <1>0, <1>7, <1>8, <1>9, <1>10, QuietSteps

LEMMA AliasAgreesStep ==
  ASSUME ~Raises("save"), ~Raises("get"), Orderly, Advancing, AllAgree, [Next]_vars
  PROVE  AllAgree'
  <1> SUFFICES ASSUME NEW j \in Jobs, coalescedInto'[j] # NoJob, row'[j] \in Ends
               PROVE  row'[coalescedInto'[j]] = row'[j]
    BY DEF AllAgree, Ends
  <1>0. row \in [Jobs -> RowStates] /\ Truthful /\ Shape
    BY DEF Orderly, Truthful, Shape, TypeOK
  <1>1. Drawn(j) /\ coalescedInto'[j] = coalescedInto[j]
    <2>1. row[j] # NoRow => Drawn(j)
      BY <1>0 DEF Truthful, RowsAreDrawn
    <2>2. ASSUME NEW info \in JobInfo, SubmitAccepted(info) \/ SubmitCoalesced(info)
          PROVE  row'[j] = row[j]
      BY <2>2 DEF SubmitAccepted, SubmitCoalesced
    <2>3. ASSUME row[j] = NoRow, ~(\E info \in JobInfo : SubmitAccepted(info) \/ SubmitCoalesced(info))
          PROVE  Drawn(j)
      <3>1. Drawn(j)' /\ UNCHANGED <<request, coalescedInto>>
        <4>1. RowsAreDrawn'
          BY <1>0, RowsStep
        <4> QED BY <2>3, <4>1, HistorySteps DEF RowsAreDrawn, Ends, NoRow
      <3> QED BY <3>1 DEF Drawn
    <2>4. Drawn(j)
      BY <2>1, <2>2, <2>3 DEF Ends, NoRow
    <2> QED BY <1>0, <2>4, HistoryStays
  <1>2. PICK o : o = coalescedInto[j]
    OBVIOUS
  <1>3. o \in Jobs
    BY <1>0, <1>1, <1>2 DEF Truthful, OriginalsAnswer, Answers, Original
  <1>4. ASSUME row[o] = row'[j]
        PROVE  row'[o] = row'[j]
    <2>1. row[o] \in TerminalStates
      BY <1>4 DEF Ends, TerminalStates
    <2> QED BY <1>0, <1>3, <1>4, <2>1, RowFate
  <1>5. CASE row'[j] = row[j]
    BY <1>1, <1>2, <1>4, <1>5 DEF AllAgree, Ends
  <1>6. CASE row'[j] # row[j]
    <2>1. PICK t \in Threads : SaveAliasFinal(t)
      BY <1>1, <1>6, AliasEndsOnlyThere
    <2>2. row[o] = row'[j]
      BY <1>2, <1>6, <2>1, AliasEnd
    <2> QED BY <1>1, <1>2, <1>4, <2>2
  <1> QED BY <1>5, <1>6

\* As long as no call of the store has raised, an alias that ends, ends as its
\* original did, whichever of the worker and the event loop records it.  (A restart may
\* still abandon an alias whose original has ended.)
THEOREM AliasesAgree == Spec => []AliasAgrees
  <1> DEFINE AgreeSoFar == faults = 0 => AllAgree
  <1>1. Init => AgreeSoFar
    BY DEF Init, AllAgree
  <1>2. AgreeSoFar /\ Orderly /\ GoingSoFar /\ [Next]_vars => AgreeSoFar'
    <2> SUFFICES ASSUME faults = 0 => AllAgree, Orderly, GoingSoFar, [Next]_vars, faults' = 0
                 PROVE  AllAgree'
      OBVIOUS
    <2>1. faults = 0 /\ ~Raises("save") /\ ~Raises("get")
      BY FaultsCounted DEF Orderly, Truthful
    <2> QED BY <2>1, AliasAgreesStep DEF Going, GoingSoFar
  <1>3. AgreeSoFar => AliasAgrees
    BY DEF AllAgree, AliasAgrees, Ends
  <1> HIDE DEF AgreeSoFar
  <1> QED BY <1>1, <1>2, <1>3, OrderlyInvariant, GoingInvariant, PTL DEF Spec
=============================================================================
