----------------------- MODULE SnapshotDeliveryProofs -----------------------
(***************************************************************************)
(* Proofs that no row says persisted without a delivery, and that the      *)
(* coordinator implements the log a user is promised: for any notebooks    *)
(* and runs, any faults of the store and any number of restarts.           *)
(***************************************************************************)
EXTENDS SnapshotCoordinatorProofs

Drawn(j)     == request[j] # NoInfo
Delivered(j) == deliveredAt[j] # Never

\* Job o executes, and its outcome is that of job j too: j is o or was coalesced into o.
Answers(j, o) ==
  /\ j \in Jobs /\ o \in Jobs
  /\ Drawn(j) /\ Drawn(o)
  /\ Original(j) = o /\ coalescedInto[o] = NoJob

\* Job j is an alias of job o.
Coalesced(j, o) == Answers(j, o) /\ coalescedInto[j] = o

OriginalsAnswer ==
  \A j \in Jobs : IF Drawn(j) THEN Answers(j, Original(j)) ELSE coalescedInto[j] = NoJob

\* What is active is executed, so a submission is never coalesced into an alias.
ActiveAnswer == \A f \in Fingerprints : active[f] # NoJob => Answers(active[f], active[f])

\* What thread t may have in its state s: a job of its own kind, aliases of the same
\* original, and success only when the original was delivered.
Sincere(t, s) ==
  /\ s.job # NoJob => Answers(s.job, Original(s.job))
  /\ t # Loop /\ s.job # NoJob => Answers(s.job, s.job)
  /\ s.pc \in {"save queued", "enqueue"} => Answers(s.job, s.job)
  /\ s.pc \in {"save alias", "register", "append"} => Answers(s.job, coalescedInto[s.job])
  /\ \A i \in DOMAIN s.todo : \E o \in Jobs : Answers(s.job, o) /\ Coalesced(s.todo[i], o)
  /\ s.final = "persisted" => \E o \in Jobs : Answers(s.job, o) /\ Delivered(o)

AllSincere == \A t \in Threads : Sincere(t, thread[t])

QueuedAnswer ==
  \A n \in Notebooks : \A i \in DOMAIN queue[n] :
    queue[n][i] # NoJob => Answers(queue[n][i], queue[n][i])

WaitingAnswer == \A j \in Jobs : \A i \in DOMAIN aliases[j] : Coalesced(aliases[j][i], j)

RowsAreDrawn == \A j \in Jobs : row[j] # NoRow => Drawn(j)

Truthful ==
  /\ Shape
  /\ OriginalsAnswer /\ ActiveAnswer /\ AllSincere /\ QueuedAnswer /\ WaitingAnswer
  /\ RowsAreDrawn /\ PersistedIsDelivered

----------------------------------------------------------------------------
(* What stays true of a drawn job.                                         *)

LEMMA EmptyDomain == DOMAIN <<>> = {}
  OBVIOUS

LEMMA AppendElements ==
  ASSUME NEW S, NEW s \in Seq(S), NEW e, NEW long, long = Append(s, e), NEW i \in DOMAIN long
  PROVE  long[i] = e \/ (\E k \in DOMAIN s : long[i] = s[k])
  OBVIOUS

LEMMA TailElements ==
  ASSUME NEW S, NEW s \in Seq(S), s # <<>>
  PROVE  /\ 1 \in DOMAIN s /\ Head(s) = s[1]
         /\ \A i \in DOMAIN Tail(s) : i + 1 \in DOMAIN s /\ Tail(s)[i] = s[i + 1]
  OBVIOUS

\* Submissions alone write the history, and only of the job they draw.
LEMMA HistorySteps ==
  ASSUME [Next]_vars
  PROVE  \/ UNCHANGED <<request, coalescedInto>>
         \/ \E info \in JobInfo : SubmitAccepted(info) \/ SubmitCoalesced(info)
  <1>1. ASSUME NEW info \in JobInfo, SubmitRejected(info)
        PROVE  UNCHANGED <<request, coalescedInto>>
    BY <1>1 DEF SubmitRejected, historyVars
  <1>2. CASE \/ SaveQueued \/ Enqueue \/ UndoAdmission \/ SaveSubmitFailed \/ SaveAlias
             \/ ReadOriginal \/ AppendAlias \/ SubmitDone \/ ClockTick \/ ShutDown \/ Crash
             \/ Start \/ UNCHANGED vars
    BY <1>2 DEF SaveQueued, Enqueue, UndoAdmission, SaveSubmitFailed, SaveAlias, ReadOriginal,
         AppendAlias, SubmitDone, ClockTick, ShutDown, Crash, Start, vars, StoreOnly, historyVars
  <1>3. ASSUME NEW t,
               \/ ReadAlias(t) \/ SaveAliasRunning(t) \/ SaveAliasFinal(t) \/ TakeJob(t)
               \/ StopWorker(t) \/ MarkRunning(t) \/ Prepare(t) \/ Deliver(t)
               \/ RecordOutcome(t) \/ SaveFinal(t) \/ PopAliases(t) \/ CompleteJob(t)
        PROVE  UNCHANGED <<request, coalescedInto>>
    BY <1>3 DEF ReadAlias, SaveAliasRunning, SaveAliasFinal, TakeJob, StopWorker, MarkRunning,
         Prepare, Deliver, RecordOutcome, SaveFinal, PopAliases, CompleteJob, StoreOnly, historyVars
  <1> QED BY <1>1, <1>2, <1>3 DEF Next, Submit, SubmitStep, WorkerStep

LEMMA DeliverySteps ==
  ASSUME [Next]_vars
  PROVE  \/ UNCHANGED deliveredAt
         \/ \E n \in Notebooks : Deliver(n) /\ deliveredAt' = [deliveredAt EXCEPT ![thread[n].job] = now]
  <1>1. ASSUME NEW n \in Notebooks, Deliver(n)
        PROVE  \/ UNCHANGED deliveredAt
               \/ deliveredAt' = [deliveredAt EXCEPT ![thread[n].job] = now]
    BY <1>1 DEF Deliver
  <1>2. CASE Submit
    BY <1>2 DEF Submit, SubmitAccepted, SubmitCoalesced, SubmitRejected
  <1>3. CASE \/ SaveQueued \/ Enqueue \/ UndoAdmission \/ SaveSubmitFailed \/ SaveAlias
             \/ ReadOriginal \/ AppendAlias \/ SubmitDone \/ ClockTick \/ ShutDown \/ Crash
             \/ Start \/ UNCHANGED vars
    BY <1>3 DEF SaveQueued, Enqueue, UndoAdmission, SaveSubmitFailed, SaveAlias, ReadOriginal,
         AppendAlias, SubmitDone, ClockTick, ShutDown, Crash, Start, vars, StoreOnly
  <1>4. ASSUME NEW t,
               \/ ReadAlias(t) \/ SaveAliasRunning(t) \/ SaveAliasFinal(t) \/ TakeJob(t)
               \/ StopWorker(t) \/ MarkRunning(t) \/ Prepare(t)
               \/ RecordOutcome(t) \/ SaveFinal(t) \/ PopAliases(t) \/ CompleteJob(t)
        PROVE  UNCHANGED deliveredAt
    BY <1>4 DEF ReadAlias, SaveAliasRunning, SaveAliasFinal, TakeJob, StopWorker, MarkRunning,
         Prepare, RecordOutcome, SaveFinal, PopAliases, CompleteJob, StoreOnly
  <1> QED BY <1>1, <1>2, <1>3, <1>4 DEF Next, SubmitStep, WorkerStep

\* What was drawn stays as it was, and what was delivered stays delivered.
LEMMA HistoryStays ==
  ASSUME Shape, [Next]_vars, NEW j \in Jobs
  PROVE  /\ Drawn(j) => request'[j] = request[j] /\ coalescedInto'[j] = coalescedInto[j]
         /\ Delivered(j) => Delivered(j)'
  <1>1. Delivered(j) => Delivered(j)'
    <2>1. now # Never
      BY AdmissionAssumption DEF Shape, TypeOK, AdmissionTypeOK
    <2> QED BY <2>1, DeliverySteps DEF Delivered, Shape, TypeOK
  <1>2. ASSUME Drawn(j), NEW info \in JobInfo, SubmitAccepted(info) \/ SubmitCoalesced(info)
        PROVE  request'[j] = request[j] /\ coalescedInto'[j] = coalescedInto[j]
    <2>1. NextJob \in Jobs /\ NextJob # j
      BY <1>2, NextJobIsFresh DEF SubmitAccepted, SubmitCoalesced, MaySubmit, Shape, Drawn
    <2> QED BY <1>2, <2>1 DEF SubmitAccepted, SubmitCoalesced, Begin, Shape, TypeOK
  <1> QED BY <1>1, <1>2, HistorySteps

LEMMA AnswersStays ==
  ASSUME Shape, [Next]_vars, NEW j, NEW o, Answers(j, o)
  PROVE  Answers(j, o)'
  BY HistoryStays DEF Answers, Drawn, Original

LEMMA CoalescedStays ==
  ASSUME Shape, [Next]_vars, NEW j, NEW o, Coalesced(j, o)
  PROVE  Coalesced(j, o)'
  BY AnswersStays, HistoryStays DEF Coalesced, Answers

LEMMA SincereStays ==
  ASSUME Shape, [Next]_vars, NEW t, NEW s, Sincere(t, s)
  PROVE  Sincere(t, s)'
  <1>1. s.job # NoJob => Answers(s.job, Original(s.job))'
    <2>1. ASSUME s.job # NoJob
          PROVE  Answers(s.job, Original(s.job))'
      <3>1. PICK o : o = Original(s.job)
        OBVIOUS
      <3>2. Answers(s.job, o)
        BY <2>1, <3>1 DEF Sincere
      <3>3. Answers(s.job, o)'
        BY <3>2, AnswersStays
      <3> QED BY <3>3 DEF Answers
    <2> QED BY <2>1
  <1>2. t # Loop /\ s.job # NoJob => Answers(s.job, s.job)'
    BY AnswersStays DEF Sincere
  <1>3. s.pc \in {"save queued", "enqueue"} => Answers(s.job, s.job)'
    BY AnswersStays DEF Sincere
  <1>4. ASSUME s.pc \in {"save alias", "register", "append"}
        PROVE  Answers(s.job, coalescedInto[s.job])'
    <2>1. PICK o : o = coalescedInto[s.job]
      OBVIOUS
    <2>2. Answers(s.job, o)
      BY <1>4, <2>1 DEF Sincere
    <2>3. Answers(s.job, o)' /\ coalescedInto'[s.job] = o
      BY <2>1, <2>2, AnswersStays, HistoryStays DEF Answers
    <2> QED BY <2>3 DEF Answers
  <1>5. ASSUME NEW i \in DOMAIN s.todo
        PROVE  \E o \in Jobs : Answers(s.job, o)' /\ Coalesced(s.todo[i], o)'
    BY AnswersStays, CoalescedStays DEF Sincere
  <1>6. s.final = "persisted" => \E o \in Jobs : Answers(s.job, o)' /\ Delivered(o)'
    BY AnswersStays, HistoryStays DEF Sincere
  <1> QED BY <1>1, <1>2, <1>3, <1>4, <1>5, <1>6 DEF Sincere

LEMMA SincereIdle ==
  ASSUME NEW t
  PROVE  Sincere(t, Idle)
  BY DEF Sincere, Idle, NoRow

----------------------------------------------------------------------------
(* What threads have in hand.                                              *)

\* A step of thread t to a sincere state leaves every thread sincere.
LEMMA OneThread ==
  ASSUME Truthful, [Next]_vars, NEW t \in Threads, NEW s, Sincere(t, s)',
         thread' = [thread EXCEPT ![t] = s]
  PROVE  AllSincere'
  <1>1. \A u \in Threads : Sincere(u, thread[u])'
    BY SincereStays DEF Truthful, AllSincere
  <1> QED BY <1>1 DEF AllSincere, Truthful, Shape, TypeOK

\* Going on with the same job, the same aliases and the same outcome.
LEMMA GotoSincere ==
  ASSUME Truthful, [Next]_vars, NEW t \in Threads, NEW pc, Goto(t, pc),
         pc \in {"save queued", "enqueue"} => Answers(thread[t].job, thread[t].job),
         pc \in {"save alias", "register", "append"}
           => Answers(thread[t].job, coalescedInto[thread[t].job])
  PROVE  AllSincere'
  <1> DEFINE s == [thread[t] EXCEPT !.pc = pc]
  <1>1. /\ s.pc = pc /\ s.job = thread[t].job /\ s.todo = thread[t].todo
        /\ s.final = thread[t].final
    BY DEF Truthful, Shape, TypeOK, ThreadStates
  <1>2. thread' = [thread EXCEPT ![t] = s]
    BY DEF Goto
  <1> HIDE DEF s
  <1>3. Sincere(t, s)
    BY <1>1 DEF Sincere, Truthful, AllSincere
  <1> QED BY <1>2, <1>3, SincereStays, OneThread DEF Truthful

\* Giving up on the job.
LEMMA FailSincere ==
  ASSUME Truthful, [Next]_vars, NEW t \in Threads, NEW pc \in {"record", "save final"},
         Conclude(t, pc, "failed")
  PROVE  AllSincere'
  <1> DEFINE s == [thread[t] EXCEPT !.pc = pc, !.final = "failed"]
  <1>1. /\ s.pc = pc /\ s.job = thread[t].job /\ s.todo = thread[t].todo
        /\ s.final = "failed"
    BY DEF Truthful, Shape, TypeOK, ThreadStates
  <1>2. thread' = [thread EXCEPT ![t] = s]
    BY DEF Conclude
  <1> HIDE DEF s
  <1>3. Sincere(t, s)
    BY <1>1 DEF Sincere, Truthful, AllSincere
  <1> QED BY <1>2, <1>3, SincereStays, OneThread DEF Truthful

LEMMA ReturnSincere ==
  ASSUME Truthful, [Next]_vars, NEW t \in Threads, Return(t)
  PROVE  AllSincere'
  BY SincereIdle, SincereStays, OneThread DEF Return, Truthful

\* A new submission executes its job, or has one that is active executed for it.
LEMMA SubmitSincere ==
  ASSUME Truthful, NEW info \in JobInfo, SubmitAccepted(info) \/ SubmitCoalesced(info),
         NEW new, new = NextJob
  PROVE  AllSincere' /\ OriginalsAnswer' /\ (SubmitAccepted(info) => Answers(new, new)')
  <1>1. new = NextJob
    OBVIOUS
  <1>2. new \in Jobs /\ ~Drawn(new) /\ info # NoInfo
    BY <1>1, NextJobIsFresh, InfoType DEF SubmitAccepted, SubmitCoalesced, MaySubmit, Truthful, Shape, Drawn
  <1>3. Next
    BY DEF Next, Submit
  <1>4. Loop \in Threads /\ Idle.todo = <<>> /\ Idle.final = "none"
    BY DEF Threads, Idle, NoRow
  <1>5. Drawn(new)'
    BY <1>1, <1>2 DEF SubmitAccepted, SubmitCoalesced, Begin, Drawn, Truthful, Shape, TypeOK
  <1>6. \A j \in Jobs : Drawn(j)' => Drawn(j) \/ j = new
    BY <1>1 DEF SubmitAccepted, SubmitCoalesced, Begin, Drawn, Truthful, Shape, TypeOK
  <1>7. ASSUME NEW pc \in {"save queued", "save alias"}, NEW o, Begin(pc, info), Answers(new, o)',
               IF pc = "save queued" THEN o = new ELSE o = coalescedInto'[new]
        PROVE  AllSincere' /\ OriginalsAnswer'
    <2>0. PICK s : s = [Idle EXCEPT !.pc = pc, !.job = new]
      OBVIOUS
    <2>1. s.pc = pc /\ s.job = new /\ s.todo = <<>> /\ s.final = "none"
      BY <1>4, <2>0 DEF Idle
    <2>2. thread' = [thread EXCEPT ![Loop] = s]
      BY <1>1, <1>7, <2>0 DEF Begin
    <2>3. Sincere(Loop, s)'
      <3>1. Answers(s.job, o)' /\ Original(s.job)' = o
        BY <1>7, <2>1 DEF Answers
      <3>2. Answers(s.job, Original(s.job))'
        BY <3>1 DEF Answers
      <3>3. pc = "save queued" => Answers(s.job, s.job)'
        BY <1>7, <2>1
      <3>4. pc = "save alias" => Answers(s.job, coalescedInto[s.job])'
        BY <1>7, <2>1 DEF Answers
      <3>5. pc \in {"save queued", "save alias"}
        BY <1>7
      <3>6. DOMAIN s.todo = {} /\ s.final # "persisted"
        BY <2>1, EmptyDomain
      <3>7. /\ s.pc \in {"save queued", "enqueue"} => pc = "save queued"
            /\ s.pc \in {"save alias", "register", "append"} => pc = "save alias"
        BY <2>1, <3>5
      <3> QED BY <3>2, <3>3, <3>4, <3>6, <3>7 DEF Sincere
    <2>4. ASSUME NEW j \in Jobs
          PROVE  IF Drawn(j)' THEN Answers(j, Original(j))' ELSE coalescedInto'[j] = NoJob
      <3>1. CASE j = new
        BY <1>5, <1>7, <3>1 DEF Answers
      <3>2. CASE j # new /\ Drawn(j)
        <4>1. PICK q : q = Original(j)
          OBVIOUS
        <4>2. Answers(j, q)
          BY <3>2, <4>1 DEF Truthful, OriginalsAnswer
        <4>3. Answers(j, q)'
          BY <1>3, <4>2, AnswersStays DEF Truthful
        <4> QED BY <4>3 DEF Answers
      <3>3. CASE j # new /\ ~Drawn(j)
        <4>1. coalescedInto'[j] = coalescedInto[j]
          BY <1>1, <3>3 DEF SubmitAccepted, SubmitCoalesced, Truthful, Shape, TypeOK
        <4> QED BY <1>6, <3>3, <4>1 DEF Truthful, OriginalsAnswer
      <3> QED BY <3>1, <3>2, <3>3
    <2> QED BY <1>3, <1>4, <2>2, <2>3, <2>4, OneThread DEF OriginalsAnswer
  <1>8. CASE SubmitAccepted(info)
    <2>1. coalescedInto' = coalescedInto /\ Begin("save queued", info)
      BY <1>8 DEF SubmitAccepted
    <2>2. coalescedInto'[new] = NoJob
      BY <1>2, <2>1 DEF Truthful, OriginalsAnswer
    <2>3. Answers(new, new)'
      BY <1>2, <1>5, <2>2 DEF Answers, Original
    <2> QED BY <1>7, <2>1, <2>3
  <1>9. CASE SubmitCoalesced(info)
    <2>0. PICK o : o = active[FingerprintOf(info)]
      OBVIOUS
    <2>1. o # NoJob /\ FingerprintOf(info) \in Fingerprints
      BY <1>9, <2>0, InfoType DEF SubmitCoalesced, Coalesce, Coalesces
    <2>2. Answers(o, o)
      BY <2>0, <2>1 DEF Truthful, ActiveAnswer
    <2>3. Answers(o, o)'
      BY <1>3, <2>2, AnswersStays DEF Truthful
    <2>4. coalescedInto'[new] = o /\ Begin("save alias", info)
      BY <1>1, <1>2, <1>9, <2>0 DEF SubmitCoalesced, Truthful, Shape, TypeOK
    <2>5. Answers(new, o)'
      BY <1>2, <1>5, <2>1, <2>3, <2>4 DEF Answers, Original
    <2>6. ~SubmitAccepted(info)
      BY <1>9 DEF SubmitAccepted, SubmitCoalesced, Accept, Coalesce
    <2> QED BY <1>7, <2>4, <2>5, <2>6
  <1> QED BY <1>8, <1>9

\* The steps of a submission.
LEMMA LoopSincere ==
  ASSUME Truthful, Next,
         \/ SaveQueued \/ Enqueue \/ UndoAdmission \/ SaveSubmitFailed
         \/ SaveAlias \/ ReadOriginal \/ AppendAlias \/ SubmitDone
  PROVE  AllSincere'
  <1>0. Loop \in Threads
    BY DEF Threads
  <1>1. \/ Return(Loop)
        \/ At(Loop, "save queued") /\ Goto(Loop, "enqueue")
        \/ At(Loop, "save alias") /\ Goto(Loop, "register")
        \/ At(Loop, "register") /\ Goto(Loop, "append")
        \/ Goto(Loop, "undo")
        \/ Goto(Loop, "save failed")
        \/ ReadOriginal
    BY DEF SaveQueued, Enqueue, UndoAdmission, SaveSubmitFailed, SaveAlias, AppendAlias, SubmitDone
  <1>2. Sincere(Loop, thread[Loop])
    BY <1>0 DEF Truthful, AllSincere
  <1>3. CASE ReadOriginal
    <2> DEFINE alias    == thread[Loop].job
               original == coalescedInto[alias]
               s        == [thread[Loop] EXCEPT !.pc = "aliases", !.final = row[original],
                                                !.todo = <<alias>>]
    <2>1. At(Loop, "register") /\ Answers(alias, original)
      BY <1>2, <1>3 DEF ReadOriginal, At, Sincere
    <2>2. \/ Goto(Loop, "append") \/ Goto(Loop, "save failed")
          \/ thread' = [thread EXCEPT ![Loop] = s]
      BY <1>3 DEF ReadOriginal
    <2>3. CASE Goto(Loop, "append") \/ Goto(Loop, "save failed")
      BY <1>0, <2>1, <2>3, GotoSincere
    <2>4. CASE thread' = [thread EXCEPT ![Loop] = s]
      <3>1. /\ s.pc = "aliases" /\ s.job = alias /\ s.final = row[original] /\ s.todo = <<alias>>
        BY <1>0 DEF Truthful, Shape, TypeOK, ThreadStates
      <3>2. row[original] = "persisted" => Delivered(original)
        BY <2>1 DEF Truthful, PersistedIsDelivered, Answers, Original, Delivered
      <3>3. Answers(alias, Original(alias)) /\ original \in Jobs
        BY <2>1 DEF Answers
      <3> HIDE DEF s
      <3>4. Sincere(Loop, s)
        BY <2>1, <3>1, <3>2, <3>3 DEF Sincere, Coalesced
      <3> QED BY <1>0, <2>4, <3>4, SincereStays, OneThread DEF Truthful
    <2> QED BY <2>2, <2>3, <2>4
  <1> QED BY <1>0, <1>1, <1>2, <1>3, GotoSincere, ReturnSincere DEF Sincere, At

\* Recording aliases.
LEMMA AliasSincere ==
  ASSUME Truthful, Next, NEW t \in Threads,
         ReadAlias(t) \/ SaveAliasRunning(t) \/ SaveAliasFinal(t)
  PROVE  AllSincere'
  <1>1. \/ Return(t) \/ Goto(t, "alias running") \/ Goto(t, "alias final") \/ Goto(t, "save failed")
        \/ SaveAliasFinal(t)
    BY DEF ReadAlias, SaveAliasRunning
  <1>2. CASE SaveAliasFinal(t)
    <2> DEFINE s == [thread[t] EXCEPT !.pc = "aliases", !.todo = Tail(thread[t].todo)]
    <2>1. thread[t].todo \in Seq(Jobs) /\ thread[t].todo # <<>>
      BY <1>2 DEF SaveAliasFinal, At, Truthful, Shape, TypeOK, ThreadStates, AliasInHand
    <2>2. \A i \in DOMAIN Tail(thread[t].todo) :
            /\ i + 1 \in DOMAIN thread[t].todo
            /\ Tail(thread[t].todo)[i] = thread[t].todo[i + 1]
      BY <2>1, TailElements
    <2>3. /\ s.pc = "aliases" /\ s.job = thread[t].job /\ s.final = thread[t].final
          /\ s.todo = Tail(thread[t].todo)
      BY DEF Truthful, Shape, TypeOK, ThreadStates
    <2>4. thread' = [thread EXCEPT ![t] = s]
      BY <1>2 DEF SaveAliasFinal
    <2> HIDE DEF s
    <2>5. Sincere(t, thread[t])
      BY DEF Truthful, AllSincere
    <2>6. \A i \in DOMAIN s.todo : \E o \in Jobs : Answers(s.job, o) /\ Coalesced(s.todo[i], o)
      BY <2>2, <2>3, <2>5 DEF Sincere
    <2>7. Sincere(t, s)
      BY <2>3, <2>5, <2>6 DEF Sincere
    <2> QED BY <2>4, <2>7, SincereStays, OneThread DEF Truthful
  <1> QED BY <1>1, <1>2, GotoSincere, ReturnSincere

\* The worker's steps.
LEMMA WorkerSincere ==
  ASSUME Truthful, Next, NEW n \in Notebooks,
         \/ TakeJob(n) \/ StopWorker(n) \/ MarkRunning(n) \/ Prepare(n) \/ Deliver(n)
         \/ RecordOutcome(n) \/ SaveFinal(n) \/ PopAliases(n) \/ CompleteJob(n)
  PROVE  AllSincere'
  <1>0. n \in Threads /\ n # Loop
    BY CoordinatorAssumption DEF Threads
  <1>1. \/ Return(n)
        \/ \E pc \in {"stopped", "prepare", "deliver", "save final", "pop aliases"} : Goto(n, pc)
        \/ \E pc \in {"record", "save final"} : Conclude(n, pc, "failed")
        \/ TakeJob(n)
        \/ Deliver(n) /\ Conclude(n, "record", "persisted")
             /\ deliveredAt' = [deliveredAt EXCEPT ![thread[n].job] = now]
        \/ PopAliases(n)
    <2>1. CASE TakeJob(n) \/ PopAliases(n) \/ CompleteJob(n)
      BY <2>1 DEF CompleteJob
    <2>2. CASE StopWorker(n) \/ MarkRunning(n) \/ SaveFinal(n)
      BY <2>2 DEF StopWorker, MarkRunning, SaveFinal
    <2>3. CASE Prepare(n) \/ RecordOutcome(n)
      BY <2>3 DEF Prepare, RecordOutcome
    <2>4. CASE Deliver(n)
      BY <2>4 DEF Deliver
    <2> QED BY <2>1, <2>2, <2>3, <2>4
  <1>2. Sincere(n, thread[n])
    BY <1>0 DEF Truthful, AllSincere
  <1>3. CASE TakeJob(n)
    <2> DEFINE job == Head(queue[n])
               s   == [Idle EXCEPT !.pc = "begin", !.job = job]
    <2>1. queue[n] \in Seq(Jobs \union {Sentinel}) /\ queue[n] # <<>> /\ job # NoJob
      BY <1>3 DEF TakeJob, Sentinel, Truthful, Shape, TypeOK
    <2>2. Answers(job, job)
      BY <2>1, TailElements DEF Truthful, QueuedAnswer
    <2>3. s.pc = "begin" /\ s.job = job /\ s.todo = <<>> /\ s.final = "none"
      BY DEF Idle, NoRow
    <2>4. thread' = [thread EXCEPT ![n] = s]
      BY <1>3 DEF TakeJob
    <2> HIDE DEF s, job
    <2>5. Sincere(n, s)
      BY <2>2, <2>3 DEF Sincere, Answers
    <2> QED BY <1>0, <2>4, <2>5, SincereStays, OneThread DEF Truthful
  <1>4. CASE Deliver(n) /\ Conclude(n, "record", "persisted")
               /\ deliveredAt' = [deliveredAt EXCEPT ![thread[n].job] = now]
    <2>0. PICK s, job : /\ s = [thread[n] EXCEPT !.pc = "record", !.final = "persisted"]
                        /\ job = thread[n].job
      OBVIOUS
    <2>1. job \in Jobs /\ job # NoJob
      <3>1. thread[n].pc = "deliver"
        BY <1>4 DEF Deliver, At
      <3> QED BY <1>0, <2>0, <3>1 DEF Truthful, Shape, JobInHand, Jobs, NoJob
    <2>2. Answers(job, job)'
      BY <1>0, <1>2, <2>0, <2>1, AnswersStays DEF Sincere, Truthful
    <2>3. Delivered(job)'
      <3>1. now # Never /\ job \in DOMAIN deliveredAt
        BY <2>1, AdmissionAssumption DEF Truthful, Shape, TypeOK, AdmissionTypeOK
      <3>2. deliveredAt'[job] = now
        BY <1>4, <2>0, <3>1
      <3> QED BY <3>1, <3>2 DEF Delivered
    <2>4. /\ s.pc = "record" /\ s.job = job /\ s.todo = thread[n].todo
          /\ s.final = "persisted"
      BY <1>0, <2>0 DEF Truthful, Shape, TypeOK, ThreadStates
    <2>5. thread' = [thread EXCEPT ![n] = s]
      BY <1>4, <2>0 DEF Conclude
    <2>6. ASSUME NEW i \in DOMAIN s.todo
          PROVE  \E o \in Jobs : Answers(s.job, o)' /\ Coalesced(s.todo[i], o)'
      <3>1. PICK o \in Jobs : Answers(s.job, o) /\ Coalesced(s.todo[i], o)
        BY <1>2, <2>0, <2>4 DEF Sincere
      <3> QED BY <3>1, AnswersStays, CoalescedStays DEF Truthful
    <2>7. Original(job)' = job
      BY <2>2 DEF Answers
    <2>8. Sincere(n, s)'
      BY <2>1, <2>2, <2>3, <2>4, <2>6, <2>7 DEF Sincere
    <2> QED BY <1>0, <2>5, <2>8, OneThread
  <1>5. CASE PopAliases(n)
    <2> DEFINE job == thread[n].job
               s   == [thread[n] EXCEPT !.pc = "aliases", !.todo = aliases[job]]
    <2>1. thread[n].pc = "pop aliases" /\ thread' = [thread EXCEPT ![n] = s]
      BY <1>5 DEF PopAliases, At
    <2>2. job \in Jobs /\ job # NoJob
      <3>1. thread[n].pc \notin {"idle", "stopped"}
        BY <2>1
      <3>2. thread[n].job \in Jobs
        BY <1>0, <3>1 DEF Truthful, Shape, JobInHand
      <3> QED BY <3>2 DEF Truthful, Shape, JobInHand, Jobs, NoJob
    <2>3. /\ s.pc = "aliases" /\ s.job = job /\ s.final = thread[n].final /\ s.todo = aliases[job]
      BY <1>0 DEF Truthful, Shape, TypeOK, ThreadStates
    <2>4. Answers(job, job)
      BY <1>0, <1>2, <2>2 DEF Sincere
    <2> HIDE DEF s
    <2>5. \A i \in DOMAIN s.todo : \E o \in Jobs : Answers(s.job, o) /\ Coalesced(s.todo[i], o)
      BY <2>2, <2>3, <2>4 DEF Truthful, WaitingAnswer
    <2>6. Sincere(n, s)
      BY <1>2, <2>3, <2>5 DEF Sincere
    <2> QED BY <1>0, <2>1, <2>6, SincereStays, OneThread DEF Truthful
  <1> QED BY <1>0, <1>1, <1>3, <1>4, <1>5, GotoSincere, FailSincere, ReturnSincere

\* What the server's own steps leave to the threads.
LEMMA SincereStep ==
  ASSUME Truthful, [Next]_vars
  PROVE  AllSincere'
  <1>1. CASE UNCHANGED thread
    BY <1>1, SincereStays DEF AllSincere, Truthful
  <1>2. CASE Crash
    <2>1. Next /\ \A t \in Threads : thread'[t] = Idle
      BY <1>2 DEF Crash, Next
    <2>2. \A t \in Threads : Sincere(t, Idle)'
      BY <2>1, SincereIdle, SincereStays DEF Truthful
    <2> QED BY <2>1, <2>2 DEF AllSincere
  <1>3. CASE Submit
    <2>1. CASE \E info \in JobInfo : SubmitRejected(info)
      BY <1>1, <2>1 DEF SubmitRejected
    <2> QED BY <1>3, <2>1, SubmitSincere DEF Submit
  <1>4. CASE SubmitStep
    <2>1. Next /\ Loop \in Threads
      BY <1>4 DEF Next, Threads
    <2> QED BY <1>4, <2>1, LoopSincere, AliasSincere DEF SubmitStep
  <1>5. ASSUME NEW n \in Notebooks, WorkerStep(n)
        PROVE  AllSincere'
    <2>1. Next /\ n \in Threads
      BY <1>5 DEF Next, Threads
    <2> QED BY <1>5, <2>1, WorkerSincere, AliasSincere DEF WorkerStep
  <1>6. CASE ClockTick \/ ShutDown \/ Start \/ UNCHANGED vars
    BY <1>1, <1>6 DEF ClockTick, ShutDown, Start, vars
  <1> QED BY <1>2, <1>3, <1>4, <1>5, <1>6 DEF Next

----------------------------------------------------------------------------
(* The rows.                                                               *)

\* Thread t writes the row of its job or of one of its aliases, with a state on the way
\* or the final one.
Wrote(t) ==
  \E job \in Jobs, state \in {"queued", "running", "failed", thread[t].final} :
    /\ row' = Saved(row, job, state)
    /\ job = thread[t].job \/ (\E i \in DOMAIN thread[t].todo : job = thread[t].todo[i])
    /\ thread[t].job \in Jobs

LEMMA RowSteps ==
  ASSUME Shape, [Next]_vars
  PROVE  /\ UNCHANGED row \/ row' = Abandoned(row) \/ \E t \in Threads : Wrote(t)
         /\ SubmitStep => UNCHANGED row \/ Wrote(Loop)
         /\ \A n \in Notebooks : WorkerStep(n) => UNCHANGED row \/ Wrote(n)
  <1>0. Loop \in Threads /\ Notebooks \subseteq Threads
    BY DEF Threads
  <1>1. ASSUME NEW t \in Threads, thread[t].pc \notin {"idle", "stopped"},
               NEW state \in {"queued", "running", "failed", thread[t].final},
               row' = Saved(row, thread[t].job, state)
        PROVE  Wrote(t)
    <2>1. thread[t].job \in Jobs
      BY <1>1 DEF Shape, JobInHand
    <2> QED BY <1>1, <2>1 DEF Wrote
  <1>2. ASSUME NEW t \in Threads, thread[t].pc \in {"alias running", "alias final"},
               NEW state \in {"queued", "running", "failed", thread[t].final},
               row' = Saved(row, Head(thread[t].todo), state)
        PROVE  Wrote(t)
    <2>1. thread[t].job \in Jobs
      BY <1>2 DEF Shape, JobInHand
    <2>2. thread[t].todo \in Seq(Jobs) /\ thread[t].todo # <<>>
      BY <1>2 DEF Shape, TypeOK, ThreadStates, AliasInHand
    <2>3. PICK job : job = Head(thread[t].todo)
      OBVIOUS
    <2>4. job \in Jobs /\ \E i \in DOMAIN thread[t].todo : job = thread[t].todo[i]
      BY <2>2, <2>3, TailElements
    <2> QED BY <1>2, <2>1, <2>3, <2>4 DEF Wrote
  <1>3. ASSUME Submit PROVE UNCHANGED row
    BY <1>3 DEF Submit, SubmitAccepted, SubmitCoalesced, SubmitRejected
  <1>4. ASSUME SaveQueued \/ SaveAlias \/ SaveSubmitFailed
        PROVE  UNCHANGED row \/ Wrote(Loop)
    <2>1. UNCHANGED row \/ \E state \in {"queued", "failed"} : row' = Saved(row, thread[Loop].job, state)
      BY <1>4 DEF SaveQueued, SaveAlias, SaveSubmitFailed, SaveBestEffort, Save, Raises
    <2>2. thread[Loop].pc \notin {"idle", "stopped"}
      BY <1>4 DEF SaveQueued, SaveAlias, SaveSubmitFailed, At
    <2> QED BY <1>0, <1>1, <2>1, <2>2
  <1>5. ASSUME Enqueue \/ UndoAdmission \/ ReadOriginal \/ AppendAlias \/ SubmitDone
        PROVE  UNCHANGED row
    BY <1>5 DEF Enqueue, UndoAdmission, ReadOriginal, AppendAlias, SubmitDone, Raises
  <1>6. ASSUME NEW t \in Threads, ReadAlias(t) \/ SaveAliasRunning(t) \/ SaveAliasFinal(t)
        PROVE  UNCHANGED row \/ Wrote(t)
    <2>1. \/ UNCHANGED row
          \/ /\ thread[t].pc \in {"alias running", "alias final"}
             /\ \E state \in {"running", thread[t].final} : row' = Saved(row, Head(thread[t].todo), state)
      BY <1>6 DEF ReadAlias, SaveAliasRunning, SaveAliasFinal, SaveBestEffort, Save, Raises, At
    <2> QED BY <1>2, <2>1
  <1>7. ASSUME NEW n \in Notebooks,
               MarkRunning(n) \/ Prepare(n) \/ RecordOutcome(n) \/ SaveFinal(n)
        PROVE  UNCHANGED row \/ Wrote(n)
    <2>1. /\ thread[n].pc \notin {"idle", "stopped"}
          /\ \/ UNCHANGED row
             \/ \E state \in {"running", thread[n].final} : row' = Saved(row, thread[n].job, state)
      BY <1>7 DEF MarkRunning, Prepare, RecordOutcome, SaveFinal, SaveBestEffort, Save, Raises, At
    <2> QED BY <1>0, <1>1, <2>1
  <1>8. ASSUME NEW n \in Notebooks,
               TakeJob(n) \/ StopWorker(n) \/ Deliver(n) \/ PopAliases(n) \/ CompleteJob(n)
        PROVE  UNCHANGED row
    BY <1>8 DEF TakeJob, StopWorker, Deliver, PopAliases, CompleteJob, Raises
  <1>9. ASSUME ClockTick \/ ShutDown \/ Crash \/ Start \/ UNCHANGED vars
        PROVE  UNCHANGED row \/ row' = Abandoned(row)
    BY <1>9 DEF ClockTick, ShutDown, Crash, Start, vars
  <1>10. SubmitStep => UNCHANGED row \/ Wrote(Loop)
    BY <1>0, <1>4, <1>5, <1>6 DEF SubmitStep
  <1>11. ASSUME NEW n \in Notebooks, WorkerStep(n)
         PROVE  UNCHANGED row \/ Wrote(n)
    BY <1>0, <1>6, <1>7, <1>8, <1>11 DEF WorkerStep
  <1> QED BY <1>0, <1>3, <1>9, <1>10, <1>11 DEF Next

LEMMA RowsStep ==
  ASSUME Truthful, [Next]_vars
  PROVE  RowsAreDrawn' /\ PersistedIsDelivered'
  <1>1. ASSUME NEW j \in Jobs, row[j] # NoRow
        PROVE  Drawn(j)' /\ Original(j)' = Original(j) /\ Original(j) \in Jobs
    <2>1. Drawn(j)
      BY <1>1 DEF Truthful, RowsAreDrawn
    <2>2. request'[j] = request[j] /\ coalescedInto'[j] = coalescedInto[j]
      BY <2>1, HistoryStays DEF Truthful
    <2>3. Original(j) \in Jobs
      BY <2>1 DEF Truthful, OriginalsAnswer, Answers
    <2> QED BY <2>1, <2>2, <2>3 DEF Drawn, Original
  <1>2. ASSUME NEW j \in Jobs, row[j] # NoRow, row[j] = "persisted"
        PROVE  deliveredAt'[Original(j)'] # Never
    <2>1. PICK o \in Jobs : o = Original(j)
      BY <1>1, <1>2
    <2>2. Delivered(o)
      BY <1>2, <2>1 DEF Truthful, PersistedIsDelivered, Delivered
    <2>3. Delivered(o)'
      BY <2>2, HistoryStays DEF Truthful
    <2> QED BY <1>1, <1>2, <2>1, <2>3 DEF Delivered
  <1>3. CASE row' = row \/ row' = Abandoned(row)
    <2>1. ASSUME NEW j \in Jobs
          PROVE  /\ row'[j] # NoRow => row[j] # NoRow
                 /\ row'[j] = "persisted" => row[j] = "persisted"
      BY <1>3 DEF Abandoned, InflightStates, NoRow, Truthful, Shape, TypeOK
    <2> QED BY <1>1, <1>2, <2>1 DEF RowsAreDrawn, PersistedIsDelivered, NoRow
  <1>4. ASSUME NEW t \in Threads, NEW job \in Jobs,
               NEW state \in {"queued", "running", "failed", thread[t].final},
               row' = Saved(row, job, state), thread[t].job \in Jobs,
               job = thread[t].job \/ (\E i \in DOMAIN thread[t].todo : job = thread[t].todo[i])
        PROVE  RowsAreDrawn' /\ PersistedIsDelivered'
    <2>1. Sincere(t, thread[t]) /\ thread[t].job # NoJob
      BY <1>4 DEF Truthful, AllSincere, NoJob, Jobs
    <2>2. PICK o \in Jobs : Answers(thread[t].job, o) /\ Answers(job, o)
      <3>1. CASE job = thread[t].job
        BY <2>1, <3>1 DEF Sincere, Answers
      <3> QED BY <1>4, <2>1, <3>1 DEF Sincere, Coalesced
    <2>3. Answers(job, o)'
      BY <2>2, AnswersStays DEF Truthful
    <2>4. state = "persisted" => Delivered(o)'
      <3>1. ASSUME state = "persisted"
            PROVE  Delivered(o)
        BY <1>4, <2>1, <2>2, <3>1 DEF Sincere, Answers
      <3> QED BY <3>1, HistoryStays DEF Truthful
    <2>5. ASSUME NEW j \in Jobs
          PROVE  row'[j] = row[j] \/ (j = job /\ row'[j] = state)
      BY <1>4 DEF Saved, Truthful, Shape, TypeOK
    <2>6. ASSUME NEW j \in Jobs, row'[j] # NoRow
          PROVE  Drawn(j)'
      BY <1>1, <2>3, <2>5, <2>6 DEF Answers
    <2>7. ASSUME NEW j \in Jobs, row'[j] = "persisted"
          PROVE  deliveredAt'[Original(j)'] # Never
      <3>1. CASE row'[j] = row[j]
        BY <1>2, <2>7, <3>1 DEF NoRow
      <3>2. CASE j = job /\ row'[j] = state
        BY <2>3, <2>4, <2>7, <3>2 DEF Answers, Delivered
      <3> QED BY <2>5, <3>1, <3>2
    <2> QED BY <2>6, <2>7 DEF RowsAreDrawn, PersistedIsDelivered
  <1> QED BY <1>3, <1>4, RowSteps DEF Truthful, Wrote

----------------------------------------------------------------------------
(* The tables of the server.                                               *)

\* The admission table hands out the job it admitted, or none.
LEMMA ActiveStep ==
  ASSUME Truthful, [Next]_vars
  PROVE  ActiveAnswer' /\ OriginalsAnswer'
  <1>1. ASSUME UNCHANGED <<request, coalescedInto>>
        PROVE  OriginalsAnswer'
    <2>1. \A j : Original(j)' = Original(j) /\ Drawn(j)' = Drawn(j)
      BY <1>1 DEF Original, Drawn
    <2>2. \A j, o : Answers(j, o) => Answers(j, o)'
      BY AnswersStays DEF Truthful
    <2>3. ASSUME NEW j \in Jobs
          PROVE  IF Drawn(j)' THEN Answers(j, Original(j))' ELSE coalescedInto'[j] = NoJob
      <3>1. PICK o : o = Original(j)
        OBVIOUS
      <3>2. IF Drawn(j) THEN Answers(j, o) ELSE coalescedInto[j] = NoJob
        BY <3>1 DEF Truthful, OriginalsAnswer
      <3>3. Answers(j, o) => Answers(j, o)'
        BY <2>2
      <3> QED BY <1>1, <2>1, <3>1, <3>2, <3>3 DEF Answers
    <2> QED BY <2>3 DEF OriginalsAnswer
  <1>2. OriginalsAnswer'
    BY <1>1, HistorySteps, SubmitSincere DEF Truthful
  <1>3. ASSUME NEW f \in Fingerprints, active'[f] # NoJob
        PROVE  Answers(active[f], active[f])'
    <2>1. PICK job : job = active'[f]
      OBVIOUS
    <2>2. CASE job = active[f]
      <3>1. Answers(job, job)
        BY <1>3, <2>1, <2>2 DEF Truthful, ActiveAnswer
      <3>2. Answers(job, job)'
        BY <3>1, AnswersStays DEF Truthful
      <3> QED BY <2>1, <3>2
    <2>3. CASE job # active[f]
      <3>1. active \in [Fingerprints -> Jobs \union {NoJob}]
        BY DEF Truthful, Shape, TypeOK, AdmissionTypeOK
      <3>2. ASSUME NEW info \in JobInfo, SubmitAccepted(info) PROVE job = NextJob
        BY <1>3, <2>1, <2>3, <3>1, <3>2 DEF SubmitAccepted, Accept
      <3>3. ASSUME NEW done, NEW succeeded, Complete(done, succeeded) PROVE FALSE
        BY <1>3, <2>1, <2>3, <3>1, <3>3 DEF Complete
      <3>4. ~Crash
        BY <1>3 DEF Crash, Reset
      <3>5. ASSUME NEW info \in JobInfo, SubmitCoalesced(info) \/ SubmitRejected(info) PROVE FALSE
        BY <2>1, <2>3, <3>5 DEF SubmitCoalesced, SubmitRejected, Coalesce, Reject
      <3>6. ~UndoAdmission /\ \A n : ~CompleteJob(n)
        BY <3>3 DEF UndoAdmission, CompleteJob
      <3>7. ASSUME \/ SaveQueued \/ Enqueue \/ SaveSubmitFailed \/ SaveAlias \/ ReadOriginal
                   \/ AppendAlias \/ SubmitDone \/ ClockTick \/ ShutDown \/ Start \/ UNCHANGED vars
            PROVE  FALSE
        BY <2>1, <2>3, <3>7
           DEF SaveQueued, Enqueue, SaveSubmitFailed, SaveAlias, ReadOriginal, AppendAlias,
               SubmitDone, ClockTick, Tick, ShutDown, Start, vars, StoreOnly, admissionVars
      <3>8. ASSUME NEW t,
                   \/ ReadAlias(t) \/ SaveAliasRunning(t) \/ SaveAliasFinal(t) \/ TakeJob(t)
                   \/ StopWorker(t) \/ MarkRunning(t) \/ Prepare(t) \/ Deliver(t)
                   \/ RecordOutcome(t) \/ SaveFinal(t) \/ PopAliases(t)
            PROVE  FALSE
        BY <2>1, <2>3, <3>8
           DEF ReadAlias, SaveAliasRunning, SaveAliasFinal, TakeJob, StopWorker, MarkRunning, Prepare,
               Deliver, RecordOutcome, SaveFinal, PopAliases, StoreOnly, admissionVars
      <3>9. \E info \in JobInfo : SubmitAccepted(info) /\ job = NextJob
        BY <3>2, <3>4, <3>5, <3>6, <3>7, <3>8 DEF Next, Submit, SubmitStep, WorkerStep
      <3>10. Answers(job, job)'
        BY <3>9, SubmitSincere
      <3> QED BY <2>1, <3>10
    <2> QED BY <2>2, <2>3
  <1> QED BY <1>2, <1>3 DEF ActiveAnswer

\* The work queues are filled by Enqueue, which has an executing job in hand.
LEMMA QueuedStep ==
  ASSUME Truthful, [Next]_vars
  PROVE  QueuedAnswer'
  <1>0. queue \in [Notebooks -> Seq(Jobs \union {Sentinel})] /\ Loop \in Threads
    BY DEF Truthful, Shape, TypeOK, Threads
  <1>1. ASSUME NEW n \in Notebooks, NEW i \in DOMAIN queue[n], queue[n][i] # NoJob
        PROVE  Answers(queue[n][i], queue[n][i])
    BY <1>1 DEF Truthful, QueuedAnswer
  <1>2. ASSUME \A n \in Notebooks : \A i \in DOMAIN queue'[n] :
                 \/ queue'[n][i] = NoJob
                 \/ \E k \in DOMAIN queue[n] : queue'[n][i] = queue[n][k]
                 \/ Answers(queue'[n][i], queue'[n][i])
        PROVE  QueuedAnswer'
    <2>1. ASSUME NEW n \in Notebooks, NEW i \in DOMAIN queue'[n], queue'[n][i] # NoJob
          PROVE  Answers(queue[n][i], queue[n][i])'
      <3>1. PICK job : job = queue'[n][i]
        OBVIOUS
      <3>2. Answers(job, job)
        BY <1>1, <1>2, <2>1, <3>1
      <3>3. Answers(job, job)'
        BY <3>2, AnswersStays DEF Truthful
      <3> QED BY <3>1, <3>3
    <2> QED BY <2>1 DEF QueuedAnswer
  <1>3. CASE UNCHANGED queue
    BY <1>2, <1>3
  <1>4. CASE Enqueue /\ ~UNCHANGED queue
    <2>1. PICK job, m : /\ job = thread[Loop].job
                        /\ queue' = [queue EXCEPT ![m] = Append(queue[m], job)]
      BY <1>4 DEF Enqueue
    <2>2. Answers(job, job)
      BY <1>0, <1>4, <2>1 DEF Enqueue, At, Truthful, AllSincere, Sincere
    <2>3. ASSUME NEW n \in Notebooks, NEW i \in DOMAIN queue'[n]
          PROVE  (\E k \in DOMAIN queue[n] : queue'[n][i] = queue[n][k]) \/ queue'[n][i] = job
      <3>1. queue'[n] = queue[n] \/ queue'[n] = Append(queue[n], job)
        BY <1>0, <2>1
      <3>2. PICK long : long = queue'[n]
        OBVIOUS
      <3>3. CASE long = Append(queue[n], job)
        BY <1>0, <2>3, <3>2, <3>3, AppendElements
      <3> QED BY <2>3, <3>1, <3>2, <3>3
    <2> QED BY <1>2, <2>2, <2>3
  <1>5. ASSUME NEW m \in Notebooks, TakeJob(m) \/ StopWorker(m)
        PROVE  QueuedAnswer'
    <2>1. queue[m] # <<>> /\ queue' = [queue EXCEPT ![m] = Tail(queue[m])]
      BY <1>5 DEF TakeJob, StopWorker
    <2>2. ASSUME NEW n \in Notebooks, NEW i \in DOMAIN queue'[n]
          PROVE  \E k \in DOMAIN queue[n] : queue'[n][i] = queue[n][k]
      BY <1>0, <2>1, <2>2, TailElements
    <2> QED BY <1>2, <2>2
  <1>6. CASE ShutDown
    <2>1. \A n \in Notebooks : queue'[n] = Append(queue[n], Sentinel)
      BY <1>6 DEF ShutDown
    <2>2. ASSUME NEW n \in Notebooks, NEW i \in DOMAIN queue'[n]
          PROVE  (\E k \in DOMAIN queue[n] : queue'[n][i] = queue[n][k]) \/ queue'[n][i] = NoJob
      <3>1. PICK long : long = queue'[n]
        OBVIOUS
      <3>2. long = Append(queue[n], Sentinel) /\ queue[n] \in Seq(Jobs \union {Sentinel})
        BY <1>0, <2>1, <3>1
      <3> QED BY <2>2, <3>1, <3>2, AppendElements DEF Sentinel
    <2> QED BY <1>2, <2>2
  <1>7. CASE Crash
    <2>1. \A n \in Notebooks : queue'[n] = <<>>
      BY <1>7 DEF Crash
    <2> QED BY <1>2, <2>1, EmptyDomain
  <1>8. CASE Submit
    BY <1>3, <1>8 DEF Submit, SubmitAccepted, SubmitCoalesced, SubmitRejected, serverVars
  <1>9. CASE \/ SaveQueued \/ UndoAdmission \/ SaveSubmitFailed \/ SaveAlias \/ ReadOriginal
             \/ AppendAlias \/ SubmitDone \/ ClockTick \/ Start \/ UNCHANGED vars
    BY <1>3, <1>9 DEF SaveQueued, UndoAdmission, SaveSubmitFailed, SaveAlias, ReadOriginal,
                      AppendAlias, SubmitDone, ClockTick, Start, vars, StoreOnly, serverVars
  <1>10. ASSUME NEW t,
                \/ ReadAlias(t) \/ SaveAliasRunning(t) \/ SaveAliasFinal(t)
                \/ MarkRunning(t) \/ Prepare(t) \/ Deliver(t)
                \/ RecordOutcome(t) \/ SaveFinal(t) \/ PopAliases(t) \/ CompleteJob(t)
         PROVE  UNCHANGED queue
    BY <1>10 DEF ReadAlias, SaveAliasRunning, SaveAliasFinal, MarkRunning, Prepare, Deliver,
                 RecordOutcome, SaveFinal, PopAliases, CompleteJob, StoreOnly, serverVars
  <1> QED BY <1>3, <1>4, <1>5, <1>6, <1>7, <1>8, <1>9, <1>10 DEF Next, SubmitStep, WorkerStep

\* An alias waits for the job it was coalesced into.
LEMMA WaitingStep ==
  ASSUME Truthful, [Next]_vars
  PROVE  WaitingAnswer'
  <1>0. aliases \in [Jobs -> Seq(Jobs)] /\ Loop \in Threads
    BY DEF Truthful, Shape, TypeOK, Threads
  <1>1. ASSUME \A j \in Jobs : \A i \in DOMAIN aliases'[j] :
                 \/ \E k \in DOMAIN aliases[j] : aliases'[j][i] = aliases[j][k]
                 \/ Coalesced(aliases'[j][i], j)
        PROVE  WaitingAnswer'
    <2>1. ASSUME NEW j \in Jobs, NEW i \in DOMAIN aliases'[j]
          PROVE  Coalesced(aliases[j][i], j)'
      <3>1. PICK job : job = aliases'[j][i]
        OBVIOUS
      <3>2. Coalesced(job, j)
        BY <1>1, <2>1, <3>1 DEF Truthful, WaitingAnswer
      <3>3. Coalesced(job, j)'
        BY <3>2, CoalescedStays DEF Truthful
      <3> QED BY <3>1, <3>3
    <2> QED BY <2>1 DEF WaitingAnswer
  <1>2. CASE UNCHANGED aliases
    BY <1>1, <1>2
  <1>3. CASE AppendAlias
    <2>1. PICK alias, original : /\ alias = thread[Loop].job /\ original = coalescedInto[alias]
                                 /\ aliases' = [aliases EXCEPT ![original] = Append(@, alias)]
      BY <1>3 DEF AppendAlias
    <2>2. Coalesced(alias, original)
      BY <1>0, <1>3, <2>1 DEF Coalesced, AppendAlias, At, Truthful, AllSincere, Sincere
    <2>3. ASSUME NEW j \in Jobs, NEW i \in DOMAIN aliases'[j]
          PROVE  \/ \E k \in DOMAIN aliases[j] : aliases'[j][i] = aliases[j][k]
                 \/ aliases'[j][i] = alias /\ j = original
      <3>1. aliases'[j] = aliases[j] \/ (j = original /\ aliases'[j] = Append(aliases[j], alias))
        BY <1>0, <2>1
      <3>2. PICK long : long = aliases'[j]
        OBVIOUS
      <3>3. CASE j = original /\ long = Append(aliases[j], alias)
        BY <1>0, <2>3, <3>2, <3>3, AppendElements
      <3> QED BY <2>3, <3>1, <3>2, <3>3
    <2> QED BY <1>1, <2>2, <2>3
  <1>4. ASSUME Crash \/ \E n \in Notebooks : PopAliases(n)
        PROVE  WaitingAnswer'
    <2>1. \A j \in Jobs : aliases'[j] = <<>> \/ aliases'[j] = aliases[j]
      BY <1>0, <1>4 DEF Crash, PopAliases
    <2> QED BY <1>1, <2>1, EmptyDomain
  <1>5. CASE Submit
    BY <1>2, <1>5 DEF Submit, SubmitAccepted, SubmitCoalesced, SubmitRejected, serverVars
  <1>6. CASE \/ SaveQueued \/ Enqueue \/ UndoAdmission \/ SaveSubmitFailed \/ SaveAlias
             \/ ReadOriginal \/ SubmitDone \/ ClockTick \/ ShutDown \/ Start \/ UNCHANGED vars
    BY <1>2, <1>6 DEF SaveQueued, Enqueue, UndoAdmission, SaveSubmitFailed, SaveAlias, ReadOriginal,
                      SubmitDone, ClockTick, ShutDown, Start, vars, StoreOnly, serverVars
  <1>7. ASSUME NEW t,
               \/ ReadAlias(t) \/ SaveAliasRunning(t) \/ SaveAliasFinal(t) \/ TakeJob(t)
               \/ StopWorker(t) \/ MarkRunning(t) \/ Prepare(t) \/ Deliver(t)
               \/ RecordOutcome(t) \/ SaveFinal(t) \/ CompleteJob(t)
        PROVE  UNCHANGED aliases
    BY <1>7 DEF ReadAlias, SaveAliasRunning, SaveAliasFinal, TakeJob, StopWorker, MarkRunning,
                Prepare, Deliver, RecordOutcome, SaveFinal, CompleteJob, StoreOnly, serverVars
  <1> QED BY <1>2, <1>3, <1>4, <1>5, <1>6, <1>7 DEF Next, SubmitStep, WorkerStep

LEMMA TruthfulInit == Init => Truthful
  <1> SUFFICES ASSUME Init PROVE Truthful
    OBVIOUS
  <1>1. Shape
    BY ShapeInit
  <1>2. OriginalsAnswer /\ RowsAreDrawn /\ PersistedIsDelivered
    BY DEF Init, OriginalsAnswer, Drawn, RowsAreDrawn, PersistedIsDelivered, NoRow
  <1>3. AllSincere
    BY SincereIdle DEF Init, AllSincere
  <1>4. ActiveAnswer
    BY DEF Init, AdmissionInit, AdmissionEmpty, ActiveAnswer
  <1>5. QueuedAnswer /\ WaitingAnswer
    BY EmptyDomain DEF Init, QueuedAnswer, WaitingAnswer
  <1> QED BY <1>1, <1>2, <1>3, <1>4, <1>5 DEF Truthful

\* No row of the Activity list says persisted unless the snapshot of the job, or of the
\* job it was coalesced into, was delivered: whatever is submitted, however aliases
\* register while their original ends, whichever store calls fail, and however often the
\* server restarts.
THEOREM PersistedMeansDelivered == Spec => []PersistedIsDelivered
  <1>1. Truthful /\ [Next]_vars => Truthful'
    BY ShapeStep, SincereStep, RowsStep, ActiveStep, QueuedStep, WaitingStep DEF Truthful
  <1>2. Truthful => PersistedIsDelivered
    BY DEF Truthful
  <1> QED BY <1>1, <1>2, TruthfulInit, PTL DEF Spec

----------------------------------------------------------------------------
(* The log: one thread at a time has a job, and its row is where the        *)
(* thread is.                                                               *)

NotebookOf(j) == request[j].notebook

\* The job was submitted to the running server, or to the one that stopped last.
Current(j) == life[j] = crashes

\* What a thread at pc may find in the tables about its job j.
PlacedAt(pc, j) ==
  /\ pc \in {"save queued", "save alias"} => row[j] = NoRow
  /\ pc \in {"save queued", "enqueue", "begin", "prepare", "deliver"} => ~Delivered(j)
  /\ pc \in {"enqueue", "begin"} => row[j] = "queued"
  /\ pc = "prepare" => row[j] \in {"queued", "running"}
  /\ pc = "deliver" => row[j] = "running"
  /\ pc \in {"register", "append", "record", "save final"} => row[j] # NoRow
  /\ pc \in {"save alias", "register", "append"} => Current(coalescedInto[j])

\* The same for thread t in state s, with the aliases it records.
Placed(t, s) ==
  /\ t # Loop /\ s.job # NoJob => NotebookOf(s.job) = t
  /\ t = Loop => s.pc \notin {"begin", "prepare", "deliver"}
  /\ PlacedAt(s.pc, s.job)
  /\ \A i \in DOMAIN s.todo : row[s.todo[i]] # NoRow
  /\ s.final # "abandoned"

AllPlaced == \A t \in Threads : Placed(t, thread[t])

\* A worker has taken its job from the queue, not from the event loop's hand.
LoopApart ==
  \A n \in Notebooks : thread[Loop].job # NoJob => thread[Loop].job # thread[n].job

\* A queued job is queued once, for its notebook, in nobody's hand and not yet begun.
QueuedApart ==
  \A n \in Notebooks : \A i \in DOMAIN queue[n] :
    queue[n][i] # NoJob =>
      /\ NotebookOf(queue[n][i]) = n
      /\ row[queue[n][i]] = "queued" /\ ~Delivered(queue[n][i])
      /\ \A t \in Threads : thread[t].job # queue[n][i]
      /\ \A k \in DOMAIN queue[n] : queue[n][k] = queue[n][i] => k = i

WaitingHasRow == \A j \in Jobs : \A i \in DOMAIN aliases[j] : row[aliases[j][i]] # NoRow

\* What a server abandons is of an earlier one, and a stopped server does nothing.
Lives ==
  /\ \A j \in Jobs : Drawn(j) => life[j] <= crashes /\ (~up => life[j] < crashes)
  /\ \A j \in Jobs : row[j] = "abandoned" => life[j] < crashes
  /\ \A f \in Fingerprints : active[f] # NoJob => Current(active[f])
  /\ ~up => (\A t \in Threads : thread[t] = Idle) /\ (\A n \in Notebooks : queue[n] = <<>>)

DeliveredWereDrawn == \A j \in Jobs : Delivered(j) => Drawn(j)

Orderly ==
  /\ Truthful
  /\ AllPlaced /\ LoopApart /\ QueuedApart /\ WaitingHasRow /\ Lives /\ DeliveredWereDrawn

----------------------------------------------------------------------------
(* Who acts.                                                               *)

\* Thread t takes a step of its program; the other threads wait.
Acts(t) ==
  /\ UNCHANGED <<request, coalescedInto, life, crashes, up>>
  /\ \A u \in Threads \ {t} : thread'[u] = thread[u]
  /\ thread[t].pc # "idle" \/ (t \in Notebooks /\ queue[t] # <<>>)
  /\ \/ UNCHANGED deliveredAt
     \/ /\ t \in Notebooks /\ At(t, "deliver")
        /\ deliveredAt' = [deliveredAt EXCEPT ![thread[t].job] = now]
  /\ UNCHANGED row \/ Wrote(t)

LEMMA LoopActs ==
  ASSUME Shape, SubmitStep
  PROVE  Acts(Loop)
  <1>1. UNCHANGED <<request, coalescedInto, life, crashes, up, deliveredAt>>
    BY DEF SubmitStep, SaveQueued, Enqueue, UndoAdmission, SaveSubmitFailed, SaveAlias, ReadOriginal,
           AppendAlias, SubmitDone, ReadAlias, SaveAliasRunning, SaveAliasFinal, StoreOnly, historyVars
  <1>2. \A u \in Threads \ {Loop} : thread'[u] = thread[u]
    BY DEF SubmitStep, SaveQueued, Enqueue, UndoAdmission, SaveSubmitFailed, SaveAlias, ReadOriginal,
           AppendAlias, SubmitDone, ReadAlias, SaveAliasRunning, SaveAliasFinal, Goto, Return,
           Shape, TypeOK
  <1>3. thread[Loop].pc # "idle"
    BY DEF SubmitStep, SaveQueued, Enqueue, UndoAdmission, SaveSubmitFailed, SaveAlias, ReadOriginal,
           AppendAlias, SubmitDone, ReadAlias, SaveAliasRunning, SaveAliasFinal, At
  <1>4. UNCHANGED row \/ Wrote(Loop)
    BY RowSteps DEF Next
  <1> QED BY <1>1, <1>2, <1>3, <1>4 DEF Acts

LEMMA WorkerActs ==
  ASSUME Shape, NEW n \in Notebooks, WorkerStep(n)
  PROVE  Acts(n)
  <1>1. UNCHANGED <<request, coalescedInto, life, crashes, up>>
    BY DEF WorkerStep, TakeJob, StopWorker, MarkRunning, Prepare, Deliver, RecordOutcome, SaveFinal,
           PopAliases, CompleteJob, ReadAlias, SaveAliasRunning, SaveAliasFinal, StoreOnly, historyVars
  <1>2. \A u \in Threads \ {n} : thread'[u] = thread[u]
    BY DEF WorkerStep, TakeJob, StopWorker, MarkRunning, Prepare, Deliver, RecordOutcome, SaveFinal,
           PopAliases, CompleteJob, ReadAlias, SaveAliasRunning, SaveAliasFinal, Goto, Conclude, Return,
           Shape, TypeOK
  <1>3. thread[n].pc # "idle" \/ queue[n] # <<>>
    BY DEF WorkerStep, TakeJob, StopWorker, MarkRunning, Prepare, Deliver, RecordOutcome, SaveFinal,
           PopAliases, CompleteJob, ReadAlias, SaveAliasRunning, SaveAliasFinal, At
  <1>4. \/ UNCHANGED deliveredAt
        \/ At(n, "deliver") /\ deliveredAt' = [deliveredAt EXCEPT ![thread[n].job] = now]
    BY DEF WorkerStep, TakeJob, StopWorker, MarkRunning, Prepare, Deliver, RecordOutcome, SaveFinal,
           PopAliases, CompleteJob, ReadAlias, SaveAliasRunning, SaveAliasFinal, StoreOnly
  <1>5. UNCHANGED row \/ Wrote(n)
    BY RowSteps DEF Next
  <1> QED BY <1>1, <1>2, <1>3, <1>4, <1>5 DEF Acts

\* What is neither a submission, a step of a thread, nor a restart changes no job.
LEMMA QuietSteps ==
  ASSUME Shape, [Next]_vars
  PROVE  \/ \E info \in JobInfo : SubmitAccepted(info) \/ SubmitCoalesced(info)
         \/ SubmitStep
         \/ \E n \in Notebooks : WorkerStep(n)
         \/ Crash \/ Start
         \/ /\ UNCHANGED <<request, coalescedInto, life, crashes, up, thread, row, deliveredAt, aliases>>
            /\ UNCHANGED active
            /\ UNCHANGED queue \/ ShutDown
  <1>1. ASSUME NEW info \in JobInfo, SubmitRejected(info)
        PROVE  UNCHANGED <<request, coalescedInto, life, crashes, up, thread, row, deliveredAt, aliases,
                           active, queue>>
    BY <1>1 DEF SubmitRejected, Reject, serverVars, historyVars
  <1>2. ASSUME ClockTick \/ UNCHANGED vars
        PROVE  UNCHANGED <<request, coalescedInto, life, crashes, up, thread, row, deliveredAt, aliases,
                           active, queue>>
    BY <1>2 DEF ClockTick, Tick, vars, serverVars, historyVars, admissionVars
  <1>3. ASSUME ShutDown
        PROVE  UNCHANGED <<request, coalescedInto, life, crashes, up, thread, row, deliveredAt, aliases,
                           active>>
    BY <1>3 DEF ShutDown, historyVars, admissionVars
  <1> QED BY <1>1, <1>2, <1>3 DEF Next, Submit

----------------------------------------------------------------------------
(* Threads do not disturb each other's jobs.                               *)

LEMMA SavedRows ==
  ASSUME NEW table \in [Jobs -> RowStates], NEW job \in Jobs, NEW state, NEW j \in Jobs,
         NEW after, after = Saved(table, job, state)
  PROVE  /\ after[j] = table[j] \/ (j = job /\ after[j] = state)
         /\ table[j] # NoRow => after[j] # NoRow
         /\ after[j] = table[j] \/ table[j] = NoRow \/ state \in AllowedTransitions[table[j]]
  <1>1. after[j] = table[j] \/ (j = job /\ after[j] = state)
    BY DEF Saved
  <1>2. after[j] = table[j] \/ table[j] = NoRow \/ state \in AllowedTransitions[table[j]]
    BY DEF Saved, CanTransition
  <1>3. \A from \in JobStates : NoRow \notin AllowedTransitions[from]
    BY DEF AllowedTransitions, NoRow
  <1>4. table[j] # NoRow => table[j] \in JobStates
    BY DEF RowStates
  <1> QED BY <1>1, <1>2, <1>3, <1>4

LEMMA JobsApart ==
  ASSUME Orderly, NEW t \in Threads, NEW u \in Threads, t # u, thread[t].job # NoJob
  PROVE  thread[t].job # thread[u].job
  <1>1. CASE t = Loop \/ u = Loop
    BY <1>1, CoordinatorAssumption DEF Orderly, LoopApart, Threads
  <1>2. CASE t # Loop /\ u # Loop
    BY <1>2 DEF Orderly, AllPlaced, Placed
  <1> QED BY <1>1, <1>2

\* A job that is not in the acting thread's hand keeps its row, unless it is an alias
\* that the thread records; only the acting thread's job is delivered.
LEMMA OthersKept ==
  ASSUME Orderly, NEW t \in Threads, Acts(t), NEW j \in Jobs, j # thread[t].job
  PROVE  /\ row[j] # NoRow => row'[j] # NoRow
         /\ row[j] = NoRow \/ coalescedInto[j] = NoJob => row'[j] = row[j]
         /\ deliveredAt'[j] = deliveredAt[j]
  <1>0. row \in [Jobs -> RowStates] /\ deliveredAt \in [Jobs -> Nat \union {Never}]
    BY DEF Orderly, Truthful, Shape, TypeOK
  <1>1. deliveredAt'[j] = deliveredAt[j]
    BY <1>0 DEF Acts
  <1>2. CASE UNCHANGED row
    BY <1>1, <1>2
  <1>3. CASE Wrote(t)
    <2>1. PICK job \in Jobs, state \in {"queued", "running", "failed", thread[t].final} :
            /\ row' = Saved(row, job, state)
            /\ job = thread[t].job \/ (\E i \in DOMAIN thread[t].todo : job = thread[t].todo[i])
      BY <1>3 DEF Wrote
    <2>2. row[j] # NoRow => row'[j] # NoRow
      BY <1>0, <2>1, SavedRows
    <2>3. j # job => row'[j] = row[j]
      BY <1>0, <2>1, SavedRows
    <2>4. ASSUME j = job
          PROVE  row[j] # NoRow /\ coalescedInto[j] # NoJob
      <3>1. PICK i \in DOMAIN thread[t].todo : j = thread[t].todo[i]
        BY <2>1, <2>4
      <3>2. row[j] # NoRow
        BY <3>1 DEF Orderly, AllPlaced, Placed
      <3>3. PICK o \in Jobs : Coalesced(j, o)
        BY <3>1 DEF Orderly, Truthful, AllSincere, Sincere
      <3> QED BY <3>2, <3>3 DEF Coalesced, Jobs, NoJob
    <2> QED BY <1>1, <2>2, <2>3, <2>4
  <1> QED BY <1>2, <1>3 DEF Acts

\* What a thread has in hand is a job unless it is idle, and one that executes is no alias.
LEMMA HandFacts ==
  ASSUME Truthful, NEW t \in Threads
  PROVE  /\ thread[t].pc \notin {"idle", "stopped"} => thread[t].job \in Jobs /\ thread[t].job # NoJob
         /\ thread[t].job # NoJob => thread[t].job \in Jobs /\ Drawn(thread[t].job)
         /\ thread[t].pc = "enqueue" \/ (t # Loop /\ thread[t].job # NoJob)
              => coalescedInto[thread[t].job] = NoJob
  <1>1. Sincere(t, thread[t])
    BY DEF Truthful, AllSincere
  <1>2. \A j \in Jobs : j # NoJob
    BY DEF Jobs, NoJob
  <1> QED BY <1>1, <1>2 DEF Sincere, Answers, Truthful, Shape, JobInHand

LEMMA PlacedStays ==
  ASSUME Orderly, NEW t \in Threads, NEW u \in Threads, t # u, Acts(u)
  PROVE  Placed(t, thread[t])'
  <1>1. PICK s : s = thread[t]
    OBVIOUS
  <1>2. /\ thread'[t] = s /\ Placed(t, s)
        /\ UNCHANGED <<request, coalescedInto, life, crashes>>
    BY <1>1 DEF Acts, Orderly, AllPlaced
  <1>3. /\ s.pc \notin {"idle", "stopped"} => s.job \in Jobs
        /\ s.job # NoJob => s.job \in Jobs /\ s.job # thread[u].job
        /\ s.pc = "enqueue" \/ (t # Loop /\ s.job # NoJob) => coalescedInto[s.job] = NoJob
    BY <1>1, HandFacts, JobsApart DEF Orderly
  <1>4. ASSUME s.pc \notin {"idle", "stopped"}
        PROVE  /\ row[s.job] # NoRow => row'[s.job] # NoRow
               /\ row[s.job] = NoRow \/ coalescedInto[s.job] = NoJob => row'[s.job] = row[s.job]
               /\ deliveredAt'[s.job] = deliveredAt[s.job]
    BY <1>1, <1>3, <1>4, HandFacts, OthersKept DEF Orderly
  <1>5. \A j \in Jobs : row[j] # NoRow => row'[j] # NoRow
    <2>1. row \in [Jobs -> RowStates]
      BY DEF Orderly, Truthful, Shape, TypeOK
    <2> QED BY <2>1, SavedRows DEF Acts, Wrote
  <1>6. \A i \in DOMAIN s.todo : row'[s.todo[i]] # NoRow
    <2>1. ASSUME NEW i \in DOMAIN s.todo PROVE s.todo[i] \in Jobs
      BY <1>1 DEF Orderly, Truthful, AllSincere, Sincere, Coalesced, Answers
    <2> QED BY <1>2, <1>5, <2>1 DEF Placed
  <1>7. /\ s.pc \in {"save queued", "save alias"} => row'[s.job] = NoRow
        /\ s.pc \in {"register", "append", "record", "save final"} => row'[s.job] # NoRow
        /\ s.pc \in {"save queued", "enqueue", "begin", "prepare", "deliver"}
             => deliveredAt'[s.job] = Never
    BY <1>2, <1>4 DEF Placed, PlacedAt, Delivered
  <1>8. /\ s.pc \in {"enqueue", "begin"} => row'[s.job] = "queued"
        /\ s.pc = "prepare" => row'[s.job] \in {"queued", "running"}
        /\ s.pc = "deliver" => row'[s.job] = "running"
    <2>1. s.pc \in {"enqueue", "begin", "prepare", "deliver"} => coalescedInto[s.job] = NoJob
      <3>1. s.pc \in {"enqueue", "begin", "prepare", "deliver"} => s.job # NoJob
        BY <1>1, HandFacts DEF Orderly
      <3> QED BY <1>2, <1>3, <3>1 DEF Placed
    <2> QED BY <1>2, <1>4, <2>1 DEF Placed, PlacedAt
  <1> QED BY <1>2, <1>6, <1>7, <1>8 DEF Placed, PlacedAt, NotebookOf, Current, Delivered

----------------------------------------------------------------------------
(* Where a thread's own steps take it.                                     *)

LEMMA RowsKept ==
  ASSUME Orderly, NEW t \in Threads, Acts(t), NEW j \in Jobs, row[j] # NoRow
  PROVE  row'[j] # NoRow
  <1>1. row \in [Jobs -> RowStates]
    BY DEF Orderly, Truthful, Shape, TypeOK
  <1> QED BY <1>1, SavedRows DEF Acts, Wrote

\* The aliases of a thread are jobs with rows.
LEMMA TodoKept ==
  ASSUME Orderly, NEW t \in Threads, Acts(t)
  PROVE  \A i \in DOMAIN thread[t].todo : row'[thread[t].todo[i]] # NoRow
  <1>1. ASSUME NEW i \in DOMAIN thread[t].todo
        PROVE  thread[t].todo[i] \in Jobs /\ row[thread[t].todo[i]] # NoRow
    BY DEF Orderly, Truthful, AllSincere, Sincere, Coalesced, Answers, AllPlaced, Placed
  <1> QED BY <1>1, RowsKept

LEMMA GotoPlaced ==
  ASSUME Orderly, NEW t \in Threads, Acts(t), NEW pc, NEW j, j = thread[t].job,
         PlacedAt(pc, j)',
         Goto(t, pc) \/ \E final : final # "abandoned" /\ Conclude(t, pc, final),
         t = Loop => pc \notin {"begin", "prepare", "deliver"}
  PROVE  Placed(t, thread[t])'
  <1>1. /\ thread'[t].pc = pc /\ thread'[t].job = j /\ thread'[t].todo = thread[t].todo
        /\ thread'[t].final = thread[t].final \/ thread'[t].final # "abandoned"
    BY DEF Goto, Conclude, Orderly, Truthful, Shape, TypeOK, ThreadStates
  <1>2. t # Loop /\ j # NoJob => NotebookOf(j)' = t
    BY DEF Orderly, AllPlaced, Placed, NotebookOf, Acts
  <1>3. thread[t].final # "abandoned"
    BY DEF Orderly, AllPlaced, Placed
  <1> QED BY <1>1, <1>2, <1>3, TodoKept DEF Placed

\* At these places a thread expects nothing of the tables.
LEMMA NowhereSpecial ==
  ASSUME NEW j,
         NEW pc \in {"idle", "stopped", "undo", "save failed", "pop aliases", "aliases",
                     "alias running", "alias final"}
  PROVE  PlacedAt(pc, j)'
  BY DEF PlacedAt

LEMMA ReturnPlaced ==
  ASSUME Orderly, NEW t \in Threads, Return(t)
  PROVE  Placed(t, thread[t])'
  <1>1. thread'[t] = Idle
    BY DEF Return, Orderly, Truthful, Shape, TypeOK
  <1>2. Placed(t, Idle)'
    BY EmptyDomain DEF Placed, PlacedAt, Idle, NoRow
  <1> QED BY <1>1, <1>2 DEF Placed

LEMMA AliasPlaced ==
  ASSUME Orderly, NEW t \in Threads, Acts(t),
         ReadAlias(t) \/ SaveAliasRunning(t) \/ SaveAliasFinal(t)
  PROVE  Placed(t, thread[t])'
  <1>0. PICK j : j = thread[t].job
    OBVIOUS
  <1>1. CASE SaveAliasFinal(t)
    <2>1. thread[t].todo \in Seq(Jobs) /\ thread[t].todo # <<>>
      BY <1>1 DEF SaveAliasFinal, At, Orderly, Truthful, Shape, TypeOK, ThreadStates, AliasInHand
    <2>2. \A i \in DOMAIN Tail(thread[t].todo) :
            /\ i + 1 \in DOMAIN thread[t].todo
            /\ Tail(thread[t].todo)[i] = thread[t].todo[i + 1]
      BY <2>1, TailElements
    <2>3. /\ thread'[t].pc = "aliases" /\ thread'[t].job = j /\ thread'[t].final = thread[t].final
          /\ thread'[t].todo = Tail(thread[t].todo)
      BY <1>0, <1>1 DEF SaveAliasFinal, Orderly, Truthful, Shape, TypeOK, ThreadStates
    <2>4. t # Loop /\ j # NoJob => NotebookOf(j)' = t
      BY <1>0 DEF Orderly, AllPlaced, Placed, NotebookOf, Acts
    <2>5. \A i \in DOMAIN thread'[t].todo : row'[thread'[t].todo[i]] # NoRow
      BY <2>2, <2>3, TodoKept
    <2>6. thread[t].final # "abandoned"
      BY DEF Orderly, AllPlaced, Placed
    <2> QED BY <2>3, <2>4, <2>5, <2>6, NowhereSpecial DEF Placed
  <1>2. CASE ReadAlias(t) \/ SaveAliasRunning(t)
    <2>1. Return(t) \/ \E pc \in {"alias running", "alias final", "save failed"} : Goto(t, pc)
      BY <1>2 DEF ReadAlias, SaveAliasRunning
    <2> QED BY <1>0, <2>1, GotoPlaced, ReturnPlaced, NowhereSpecial
  <1> QED BY <1>1, <1>2

LEMMA LoopPlaced ==
  ASSUME Orderly, SubmitStep
  PROVE  Placed(Loop, thread[Loop])'
  <1>0. PICK j : j = thread[Loop].job
    OBVIOUS
  <1>1. /\ Loop \in Threads /\ Acts(Loop) /\ row \in [Jobs -> RowStates]
        /\ UNCHANGED <<coalescedInto, life, crashes>>
    BY LoopActs DEF Threads, Orderly, Truthful, Shape, TypeOK, Acts
  <1>2. thread[Loop].pc \notin {"idle", "stopped"} => j \in Jobs
    BY <1>0, <1>1, HandFacts DEF Orderly
  <1>3. PlacedAt(thread[Loop].pc, j)
    BY <1>0, <1>1 DEF Orderly, AllPlaced, Placed
  <1>4. CASE \/ Return(Loop) \/ \E pc \in {"undo", "save failed"} : Goto(Loop, pc)
    BY <1>0, <1>1, <1>4, GotoPlaced, ReturnPlaced, NowhereSpecial
  <1>5. CASE SaveQueued /\ Save(j, "queued") /\ Goto(Loop, "enqueue")
    <2>1. row[j] = NoRow /\ ~Delivered(j) /\ deliveredAt' = deliveredAt /\ j \in Jobs
      BY <1>2, <1>3, <1>5, <1>0 DEF SaveQueued, At, PlacedAt, StoreOnly
    <2>2. row'[j] = "queued"
      BY <1>1, <1>5, <2>1 DEF Save, Saved
    <2>3. PlacedAt("enqueue", j)'
      BY <2>1, <2>2 DEF PlacedAt, Delivered
    <2> QED BY <1>0, <1>1, <1>5, <2>3, GotoPlaced
  <1>6. CASE SaveAlias /\ Save(j, "queued") /\ Goto(Loop, "register")
    <2>1. row[j] = NoRow /\ Current(coalescedInto[j]) /\ j \in Jobs
      BY <1>2, <1>3, <1>6, <1>0 DEF SaveAlias, At, PlacedAt
    <2>2. row'[j] = "queued"
      BY <1>1, <1>6, <2>1 DEF Save, Saved
    <2>3. PlacedAt("register", j)'
      BY <1>1, <2>1, <2>2 DEF PlacedAt, Current, NoRow
    <2> QED BY <1>0, <1>1, <1>6, <2>3, GotoPlaced
  <1>7. CASE ReadOriginal
    <2> DEFINE original == coalescedInto[j]
               s        == [thread[Loop] EXCEPT !.pc = "aliases", !.final = row[original],
                                                !.todo = <<j>>]
    <2>1. /\ row[j] # NoRow /\ Current(original) /\ j \in Jobs /\ thread[Loop].pc = "register"
      BY <1>2, <1>3, <1>7, <1>0 DEF ReadOriginal, At, PlacedAt
    <2>2. \/ Goto(Loop, "append") /\ row' = row
          \/ Goto(Loop, "save failed")
          \/ thread' = [thread EXCEPT ![Loop] = s] /\ row' = row
      BY <1>0, <1>7 DEF ReadOriginal
    <2>3. CASE Goto(Loop, "append") /\ row' = row
      <3>1. PlacedAt("append", j)'
        BY <1>1, <2>1, <2>3 DEF PlacedAt, Current
      <3> QED BY <1>0, <1>1, <2>3, <3>1, GotoPlaced
    <2>4. CASE thread' = [thread EXCEPT ![Loop] = s] /\ row' = row
      <3>1. /\ thread'[Loop].pc = "aliases" /\ thread'[Loop].job = j
            /\ thread'[Loop].final = row[original] /\ thread'[Loop].todo = <<j>>
        BY <1>0, <1>1, <2>4 DEF Orderly, Truthful, Shape, TypeOK, ThreadStates
      <3>2. original \in Jobs
        BY <1>0, <1>1, <2>1 DEF Orderly, Truthful, AllSincere, Sincere, Answers
      <3>3. row[original] # "abandoned"
        <4>1. life[original] = crashes /\ crashes \in Nat
          BY <2>1 DEF Current, Orderly, Truthful, Shape, TypeOK
        <4> QED BY <3>2, <4>1 DEF Orderly, Lives
      <3>4. \A i \in DOMAIN <<j>> : <<j>>[i] = j
        OBVIOUS
      <3> QED BY <2>1, <2>4, <3>1, <3>3, <3>4, NowhereSpecial DEF Placed
    <2> QED BY <1>4, <2>2, <2>3, <2>4
  <1>8. CASE ReadAlias(Loop) \/ SaveAliasRunning(Loop) \/ SaveAliasFinal(Loop)
    BY <1>1, <1>8, AliasPlaced
  <1> QED BY <1>0, <1>4, <1>5, <1>6, <1>7, <1>8
          DEF SubmitStep, SaveQueued, Enqueue, UndoAdmission, SaveSubmitFailed, SaveAlias, AppendAlias,
              SubmitDone

LEMMA WorkerPlaced ==
  ASSUME Orderly, NEW n \in Notebooks, WorkerStep(n)
  PROVE  Placed(n, thread[n])'
  <1>0. PICK j : j = thread[n].job
    OBVIOUS
  <1>1. /\ n \in Threads /\ n # Loop /\ Acts(n) /\ row \in [Jobs -> RowStates]
        /\ UNCHANGED <<request, life, crashes>>
    BY WorkerActs, CoordinatorAssumption DEF Threads, Orderly, Truthful, Shape, TypeOK, Acts
  <1>2. thread[n].pc \notin {"idle", "stopped"} => j \in Jobs
    BY <1>0, <1>1, HandFacts DEF Orderly
  <1>3. PlacedAt(thread[n].pc, j)
    BY <1>0, <1>1 DEF Orderly, AllPlaced, Placed
  <1>4. CASE TakeJob(n)
    <2>1. PICK h : h = Head(queue[n])
      OBVIOUS
    <2>2. queue[n] \in Seq(Jobs \union {Sentinel}) /\ queue[n] # <<>>
      BY <1>4 DEF TakeJob, Orderly, Truthful, Shape, TypeOK
    <2>3. 1 \in DOMAIN queue[n] /\ h = queue[n][1] /\ h # NoJob
      BY <1>4, <2>1, <2>2 DEF TakeJob, Sentinel
    <2>4. NotebookOf(h) = n /\ row[h] = "queued" /\ ~Delivered(h)
      BY <2>3 DEF Orderly, QueuedApart
    <2>5. UNCHANGED <<row, deliveredAt>>
      BY <1>4 DEF TakeJob
    <2>6. /\ thread'[n].pc = "begin" /\ thread'[n].job = h
          /\ thread'[n].final = NoRow /\ thread'[n].todo = <<>>
      BY <1>1, <1>4, <2>1 DEF TakeJob, Idle, Orderly, Truthful, Shape, TypeOK
    <2>7. PlacedAt("begin", h)'
      BY <2>4, <2>5 DEF PlacedAt, Delivered
    <2>8. NotebookOf(h)' = n
      BY <1>1, <2>4 DEF NotebookOf
    <2> QED BY <1>1, <2>6, <2>7, <2>8, EmptyDomain DEF Placed, NoRow
  <1>5. CASE StopWorker(n) \/ SaveFinal(n)
    <2>1. Goto(n, "stopped") \/ Goto(n, "pop aliases")
      BY <1>5 DEF StopWorker, SaveFinal
    <2> QED BY <1>0, <1>1, <2>1, GotoPlaced, NowhereSpecial
  <1>6. CASE MarkRunning(n)
    <2>1. row[j] = "queued" /\ ~Delivered(j) /\ j \in Jobs
      BY <1>2, <1>3, <1>6 DEF MarkRunning, At, PlacedAt
    <2>2. row'[j] \in {"queued", "running"} /\ UNCHANGED deliveredAt
      BY <1>0, <1>1, <1>6, <2>1 DEF MarkRunning, SaveBestEffort, Save, Saved, Raises, StoreOnly
    <2>3. PlacedAt("prepare", j)'
      BY <2>1, <2>2 DEF PlacedAt, Delivered
    <2> QED BY <1>0, <1>1, <1>6, <2>3, GotoPlaced DEF MarkRunning
  <1>7. ASSUME \E pc \in {"record", "save final"}, final \in {"failed", "persisted"} :
                 Goto(n, pc) \/ Conclude(n, pc, final),
               j \in Jobs, row[j] # NoRow
        PROVE  Placed(n, thread[n])'
    <2>1. row'[j] # NoRow
      BY <1>1, <1>7, RowsKept
    <2>2. PlacedAt("record", j)' /\ PlacedAt("save final", j)'
      BY <2>1 DEF PlacedAt
    <2> QED BY <1>0, <1>1, <1>7, <2>2, GotoPlaced
  <1>8. CASE Prepare(n)
    <2>1. row[j] \in {"queued", "running"} /\ ~Delivered(j) /\ j \in Jobs
      BY <1>2, <1>3, <1>8 DEF Prepare, At, PlacedAt
    <2>2. \/ Conclude(n, "save final", "failed")
          \/ Save(j, "running") /\ Goto(n, "deliver")
      BY <1>0, <1>8 DEF Prepare
    <2>3. CASE Save(j, "running") /\ Goto(n, "deliver")
      <3>1. row'[j] = "running"
        BY <1>1, <2>1, <2>3 DEF Save, Saved, CanTransition, AllowedTransitions, JobStates, InflightStates
      <3>2. UNCHANGED deliveredAt
        BY <1>8 DEF Prepare, StoreOnly
      <3>3. PlacedAt("deliver", j)'
        BY <2>1, <3>1, <3>2 DEF PlacedAt, Delivered
      <3> QED BY <1>0, <1>1, <2>3, <3>3, GotoPlaced
    <2> QED BY <1>7, <2>1, <2>2, <2>3 DEF NoRow
  <1>9. CASE Deliver(n) \/ RecordOutcome(n)
    <2>1. row[j] # NoRow /\ j \in Jobs
      BY <1>2, <1>3, <1>9 DEF Deliver, RecordOutcome, At, PlacedAt, NoRow
    <2>2. \E pc \in {"record", "save final"}, final \in {"failed", "persisted"} :
            Goto(n, pc) \/ Conclude(n, pc, final)
      BY <1>9 DEF Deliver, RecordOutcome
    <2> QED BY <1>7, <2>1, <2>2
  <1>10. CASE PopAliases(n)
    <2>1. /\ thread'[n].pc = "aliases" /\ thread'[n].job = j /\ thread'[n].final = thread[n].final
          /\ thread'[n].todo = aliases[j] /\ row' = row /\ j \in Jobs
      BY <1>0, <1>1, <1>2, <1>10 DEF PopAliases, At, Orderly, Truthful, Shape, TypeOK, ThreadStates
    <2>2. thread[n].final # "abandoned" /\ (j # NoJob => NotebookOf(j)' = n)
      BY <1>0, <1>1 DEF Orderly, AllPlaced, Placed, NotebookOf
    <2> QED BY <1>1, <2>1, <2>2, NowhereSpecial DEF Placed, Orderly, WaitingHasRow
  <1>11. CASE CompleteJob(n)
    BY <1>1, <1>11, ReturnPlaced DEF CompleteJob
  <1>12. CASE ReadAlias(n) \/ SaveAliasRunning(n) \/ SaveAliasFinal(n)
    BY <1>1, <1>12, AliasPlaced
  <1> QED BY <1>4, <1>5, <1>6, <1>8, <1>9, <1>10, <1>11, <1>12 DEF WorkerStep

----------------------------------------------------------------------------
(* A submission, and a restart.                                            *)

LEMMA SubmitFacts ==
  ASSUME Orderly, NEW info \in JobInfo, SubmitAccepted(info) \/ SubmitCoalesced(info),
         NEW new, new = NextJob
  PROVE  /\ new \in Jobs /\ new # NoJob /\ ~Drawn(new) /\ row[new] = NoRow /\ ~Delivered(new)
         /\ \A t \in Threads : thread[t].job # new
         /\ thread'[Loop].pc \in {"save queued", "save alias"} /\ thread'[Loop].job = new
         /\ thread'[Loop].todo = <<>> /\ thread'[Loop].final = NoRow
         /\ \A t \in Threads \ {Loop} : thread'[t] = thread[t]
         /\ Drawn(new)' /\ life'[new] = crashes /\ crashes \in Nat
         /\ \A j \in Jobs \ {new} : /\ request'[j] = request[j] /\ life'[j] = life[j]
                                    /\ coalescedInto'[j] = coalescedInto[j]
         /\ UNCHANGED <<row, deliveredAt, aliases, queue, crashes, up>> /\ up
         /\ \A f \in Fingerprints : active'[f] = active[f] \/ active'[f] = new
         /\ thread'[Loop].pc = "save alias"
              => \E o \in Jobs \ {new} : coalescedInto'[new] = o /\ Current(o)
  <1>0. new = NextJob /\ NextJob \in Jobs /\ IdsDrawn
    BY DEF SubmitAccepted, SubmitCoalesced, MaySubmit, Orderly, Truthful, Shape
  <1>1. new \in Jobs /\ new # NoJob /\ ~Drawn(new) /\ info # NoInfo
    <2>1. ~Drawn(new) /\ info # NoInfo
      BY <1>0, NextJobIsFresh, InfoType DEF Drawn
    <2> QED BY <1>0, <2>1 DEF Jobs, NoJob
  <1>2. row[new] = NoRow /\ ~Delivered(new)
    BY <1>1 DEF Orderly, Truthful, RowsAreDrawn, DeliveredWereDrawn
  <1>3. \A t \in Threads : thread[t].job # new
    BY <1>1, HandFacts DEF Orderly
  <1>4. Loop \in Threads
    BY DEF Threads
  <1>5. /\ thread'[Loop].pc = IF SubmitAccepted(info) THEN "save queued" ELSE "save alias"
        /\ thread'[Loop].job = new /\ thread'[Loop].todo = <<>> /\ thread'[Loop].final = NoRow
    <2>1. SubmitAccepted(info) => ~SubmitCoalesced(info)
      BY DEF SubmitAccepted, SubmitCoalesced, Accept, Coalesce
    <2>2. Begin(IF SubmitAccepted(info) THEN "save queued" ELSE "save alias", info)
      BY <2>1 DEF SubmitAccepted, SubmitCoalesced
    <2> QED BY <1>0, <1>4, <2>2 DEF Begin, Idle, Orderly, Truthful, Shape, TypeOK
  <1>6. \A t \in Threads \ {Loop} : thread'[t] = thread[t]
    BY DEF SubmitAccepted, SubmitCoalesced, Begin, Orderly, Truthful, Shape, TypeOK
  <1>7. /\ Drawn(new)' /\ life'[new] = crashes /\ crashes \in Nat
        /\ \A j \in Jobs \ {new} : /\ request'[j] = request[j] /\ life'[j] = life[j]
                                   /\ coalescedInto'[j] = coalescedInto[j]
    BY <1>1 DEF SubmitAccepted, SubmitCoalesced, Begin, Orderly, Truthful, Shape, TypeOK, Drawn
  <1>8. UNCHANGED <<row, deliveredAt, aliases, queue, crashes, up>> /\ up
    BY DEF SubmitAccepted, SubmitCoalesced, MaySubmit, serverVars
  <1>9. \A f \in Fingerprints : active'[f] = active[f] \/ active'[f] = new
    BY DEF SubmitAccepted, SubmitCoalesced, Accept, Coalesce, Orderly, Truthful, Shape, TypeOK,
           AdmissionTypeOK
  <1>10. ASSUME ~SubmitAccepted(info)
         PROVE  \E o \in Jobs \ {new} : coalescedInto'[new] = o /\ Current(o)
    <2>1. PICK o : o = active[FingerprintOf(info)]
      OBVIOUS
    <2>2. o # NoJob /\ FingerprintOf(info) \in Fingerprints
      BY <1>10, <2>1, InfoType DEF SubmitCoalesced, Coalesce, Coalesces
    <2>3. Current(o) /\ Answers(o, o)
      BY <2>1, <2>2 DEF Orderly, Truthful, ActiveAnswer, Lives
    <2>4. coalescedInto'[new] = o
      BY <1>1, <1>10, <2>1 DEF SubmitCoalesced, Orderly, Truthful, Shape, TypeOK
    <2> QED BY <1>1, <2>3, <2>4 DEF Answers
  <1> QED BY <1>1, <1>2, <1>3, <1>5, <1>6, <1>7, <1>8, <1>9, <1>10

LEMMA SubmitPlaced ==
  ASSUME Orderly, NEW info \in JobInfo, SubmitAccepted(info) \/ SubmitCoalesced(info)
  PROVE  AllPlaced'
  <1>0. PICK new : new = NextJob
    OBVIOUS
  <1>1. /\ new \in Jobs /\ new # NoJob /\ ~Drawn(new) /\ row[new] = NoRow /\ ~Delivered(new)
        /\ \A t \in Threads : thread[t].job # new
        /\ thread'[Loop].pc \in {"save queued", "save alias"} /\ thread'[Loop].job = new
        /\ thread'[Loop].todo = <<>> /\ thread'[Loop].final = NoRow
        /\ \A t \in Threads \ {Loop} : thread'[t] = thread[t]
        /\ life'[new] = crashes
        /\ \A j \in Jobs \ {new} : /\ request'[j] = request[j] /\ life'[j] = life[j]
                                   /\ coalescedInto'[j] = coalescedInto[j]
        /\ UNCHANGED <<row, deliveredAt, crashes>>
        /\ thread'[Loop].pc = "save alias"
             => \E o \in Jobs \ {new} : coalescedInto'[new] = o /\ Current(o)
    BY <1>0, SubmitFacts
  <1>2. Placed(Loop, thread[Loop])'
    <2>1. thread'[Loop].pc = "save alias" => Current(coalescedInto[new])'
      BY <1>1 DEF Current
    <2>2. PlacedAt(thread[Loop].pc, new)'
      BY <1>1, <2>1 DEF PlacedAt, Delivered
    <2> QED BY <1>1, <2>2, EmptyDomain DEF Placed, NoRow
  <1>3. ASSUME NEW t \in Threads, t # Loop
        PROVE  Placed(t, thread[t])'
    <2>1. PICK s : s = thread[t]
      OBVIOUS
    <2>2. thread'[t] = s /\ Placed(t, s) /\ Sincere(t, s) /\ s.job # new
      BY <1>1, <1>3, <2>1 DEF Orderly, AllPlaced, Truthful, AllSincere
    <2>3. s.pc \notin {"idle", "stopped"} => s.job \in Jobs
      BY <2>1, HandFacts DEF Orderly
    <2>4. ASSUME s.pc \in {"save alias", "register", "append"}
          PROVE  Current(coalescedInto[s.job])'
      <3>1. PICK o : o = coalescedInto[s.job]
        OBVIOUS
      <3>2. Answers(s.job, o) /\ Current(o)
        BY <2>2, <2>4, <3>1 DEF Sincere, Placed, PlacedAt
      <3>3. o \in Jobs /\ o # new
        BY <1>1, <3>2 DEF Answers
      <3> QED BY <1>1, <2>2, <2>3, <2>4, <3>1, <3>2, <3>3 DEF Current
    <2>5. PlacedAt(s.pc, s.job)'
      BY <1>1, <2>2, <2>4 DEF Placed, PlacedAt, Delivered
    <2>6. s.job # NoJob => NotebookOf(s.job)' = NotebookOf(s.job)
      BY <1>1, <2>1, <2>2, HandFacts DEF NotebookOf, Orderly
    <2> QED BY <1>1, <2>2, <2>5, <2>6 DEF Placed
  <1> QED BY <1>2, <1>3 DEF AllPlaced

LEMMA IdlePlaced ==
  ASSUME NEW t
  PROVE  Placed(t, Idle)'
  BY EmptyDomain DEF Placed, PlacedAt, Idle, NoRow

LEMMA PlacedStep ==
  ASSUME Orderly, [Next]_vars
  PROVE  AllPlaced'
  <1>1. ASSUME NEW t \in Threads, Acts(t), Placed(t, thread[t])'
        PROVE  AllPlaced'
    BY <1>1, PlacedStays DEF AllPlaced
  <1>2. CASE SubmitStep
    BY <1>1, <1>2, LoopActs, LoopPlaced DEF Threads, Orderly, Truthful
  <1>3. ASSUME NEW n \in Notebooks, WorkerStep(n)
        PROVE  AllPlaced'
    BY <1>1, <1>3, WorkerActs, WorkerPlaced DEF Threads, Orderly, Truthful
  <1>4. ASSUME Crash \/ Start PROVE AllPlaced'
    <2>1. \A t \in Threads : thread'[t] = Idle
      BY <1>4 DEF Crash, Start, Orderly, Lives
    <2>2. \A t \in Threads : Placed(t, Idle)'
      BY IdlePlaced
    <2> QED BY <2>1, <2>2 DEF AllPlaced, Placed
  <1>5. ASSUME UNCHANGED <<request, coalescedInto, life, crashes, up, thread, row, deliveredAt, aliases>>
        PROVE  AllPlaced'
    BY <1>5 DEF Orderly, AllPlaced, Placed, PlacedAt, Current, NotebookOf, Delivered
  <1> QED BY <1>2, <1>3, <1>4, <1>5, QuietSteps, SubmitPlaced DEF Orderly, Truthful

----------------------------------------------------------------------------
(* Hands and queues.                                                       *)

\* A thread goes on with its job, drops it, or takes the head of its queue.
LEMMA HandSteps ==
  ASSUME Shape
  PROVE  /\ SubmitStep => thread'[Loop].job \in {thread[Loop].job, NoJob}
         /\ \A n \in Notebooks : WorkerStep(n) =>
              thread'[n].job \in {thread[n].job, NoJob} \/ TakeJob(n)
  <1>0. Loop \in Threads /\ Notebooks \subseteq Threads /\ thread \in [Threads -> ThreadStates]
    BY DEF Threads, Shape, TypeOK
  <1>1. ASSUME NEW t \in Threads,
               \/ Return(t) \/ (\E pc : Goto(t, pc)) \/ (\E pc, final : Conclude(t, pc, final))
        PROVE  thread'[t].job \in {thread[t].job, NoJob}
    <2>1. thread'[t].job = NoJob \/ thread'[t].job = thread[t].job
      <3>1. CASE Return(t)
        BY <1>0, <3>1 DEF Return, Idle
      <3>2. ASSUME NEW pc, Goto(t, pc) PROVE thread'[t].job = thread[t].job
        BY <1>0, <3>2 DEF Goto, ThreadStates
      <3>3. ASSUME NEW pc, NEW final, Conclude(t, pc, final) PROVE thread'[t].job = thread[t].job
        BY <1>0, <3>3 DEF Conclude, ThreadStates
      <3> QED BY <1>1, <3>1, <3>2, <3>3
    <2> QED BY <2>1
  <1>2. ASSUME NEW t \in Threads, ReadAlias(t) \/ SaveAliasRunning(t) \/ SaveAliasFinal(t)
        PROVE  thread'[t].job \in {thread[t].job, NoJob}
    <2>1. ReadAlias(t) \/ SaveAliasRunning(t) => Return(t) \/ \E pc : Goto(t, pc)
      BY DEF ReadAlias, SaveAliasRunning
    <2>2. SaveAliasFinal(t) => thread'[t].job = thread[t].job
      BY <1>0 DEF SaveAliasFinal, ThreadStates
    <2> QED BY <1>1, <1>2, <2>1, <2>2
  <1>3. ASSUME \/ SaveQueued \/ Enqueue \/ UndoAdmission \/ SaveSubmitFailed \/ SaveAlias
               \/ AppendAlias \/ SubmitDone
        PROVE  Return(Loop) \/ \E pc : Goto(Loop, pc)
    BY <1>3 DEF SaveQueued, Enqueue, UndoAdmission, SaveSubmitFailed, SaveAlias, AppendAlias, SubmitDone
  <1>4. ASSUME ReadOriginal
        PROVE  thread'[Loop].job \in {thread[Loop].job, NoJob}
    <2>1. \/ \E pc : Goto(Loop, pc)
          \/ thread'[Loop].job = thread[Loop].job
      BY <1>0, <1>4 DEF ReadOriginal, ThreadStates
    <2> QED BY <1>0, <1>1, <2>1
  <1>5. ASSUME NEW n \in Notebooks,
               \/ StopWorker(n) \/ MarkRunning(n) \/ Prepare(n) \/ Deliver(n)
               \/ RecordOutcome(n) \/ SaveFinal(n) \/ CompleteJob(n)
        PROVE  Return(n) \/ (\E pc : Goto(n, pc)) \/ (\E pc, final : Conclude(n, pc, final))
    BY <1>5 DEF StopWorker, MarkRunning, Prepare, Deliver, RecordOutcome, SaveFinal, CompleteJob
  <1>6. ASSUME NEW n \in Notebooks, PopAliases(n)
        PROVE  thread'[n].job = thread[n].job
    BY <1>0, <1>6 DEF PopAliases, ThreadStates
  <1>7. SubmitStep => thread'[Loop].job \in {thread[Loop].job, NoJob}
    BY <1>0, <1>1, <1>2, <1>3, <1>4 DEF SubmitStep
  <1>8. ASSUME NEW n \in Notebooks, WorkerStep(n)
        PROVE  thread'[n].job \in {thread[n].job, NoJob} \/ TakeJob(n)
    BY <1>0, <1>1, <1>2, <1>5, <1>6, <1>8 DEF WorkerStep
  <1> QED BY <1>7, <1>8

\* The head of a queue, once taken, is in its worker's hand alone.
LEMMA TakenApart ==
  ASSUME Orderly, NEW n \in Notebooks, TakeJob(n)
  PROVE  /\ queue[n] \in Seq(Jobs \union {Sentinel}) /\ queue[n] # <<>>
         /\ 1 \in DOMAIN queue[n] /\ thread'[n].job = queue[n][1] /\ queue[n][1] # NoJob
         /\ queue' = [queue EXCEPT ![n] = Tail(@)]
         /\ \A t \in Threads : thread[t].job # queue[n][1]
         /\ \A t \in Threads \ {n} : thread'[t] = thread[t]
  <1>1. queue[n] \in Seq(Jobs \union {Sentinel}) /\ queue[n] # <<>>
    BY DEF TakeJob, Orderly, Truthful, Shape, TypeOK
  <1>2. 1 \in DOMAIN queue[n] /\ Head(queue[n]) = queue[n][1]
    BY <1>1, TailElements
  <1>3. thread'[n].job = queue[n][1] /\ queue[n][1] # NoJob /\ queue' = [queue EXCEPT ![n] = Tail(@)]
    BY <1>2 DEF TakeJob, Sentinel, Threads, Idle, Orderly, Truthful, Shape, TypeOK
  <1>4. \A t \in Threads : thread[t].job # queue[n][1]
    BY <1>2, <1>3 DEF Orderly, QueuedApart
  <1>5. \A t \in Threads \ {n} : thread'[t] = thread[t]
    BY DEF TakeJob, Orderly, Truthful, Shape, TypeOK
  <1> QED BY <1>1, <1>2, <1>3, <1>4, <1>5

LEMMA LoopApartStep ==
  ASSUME Orderly, [Next]_vars
  PROVE  LoopApart'
  <1>0. Loop \in Threads /\ Notebooks \subseteq Threads /\ Loop \notin Notebooks
    BY CoordinatorAssumption DEF Threads
  <1>1. CASE UNCHANGED thread
    BY <1>1 DEF Orderly, LoopApart
  <1>2. ASSUME NEW info \in JobInfo, SubmitAccepted(info) \/ SubmitCoalesced(info)
        PROVE  LoopApart'
    <2>1. PICK new : new = NextJob
      OBVIOUS
    <2>2. /\ thread'[Loop].job = new
          /\ \A t \in Threads : thread[t].job # new
          /\ \A t \in Threads \ {Loop} : thread'[t] = thread[t]
      BY <1>2, <2>1, SubmitFacts
    <2> QED BY <1>0, <2>2 DEF LoopApart
  <1>3. CASE SubmitStep
    <2>1. thread'[Loop].job \in {thread[Loop].job, NoJob}
      BY <1>3, HandSteps DEF Orderly, Truthful
    <2>2. \A n \in Notebooks : thread'[n] = thread[n]
      BY <1>0, <1>3, LoopActs DEF Acts, Orderly, Truthful
    <2> QED BY <2>1, <2>2 DEF LoopApart, Orderly
  <1>4. ASSUME NEW n \in Notebooks, WorkerStep(n)
        PROVE  LoopApart'
    <2>1. \A t \in Threads \ {n} : thread'[t] = thread[t]
      BY <1>4, WorkerActs DEF Acts, Orderly, Truthful
    <2>2. thread[Loop].job # NoJob => thread[Loop].job # thread'[n].job
      BY <1>0, <1>4, HandSteps, TakenApart DEF Orderly, Truthful, LoopApart
    <2> QED BY <1>0, <2>1, <2>2 DEF LoopApart, Orderly
  <1>5. CASE Crash
    BY <1>0, <1>5 DEF Crash, LoopApart, Idle
  <1>6. CASE Start
    BY <1>1, <1>6 DEF Start
  <1> QED BY <1>1, <1>2, <1>3, <1>4, <1>5, <1>6, QuietSteps DEF Orderly, Truthful

\* A queued job that nobody takes stays as it is.
LEMMA QueuedKept ==
  ASSUME Orderly, NEW t \in Threads, Acts(t), NEW n \in Notebooks, NEW i \in DOMAIN queue[n],
         NEW q, q = queue[n][i], q # NoJob
  PROVE  NotebookOf(q)' = n /\ row'[q] = "queued" /\ ~Delivered(q)'
  <1>1. /\ NotebookOf(q) = n /\ row[q] = "queued" /\ ~Delivered(q)
        /\ thread[t].job # q
    BY DEF Orderly, QueuedApart
  <1>2. q \in Jobs /\ coalescedInto[q] = NoJob
    BY DEF Orderly, Truthful, QueuedAnswer, Answers
  <1>3. row'[q] = row[q] /\ deliveredAt'[q] = deliveredAt[q]
    BY <1>1, <1>2, OthersKept
  <1> QED BY <1>1, <1>3 DEF Acts, NotebookOf, Delivered

\* A queue that moves up by d places, none or one, keeps its jobs apart.
LEMMA QueueMovesUp ==
  ASSUME QueuedApart, NEW n \in Notebooks, NEW d \in {0, 1},
         \A i \in DOMAIN queue'[n] :
           queue'[n][i] # NoJob =>
             i \in Nat /\ i + d \in DOMAIN queue[n] /\ queue'[n][i] = queue[n][i + d],
         NEW i \in DOMAIN queue'[n], NEW k \in DOMAIN queue'[n],
         queue'[n][i] # NoJob, queue'[n][k] = queue'[n][i]
  PROVE  k = i
  <1>1. /\ i \in Nat /\ k \in Nat
        /\ i + d \in DOMAIN queue[n] /\ k + d \in DOMAIN queue[n]
        /\ queue[n][i + d] = queue'[n][i] /\ queue[n][k + d] = queue'[n][i]
    OBVIOUS
  <1>2. k + d = i + d
    BY <1>1 DEF QueuedApart
  <1> QED BY <1>1, <1>2

LEMMA QueuedApartStep ==
  ASSUME Orderly, [Next]_vars
  PROVE  QueuedApart'
  <1>0. /\ queue \in [Notebooks -> Seq(Jobs \union {Sentinel})]
        /\ Loop \in Threads /\ Notebooks \subseteq Threads /\ Loop \notin Notebooks
        /\ \A n \in Notebooks : \A i \in DOMAIN queue[n] : i \in Nat /\ i + 0 = i
    BY CoordinatorAssumption DEF Threads, Orderly, Truthful, Shape, TypeOK
  \* No queue grows, and the threads take no job that stays in a queue.
  <1>1. ASSUME \A n \in Notebooks : \E d \in {0, 1} : \A i \in DOMAIN queue'[n] :
                 queue'[n][i] # NoJob =>
                   i \in Nat /\ i + d \in DOMAIN queue[n] /\ queue'[n][i] = queue[n][i + d],
               \A n \in Notebooks : \A i \in DOMAIN queue[n] :
                 queue[n][i] # NoJob =>
                   /\ request'[queue[n][i]].notebook = n
                   /\ row'[queue[n][i]] = "queued" /\ deliveredAt'[queue[n][i]] = Never,
               \A n \in Notebooks : \A i \in DOMAIN queue'[n] :
                 queue'[n][i] # NoJob => \A t \in Threads : thread'[t].job # queue'[n][i]
        PROVE  QueuedApart'
    <2>1. ASSUME NEW n \in Notebooks, NEW i \in DOMAIN queue'[n], queue'[n][i] # NoJob
          PROVE  /\ NotebookOf(queue[n][i])' = n
                 /\ row'[queue'[n][i]] = "queued" /\ ~Delivered(queue[n][i])'
                 /\ \A t \in Threads : thread'[t].job # queue'[n][i]
                 /\ \A k \in DOMAIN queue'[n] : queue'[n][k] = queue'[n][i] => k = i
      <3>1. PICK d \in {0, 1} : \A m \in DOMAIN queue'[n] :
              queue'[n][m] # NoJob =>
                m \in Nat /\ m + d \in DOMAIN queue[n] /\ queue'[n][m] = queue[n][m + d]
        BY <1>1
      <3>2. PICK q : q = queue'[n][i]
        OBVIOUS
      <3>3. NotebookOf(q)' = n /\ row'[q] = "queued" /\ deliveredAt'[q] = Never
        BY <1>1, <2>1, <3>1, <3>2 DEF NotebookOf
      <3>4. \A k \in DOMAIN queue'[n] : queue'[n][k] = queue'[n][i] => k = i
        BY <2>1, <3>1, QueueMovesUp DEF Orderly
      <3> QED BY <1>1, <2>1, <3>2, <3>3, <3>4 DEF NotebookOf, Delivered
    <2> QED BY <2>1 DEF QueuedApart
  \* A submission has a job that is in no queue.
  <1>2. ASSUME NEW info \in JobInfo, SubmitAccepted(info) \/ SubmitCoalesced(info)
        PROVE  QueuedApart'
    <2>1. PICK new : new = NextJob
      OBVIOUS
    <2>2. /\ new \in Jobs /\ ~Drawn(new)
          /\ thread'[Loop].job = new
          /\ \A t \in Threads \ {Loop} : thread'[t] = thread[t]
          /\ \A j \in Jobs \ {new} : request'[j] = request[j]
          /\ UNCHANGED <<row, deliveredAt, queue>>
      BY <1>2, <2>1, SubmitFacts
    <2>3. \A n \in Notebooks : \A i \in DOMAIN queue[n] :
            queue[n][i] # NoJob => queue[n][i] \in Jobs \ {new}
      BY <2>2 DEF Orderly, Truthful, QueuedAnswer, Answers
    <2> QED BY <1>0, <1>1, <2>2, <2>3 DEF Orderly, QueuedApart, NotebookOf, Delivered
  <1>3. ASSUME NEW t \in Threads, Acts(t)
        PROVE  \A n \in Notebooks : \A i \in DOMAIN queue[n] :
                 queue[n][i] # NoJob =>
                   /\ request'[queue[n][i]].notebook = n
                   /\ row'[queue[n][i]] = "queued" /\ deliveredAt'[queue[n][i]] = Never
    <2>1. ASSUME NEW n \in Notebooks, NEW i \in DOMAIN queue[n], queue[n][i] # NoJob
          PROVE  /\ request'[queue[n][i]].notebook = n
                 /\ row'[queue[n][i]] = "queued" /\ deliveredAt'[queue[n][i]] = Never
      <3>1. PICK q : q = queue[n][i]
        OBVIOUS
      <3>2. NotebookOf(q)' = n /\ row'[q] = "queued" /\ ~Delivered(q)'
        BY <1>3, <2>1, <3>1, QueuedKept
      <3> QED BY <3>1, <3>2 DEF NotebookOf, Delivered
    <2> QED BY <2>1
  <1>4. ASSUME NEW t \in Threads, Acts(t), thread'[t].job \in {thread[t].job, NoJob}
        PROVE  \A n \in Notebooks : \A i \in DOMAIN queue[n] :
                 queue[n][i] # NoJob => \A u \in Threads : thread'[u].job # queue[n][i]
    BY <1>4 DEF Orderly, QueuedApart, Acts
  <1>5. ASSUME NEW t \in Threads, Acts(t), thread'[t].job \in {thread[t].job, NoJob}, UNCHANGED queue
        PROVE  QueuedApart'
    BY <1>0, <1>1, <1>3, <1>4, <1>5
  \* The queue of worker m moves up.
  <1>6. ASSUME NEW m \in Notebooks, WorkerStep(m), TakeJob(m) \/ StopWorker(m)
        PROVE  QueuedApart'
    <2>1. m \in Threads /\ Acts(m)
      BY <1>0, <1>6, WorkerActs DEF Orderly, Truthful
    <2>2. queue[m] # <<>> /\ queue' = [queue EXCEPT ![m] = Tail(queue[m])]
      BY <1>6 DEF TakeJob, StopWorker
    <2>3. \A i \in DOMAIN queue'[m] : i + 1 \in DOMAIN queue[m] /\ queue'[m][i] = queue[m][i + 1]
      <3>1. queue'[m] = Tail(queue[m])
        BY <1>0, <2>2
      <3> QED BY <1>0, <2>2, <3>1, TailElements
    <2>4. \A n \in Notebooks \ {m} : queue'[n] = queue[n]
      BY <1>0, <2>2
    <2>5. \A i \in DOMAIN queue'[m] : i \in Nat /\ i # 0
      <3>1. queue'[m] \in Seq(Jobs \union {Sentinel})
        BY <1>0, <2>2
      <3> QED BY <3>1
    <2>6. \A n \in Notebooks : \A i \in DOMAIN queue'[n] :
            queue'[n][i] # NoJob => \A u \in Threads : thread'[u].job # queue'[n][i]
      <3>1. CASE StopWorker(m)
        <4>1. thread'[m].job \in {thread[m].job, NoJob}
          BY <1>6, <2>1, <3>1 DEF StopWorker, Goto, Orderly, Truthful, Shape, TypeOK, ThreadStates
        <4> QED BY <1>4, <2>1, <2>3, <2>4, <4>1
      <3>2. CASE TakeJob(m)
        <4>1. /\ 1 \in DOMAIN queue[m] /\ thread'[m].job = queue[m][1] /\ queue[m][1] # NoJob
              /\ \A t \in Threads \ {m} : thread'[t] = thread[t]
          BY <3>2, TakenApart
        <4>2. ASSUME NEW i \in DOMAIN queue'[m]
              PROVE  queue'[m][i] # queue[m][1]
          <5>1. i + 1 \in DOMAIN queue[m] /\ queue'[m][i] = queue[m][i + 1] /\ i + 1 # 1
            BY <1>0, <2>3, <2>5, <4>2
          <5> QED BY <4>1, <5>1 DEF Orderly, QueuedApart
        <4>3. ASSUME NEW n \in Notebooks, n # m, NEW i \in DOMAIN queue[n]
              PROVE  queue[n][i] # queue[m][1]
          BY <4>1, <4>3 DEF Orderly, QueuedApart
        <4> QED BY <2>3, <2>4, <4>1, <4>2, <4>3 DEF Orderly, QueuedApart
      <3> QED BY <1>6, <3>1, <3>2
    <2>7. \A n \in Notebooks : \E d \in {0, 1} : \A i \in DOMAIN queue'[n] :
            queue'[n][i] # NoJob =>
              i \in Nat /\ i + d \in DOMAIN queue[n] /\ queue'[n][i] = queue[n][i + d]
      BY <1>0, <2>3, <2>4, <2>5
    <2> QED BY <1>1, <1>3, <2>1, <2>6, <2>7
  \* The job in the hand of the event loop goes to the end of its notebook's queue.
  <1>7. CASE Enqueue /\ ~UNCHANGED queue
    <2>1. PICK job, m : /\ job = thread[Loop].job /\ m = NotebookOf(job)
                        /\ queue' = [queue EXCEPT ![m] = Append(queue[m], job)]
                        /\ At(Loop, "enqueue") /\ Return(Loop)
      BY <1>7 DEF Enqueue, NotebookOf
    <2>2. SubmitStep /\ Acts(Loop)
      BY <1>7, LoopActs DEF SubmitStep, Orderly, Truthful
    <2>3. job \in Jobs /\ job # NoJob
      BY <1>0, <2>1, HandFacts DEF At, Orderly
    <2>4. row[job] = "queued" /\ ~Delivered(job)
      BY <1>0, <2>1 DEF Orderly, AllPlaced, Placed, PlacedAt, At
    <2>5. UNCHANGED <<row, deliveredAt, request>>
      BY <1>7 DEF Enqueue, historyVars
    <2>6. \A t \in Threads : thread'[t].job # job
      <3>1. thread'[Loop].job = NoJob
        BY <1>0, <2>1 DEF Return, Idle, Orderly, Truthful, Shape, TypeOK
      <3>2. \A n \in Notebooks : thread'[n] = thread[n] /\ thread[n].job # job
        BY <1>0, <2>1, <2>2, <2>3 DEF Acts, Orderly, LoopApart
      <3> QED BY <2>3, <3>1, <3>2 DEF Threads
    <2>7. \A n \in Notebooks : \A i \in DOMAIN queue[n] : queue[n][i] # job
      BY <1>0, <2>1, <2>3 DEF Orderly, QueuedApart
    <2>8. \A n \in Notebooks \ {m} : queue'[n] = queue[n]
      BY <1>0, <2>1
    <2>9. ASSUME m \in Notebooks
          PROVE  \A i \in DOMAIN queue'[m] :
                   \/ i \in DOMAIN queue[m] /\ queue'[m][i] = queue[m][i]
                   \/ i = Len(queue[m]) + 1 /\ queue'[m][i] = job
      <3>1. queue'[m] = Append(queue[m], job)
        BY <1>0, <2>1, <2>9
      <3> QED BY <1>0, <2>3, <2>9, <3>1
    <2>10. ASSUME NEW n \in Notebooks, NEW i \in DOMAIN queue'[n], queue'[n][i] # NoJob
           PROVE  /\ NotebookOf(queue[n][i])' = n
                  /\ row'[queue'[n][i]] = "queued" /\ ~Delivered(queue[n][i])'
                  /\ \A t \in Threads : thread'[t].job # queue'[n][i]
                  /\ \A k \in DOMAIN queue'[n] : queue'[n][k] = queue'[n][i] => k = i
      <3>0. PICK q : q = queue'[n][i]
        OBVIOUS
      <3>1. CASE i \in DOMAIN queue[n] /\ q = queue[n][i]
        <4>1. NotebookOf(q) = n /\ row[q] = "queued" /\ ~Delivered(q)
          BY <2>10, <3>0, <3>1 DEF Orderly, QueuedApart
        <4>2. \A t \in Threads : thread'[t].job # q
          BY <1>0, <1>4, <2>1, <2>2, <2>10, <3>0, <3>1, HandSteps DEF Orderly, Truthful
        <4>3. ASSUME NEW k \in DOMAIN queue'[n], queue'[n][k] = q
              PROVE  k = i
          <5>1. k \in DOMAIN queue[n] /\ queue'[n][k] = queue[n][k]
            BY <2>7, <2>8, <2>9, <3>1, <4>3
          <5> QED BY <2>10, <3>0, <3>1, <4>3, <5>1 DEF Orderly, QueuedApart
        <4> QED BY <2>5, <3>0, <4>1, <4>2, <4>3 DEF NotebookOf, Delivered
      <3>2. CASE n = m /\ i = Len(queue[m]) + 1 /\ q = job
        <4>1. \A k \in DOMAIN queue'[n] : queue'[n][k] = q => k = i
          BY <2>7, <2>9, <3>2
        <4> QED BY <2>1, <2>4, <2>5, <2>6, <3>0, <3>2, <4>1 DEF NotebookOf, Delivered
      <3> QED BY <2>8, <2>9, <2>10, <3>0, <3>1, <3>2
    <2> QED BY <2>10 DEF QueuedApart
  <1>8. CASE SubmitStep /\ UNCHANGED queue
    BY <1>0, <1>5, <1>8, LoopActs, HandSteps DEF Orderly, Truthful
  <1>9. ASSUME NEW n \in Notebooks, WorkerStep(n), ~TakeJob(n), UNCHANGED queue
        PROVE  QueuedApart'
    BY <1>0, <1>5, <1>9, WorkerActs, HandSteps DEF Orderly, Truthful
  <1>10. SubmitStep => UNCHANGED queue \/ Enqueue
    BY DEF SubmitStep, SaveQueued, UndoAdmission, SaveSubmitFailed, SaveAlias, ReadOriginal,
           AppendAlias, SubmitDone, ReadAlias, SaveAliasRunning, SaveAliasFinal, StoreOnly, serverVars
  <1>11. \A n \in Notebooks : WorkerStep(n) => UNCHANGED queue \/ TakeJob(n) \/ StopWorker(n)
    BY DEF WorkerStep, MarkRunning, Prepare, Deliver, RecordOutcome, SaveFinal, PopAliases, CompleteJob,
           ReadAlias, SaveAliasRunning, SaveAliasFinal, StoreOnly, serverVars
  <1>12. CASE Crash \/ Start
    <2>1. \A n \in Notebooks : queue'[n] = <<>>
      BY <1>12 DEF Crash, Start, serverVars, Orderly, Lives
    <2> QED BY <2>1, EmptyDomain DEF QueuedApart
  <1>13. ASSUME UNCHANGED <<request, coalescedInto, life, crashes, up, thread, row, deliveredAt, aliases>>,
                UNCHANGED queue \/ ShutDown
         PROVE  QueuedApart'
    <2>1. \A n \in Notebooks : \A i \in DOMAIN queue'[n] :
            queue'[n][i] # NoJob =>
              i \in Nat /\ i + 0 \in DOMAIN queue[n] /\ queue'[n][i] = queue[n][i + 0]
      <3>1. CASE UNCHANGED queue
        BY <1>0, <3>1
      <3>2. CASE ShutDown
        <4>1. ASSUME NEW n \in Notebooks, NEW i \in DOMAIN queue'[n], queue'[n][i] # NoJob
              PROVE  i \in Nat /\ i + 0 \in DOMAIN queue[n] /\ queue'[n][i] = queue[n][i + 0]
          <5>1. queue'[n] = Append(queue[n], NoJob)
            BY <3>2 DEF ShutDown, Sentinel
          <5> QED BY <1>0, <4>1, <5>1 DEF Sentinel
        <4> QED BY <4>1
      <3> QED BY <1>13, <3>1, <3>2
    <2>2. \A n \in Notebooks : \A i \in DOMAIN queue[n] :
            queue[n][i] # NoJob =>
              /\ request'[queue[n][i]].notebook = n
              /\ row'[queue[n][i]] = "queued" /\ deliveredAt'[queue[n][i]] = Never
              /\ \A t \in Threads : thread'[t].job # queue[n][i]
      BY <1>13 DEF Orderly, QueuedApart, NotebookOf, Delivered
    <2>3. \A n \in Notebooks : \A i \in DOMAIN queue'[n] :
            queue'[n][i] # NoJob => \A t \in Threads : thread'[t].job # queue'[n][i]
      BY <1>0, <2>1, <2>2
    <2> QED BY <1>1, <2>1, <2>2, <2>3
  <1> QED BY <1>2, <1>6, <1>7, <1>8, <1>9, <1>10, <1>11, <1>12, <1>13, QuietSteps DEF Orderly, Truthful

----------------------------------------------------------------------------
(* Waiting aliases, and the lifetimes of the server.                       *)

LEMMA WaitingHasRowStep ==
  ASSUME Orderly, [Next]_vars
  PROVE  WaitingHasRow'
  <1>0. /\ aliases \in [Jobs -> Seq(Jobs)] /\ row \in [Jobs -> RowStates]
        /\ Loop \in Threads /\ Notebooks \subseteq Threads
        /\ \A j \in Jobs : \A i \in DOMAIN aliases[j] : aliases[j][i] \in Jobs
    BY DEF Threads, Orderly, Truthful, Shape, TypeOK
  <1>1. ASSUME \A j \in Jobs : \A i \in DOMAIN aliases'[j] :
                 \/ \E k \in DOMAIN aliases[j] : aliases'[j][i] = aliases[j][k]
                 \/ aliases'[j][i] \in Jobs /\ row[aliases'[j][i]] # NoRow,
               \A j \in Jobs : row[j] # NoRow => row'[j] # NoRow
        PROVE  WaitingHasRow'
    BY <1>0, <1>1 DEF WaitingHasRow, Orderly
  <1>2. ASSUME UNCHANGED aliases, \A j \in Jobs : row[j] # NoRow => row'[j] # NoRow
        PROVE  WaitingHasRow'
    BY <1>1, <1>2
  <1>3. ASSUME NEW t \in Threads, Acts(t)
        PROVE  \A j \in Jobs : row[j] # NoRow => row'[j] # NoRow
    BY <1>3, RowsKept
  <1>4. CASE AppendAlias
    <2>1. PICK alias, original : /\ alias = thread[Loop].job
                                 /\ aliases' = [aliases EXCEPT ![original] = Append(@, alias)]
                                 /\ At(Loop, "append") /\ UNCHANGED row
      BY <1>4 DEF AppendAlias
    <2>2. alias \in Jobs /\ row[alias] # NoRow
      BY <1>0, <2>1, HandFacts DEF At, Orderly, AllPlaced, Placed, PlacedAt
    <2>3. ASSUME NEW j \in Jobs, NEW i \in DOMAIN aliases'[j]
          PROVE  (\E k \in DOMAIN aliases[j] : aliases'[j][i] = aliases[j][k]) \/ aliases'[j][i] = alias
      <3>1. aliases'[j] = aliases[j] \/ aliases'[j] = Append(aliases[j], alias)
        BY <1>0, <2>1
      <3>2. PICK long : long = aliases'[j]
        OBVIOUS
      <3>3. CASE long = Append(aliases[j], alias)
        BY <1>0, <2>3, <3>2, <3>3, AppendElements
      <3> QED BY <2>3, <3>1, <3>2, <3>3
    <2> QED BY <1>1, <2>1, <2>2, <2>3
  <1>5. ASSUME NEW n \in Notebooks, PopAliases(n)
        PROVE  WaitingHasRow'
    <2>1. \A j \in Jobs : aliases'[j] = <<>> \/ aliases'[j] = aliases[j]
      BY <1>0, <1>5 DEF PopAliases
    <2>2. UNCHANGED row
      BY <1>5 DEF PopAliases
    <2> QED BY <1>1, <2>1, <2>2, EmptyDomain
  <1>6. SubmitStep => UNCHANGED aliases \/ AppendAlias
    BY DEF SubmitStep, SaveQueued, Enqueue, UndoAdmission, SaveSubmitFailed, SaveAlias, ReadOriginal,
           SubmitDone, ReadAlias, SaveAliasRunning, SaveAliasFinal, StoreOnly, serverVars
  <1>7. \A n \in Notebooks : WorkerStep(n) => UNCHANGED aliases \/ PopAliases(n)
    BY DEF WorkerStep, TakeJob, StopWorker, MarkRunning, Prepare, Deliver, RecordOutcome, SaveFinal,
           CompleteJob, ReadAlias, SaveAliasRunning, SaveAliasFinal, StoreOnly, serverVars
  <1>8. CASE SubmitStep
    BY <1>0, <1>2, <1>3, <1>4, <1>6, <1>8, LoopActs DEF Orderly, Truthful
  <1>9. ASSUME NEW n \in Notebooks, WorkerStep(n)
        PROVE  WaitingHasRow'
    BY <1>0, <1>2, <1>3, <1>5, <1>7, <1>9, WorkerActs DEF Orderly, Truthful
  <1>10. ASSUME NEW info \in JobInfo, SubmitAccepted(info) \/ SubmitCoalesced(info)
         PROVE  UNCHANGED aliases /\ UNCHANGED row
    BY <1>10 DEF SubmitAccepted, SubmitCoalesced, serverVars
  <1>11. CASE Crash
    <2>1. \A j \in Jobs : aliases'[j] = <<>>
      BY <1>11 DEF Crash
    <2> QED BY <2>1, EmptyDomain DEF WaitingHasRow
  <1>12. CASE Start
    <2>1. \A j \in Jobs : row[j] # NoRow => row'[j] # NoRow
      BY <1>0, <1>12 DEF Start, Abandoned, NoRow
    <2> QED BY <1>2, <1>12, <2>1 DEF Start, serverVars
  <1> QED BY <1>2, <1>8, <1>9, <1>10, <1>11, <1>12, QuietSteps DEF Orderly, Truthful

\* A step of a thread activates no job.
LEMMA ActiveKept ==
  ASSUME Shape, NEW f \in Fingerprints,
         SubmitStep \/ \E n \in Notebooks : WorkerStep(n)
  PROVE  active'[f] \in {active[f], NoJob}
  <1>1. active \in [Fingerprints -> Jobs \union {NoJob}]
    BY DEF Shape, TypeOK, AdmissionTypeOK
  <1>2. ASSUME NEW done, NEW succeeded, Complete(done, succeeded)
        PROVE  active'[f] \in {active[f], NoJob}
    BY <1>1, <1>2 DEF Complete
  <1>3. ASSUME \/ SaveQueued \/ Enqueue \/ SaveSubmitFailed \/ SaveAlias \/ ReadOriginal
               \/ AppendAlias \/ SubmitDone
        PROVE  UNCHANGED active
    BY <1>3 DEF SaveQueued, Enqueue, SaveSubmitFailed, SaveAlias, ReadOriginal, AppendAlias, SubmitDone,
                StoreOnly, admissionVars
  <1>4. ASSUME NEW t,
               \/ ReadAlias(t) \/ SaveAliasRunning(t) \/ SaveAliasFinal(t) \/ TakeJob(t)
               \/ StopWorker(t) \/ MarkRunning(t) \/ Prepare(t) \/ Deliver(t)
               \/ RecordOutcome(t) \/ SaveFinal(t) \/ PopAliases(t)
        PROVE  UNCHANGED active
    BY <1>4 DEF ReadAlias, SaveAliasRunning, SaveAliasFinal, TakeJob, StopWorker, MarkRunning, Prepare,
                Deliver, RecordOutcome, SaveFinal, PopAliases, StoreOnly, admissionVars
  <1> QED BY <1>2, <1>3, <1>4 DEF SubmitStep, WorkerStep, UndoAdmission, CompleteJob

\* What a thread writes is no "abandoned".
LEMMA NeverAbandons ==
  ASSUME Orderly, NEW t \in Threads, Acts(t), NEW j \in Jobs, row'[j] = "abandoned"
  PROVE  row[j] = "abandoned"
  <1>1. row \in [Jobs -> RowStates] /\ thread[t].final # "abandoned"
    BY DEF Orderly, Truthful, Shape, TypeOK, AllPlaced, Placed
  <1> QED BY <1>1, SavedRows DEF Acts, Wrote

LEMMA LivesStep ==
  ASSUME Orderly, [Next]_vars
  PROVE  Lives'
  <1>0. /\ Loop \in Threads /\ Notebooks \subseteq Threads /\ Loop \notin Notebooks
        /\ crashes \in Nat /\ life \in [Jobs -> Nat] /\ row \in [Jobs -> RowStates]
        /\ active \in [Fingerprints -> Jobs \union {NoJob}] /\ up \in BOOLEAN
    BY CoordinatorAssumption DEF Threads, Orderly, Truthful, Shape, TypeOK, AdmissionTypeOK
  <1>1. CASE UNCHANGED <<request, coalescedInto, life, crashes, up, thread, row, deliveredAt, aliases>>
             /\ UNCHANGED active /\ (UNCHANGED queue \/ ShutDown)
    BY <1>1 DEF Orderly, Lives, Drawn, Current, ShutDown
  <1>2. ASSUME NEW t \in Threads, Acts(t), SubmitStep \/ \E n \in Notebooks : WorkerStep(n)
        PROVE  Lives'
    <2>1. up /\ up'
      BY <1>2 DEF Acts, Orderly, Lives, Idle
    <2>2. UNCHANGED <<request, life, crashes>>
      BY <1>2 DEF Acts
    <2>3. \A j \in Jobs : row'[j] = "abandoned" => row[j] = "abandoned"
      BY <1>2, NeverAbandons
    <2>4. \A f \in Fingerprints : active'[f] \in {active[f], NoJob}
      BY <1>2, ActiveKept DEF Orderly, Truthful
    <2> QED BY <2>1, <2>2, <2>3, <2>4 DEF Orderly, Lives, Drawn, Current
  <1>3. ASSUME NEW info \in JobInfo, SubmitAccepted(info) \/ SubmitCoalesced(info)
        PROVE  Lives'
    <2>1. PICK new : new = NextJob
      OBVIOUS
    <2>2. /\ new \in Jobs /\ new # NoJob /\ ~Drawn(new) /\ row[new] = NoRow
          /\ life'[new] = crashes
          /\ \A j \in Jobs \ {new} : request'[j] = request[j] /\ life'[j] = life[j]
          /\ UNCHANGED <<row, crashes, up>> /\ up
          /\ \A f \in Fingerprints : active'[f] = active[f] \/ active'[f] = new
      BY <1>3, <2>1, SubmitFacts
    <2>3. \A j \in Jobs : Drawn(j)' => life'[j] <= crashes
      BY <1>0, <2>2 DEF Orderly, Lives, Drawn
    <2>4. \A j \in Jobs : row'[j] = "abandoned" => life'[j] < crashes
      BY <2>2 DEF Orderly, Lives, NoRow
    <2>5. \A f \in Fingerprints : active[f] # NoJob => active[f] \in Jobs \ {new}
      BY <1>0, <2>2 DEF Orderly, Truthful, ActiveAnswer, Answers
    <2>6. \A f \in Fingerprints : active'[f] # NoJob => life'[active'[f]] = crashes
      BY <2>2, <2>5 DEF Orderly, Lives, Current
    <2> QED BY <2>2, <2>3, <2>4, <2>6 DEF Lives, Current
  <1>4. CASE Crash
    <2>1. /\ crashes' = crashes + 1 /\ ~up'
          /\ \A t \in Threads : thread'[t] = Idle
          /\ \A n \in Notebooks : queue'[n] = <<>>
          /\ \A f \in Fingerprints : active'[f] = NoJob
          /\ UNCHANGED <<row, request, life>>
      BY <1>4 DEF Crash, Reset, AdmissionEmpty, historyVars
    <2>2. \A j \in Jobs : Drawn(j) => life[j] < crashes + 1
      BY <1>0 DEF Orderly, Lives
    <2>3. \A j \in Jobs : row[j] = "abandoned" => life[j] < crashes + 1
      BY <1>0 DEF Orderly, Lives
    <2>4. \A j \in Jobs : life[j] < crashes + 1 => life[j] <= crashes + 1
      BY <1>0
    <2> QED BY <2>1, <2>2, <2>3, <2>4 DEF Lives, Drawn
  <1>5. CASE Start
    <2>1. ~up /\ up' /\ row' = Abandoned(row) /\ UNCHANGED <<request, life, crashes, active>>
      BY <1>5 DEF Start, historyVars, admissionVars
    <2>2. ASSUME NEW j \in Jobs, row'[j] = "abandoned"
          PROVE  life[j] < crashes
      <3>1. row[j] # NoRow
        BY <1>0, <2>1, <2>2 DEF Abandoned, NoRow, InflightStates
      <3> QED BY <2>1, <3>1 DEF Orderly, Truthful, RowsAreDrawn, Lives
    <2> QED BY <2>1, <2>2 DEF Orderly, Lives, Drawn, Current
  <1> QED BY <1>0, <1>1, <1>2, <1>3, <1>4, <1>5, QuietSteps, LoopActs, WorkerActs DEF Orderly, Truthful

LEMMA DeliveredWereDrawnStep ==
  ASSUME Orderly, [Next]_vars
  PROVE  DeliveredWereDrawn'
  <1>1. \A j \in Jobs : Drawn(j) => Drawn(j)'
    BY HistoryStays DEF Drawn, Orderly, Truthful
  <1>2. CASE UNCHANGED deliveredAt
    BY <1>1, <1>2 DEF Orderly, DeliveredWereDrawn, Delivered
  <1>3. ASSUME NEW n \in Notebooks, Deliver(n), deliveredAt' = [deliveredAt EXCEPT ![thread[n].job] = now]
        PROVE  DeliveredWereDrawn'
    <2>1. thread[n].job \in Jobs /\ Drawn(thread[n].job)
      BY <1>3, HandFacts DEF Deliver, At, Threads, Orderly
    <2>2. \A j \in Jobs \ {thread[n].job} : deliveredAt'[j] = deliveredAt[j]
      BY <1>3 DEF Orderly, Truthful, Shape, TypeOK
    <2> QED BY <1>1, <2>1, <2>2 DEF Orderly, DeliveredWereDrawn, Delivered
  <1> QED BY <1>2, <1>3, DeliverySteps

LEMMA OrderlyInit == Init => Orderly
  <1> SUFFICES ASSUME Init PROVE Orderly
    OBVIOUS
  <1>1. AllPlaced
    BY EmptyDomain DEF Init, AllPlaced, Placed, PlacedAt, Idle, NoRow
  <1>2. LoopApart /\ DeliveredWereDrawn
    BY DEF Init, LoopApart, Idle, Threads, DeliveredWereDrawn, Delivered
  <1>3. QueuedApart /\ WaitingHasRow
    BY EmptyDomain DEF Init, QueuedApart, WaitingHasRow
  <1>4. Lives
    BY DEF Init, Lives, Drawn, AdmissionInit, AdmissionEmpty, NoRow
  <1> QED BY <1>1, <1>2, <1>3, <1>4, TruthfulInit DEF Orderly

LEMMA OrderlyInvariant == Spec => []Orderly
  <1>1. Truthful /\ [Next]_vars => Truthful'
    BY ShapeStep, SincereStep, RowsStep, ActiveStep, QueuedStep, WaitingStep DEF Truthful
  <1>2. Orderly /\ [Next]_vars => Orderly'
    <2> SUFFICES ASSUME Orderly, [Next]_vars PROVE Orderly'
      OBVIOUS
    <2>1. AllPlaced' /\ LoopApart' /\ QueuedApart'
      BY PlacedStep, LoopApartStep, QueuedApartStep
    <2>2. WaitingHasRow' /\ Lives' /\ DeliveredWereDrawn'
      BY WaitingHasRowStep, LivesStep, DeliveredWereDrawnStep
    <2> QED BY <1>1, <2>1, <2>2 DEF Orderly
  <1> QED BY <1>2, OrderlyInit, PTL DEF Spec

----------------------------------------------------------------------------
(* The log.                                                                *)

\* What thread t writes over no row is a first row or a failure.
WroteInOrder(t) ==
  \E job \in Jobs, state \in {"queued", "running", "failed", thread[t].final} :
    /\ row' = Saved(row, job, state)
    /\ state \in {"queued", "failed"} \/ row[job] # NoRow

LEMMA WritesInOrder ==
  ASSUME Orderly
  PROVE  /\ SubmitStep => UNCHANGED row \/ WroteInOrder(Loop)
         /\ \A n \in Notebooks : WorkerStep(n) => UNCHANGED row \/ WroteInOrder(n)
  <1>0. Loop \in Threads /\ Notebooks \subseteq Threads
    BY DEF Threads
  <1>1. ASSUME SaveQueued \/ SaveAlias \/ SaveSubmitFailed
        PROVE  UNCHANGED row \/ WroteInOrder(Loop)
    <2>1. /\ thread[Loop].pc \notin {"idle", "stopped"}
          /\ UNCHANGED row \/ \E state \in {"queued", "failed"} : row' = Saved(row, thread[Loop].job, state)
      BY <1>1 DEF SaveQueued, SaveAlias, SaveSubmitFailed, SaveBestEffort, Save, Raises, At
    <2>2. thread[Loop].job \in Jobs
      BY <1>0, <2>1, HandFacts DEF Orderly
    <2> QED BY <2>1, <2>2 DEF WroteInOrder
  <1>2. ASSUME Enqueue \/ UndoAdmission \/ ReadOriginal \/ AppendAlias \/ SubmitDone
        PROVE  UNCHANGED row
    BY <1>2 DEF Enqueue, UndoAdmission, ReadOriginal, AppendAlias, SubmitDone, Raises
  <1>3. ASSUME NEW t \in Threads, ReadAlias(t) \/ SaveAliasRunning(t) \/ SaveAliasFinal(t)
        PROVE  UNCHANGED row \/ WroteInOrder(t)
    <2>1. \/ UNCHANGED row
          \/ /\ thread[t].pc \in {"alias running", "alias final"}
             /\ \E state \in {"running", thread[t].final} : row' = Saved(row, Head(thread[t].todo), state)
      BY <1>3 DEF ReadAlias, SaveAliasRunning, SaveAliasFinal, SaveBestEffort, Save, Raises, At
    <2>2. ASSUME thread[t].pc \in {"alias running", "alias final"}
          PROVE  Head(thread[t].todo) \in Jobs /\ row[Head(thread[t].todo)] # NoRow
      <3>1. thread[t].todo \in Seq(Jobs) /\ thread[t].todo # <<>>
        BY <2>2 DEF Orderly, Truthful, Shape, TypeOK, ThreadStates, AliasInHand
      <3>2. 1 \in DOMAIN thread[t].todo /\ Head(thread[t].todo) = thread[t].todo[1]
        BY <3>1, TailElements
      <3>3. row[thread[t].todo[1]] # NoRow
        BY <3>2 DEF Orderly, AllPlaced, Placed
      <3> QED BY <3>1, <3>2, <3>3
    <2>3. PICK job : job = Head(thread[t].todo)
      OBVIOUS
    <2> QED BY <2>1, <2>2, <2>3 DEF WroteInOrder
  <1>4. ASSUME NEW n \in Notebooks, MarkRunning(n) \/ Prepare(n) \/ RecordOutcome(n) \/ SaveFinal(n)
        PROVE  UNCHANGED row \/ WroteInOrder(n)
    <2>1. /\ thread[n].pc \in {"begin", "prepare", "record", "save final"}
          /\ \/ UNCHANGED row
             \/ \E state \in {"running", thread[n].final} : row' = Saved(row, thread[n].job, state)
      BY <1>4 DEF MarkRunning, Prepare, RecordOutcome, SaveFinal, SaveBestEffort, Save, Raises, At
    <2>2. thread[n].job \in Jobs
      BY <1>0, <2>1, HandFacts DEF Orderly
    <2>3. row[thread[n].job] # NoRow
      BY <1>0, <2>1 DEF Orderly, AllPlaced, Placed, PlacedAt, NoRow
    <2> QED BY <2>1, <2>2, <2>3 DEF WroteInOrder
  <1>5. ASSUME NEW n \in Notebooks,
               TakeJob(n) \/ StopWorker(n) \/ Deliver(n) \/ PopAliases(n) \/ CompleteJob(n)
        PROVE  UNCHANGED row
    BY <1>5 DEF TakeJob, StopWorker, Deliver, PopAliases, CompleteJob, Raises
  <1>6. SubmitStep => UNCHANGED row \/ WroteInOrder(Loop)
    BY <1>0, <1>1, <1>2, <1>3 DEF SubmitStep
  <1>7. ASSUME NEW n \in Notebooks, WorkerStep(n)
        PROVE  UNCHANGED row \/ WroteInOrder(n)
    BY <1>0, <1>3, <1>4, <1>5, <1>7 DEF WorkerStep
  <1> QED BY <1>6, <1>7

\* A save is a step of the log or changes nothing.
LEMMA SaveIsLogged ==
  ASSUME Orderly, NEW t \in Threads, WroteInOrder(t), UNCHANGED deliveredAt
  PROVE  Log!LogNext \/ UNCHANGED Log!logVars
  <1> DEFINE delivered == {j \in Jobs : deliveredAt[j] # Never}
  <1>1. PICK job \in Jobs, state \in {"queued", "running", "failed", thread[t].final} :
          /\ row' = Saved(row, job, state)
          /\ state \in {"queued", "failed"} \/ row[job] # NoRow
    BY DEF WroteInOrder
  <1>2. delivered' = delivered
    OBVIOUS
  <1>3. row \in [Jobs -> RowStates] /\ thread[t].final \in {"persisted", "failed", "none"}
    BY DEF Orderly, AllPlaced, Placed, Truthful, Shape, TypeOK, ThreadStates, TerminalStates, NoRow
  <1>4. state = "persisted" => delivered # {}
    BY <1>1 DEF Orderly, Truthful, AllSincere, Sincere, Delivered
  <1>5. \/ row' = row
        \/ /\ row' = [row EXCEPT ![job] = state]
           /\ \/ row[job] = "none" /\ state \in {"queued", "failed"}
              \/ row[job] = "queued" /\ state \in {"running", "failed"}
              \/ row[job] = "running" /\ state \in {"persisted", "failed"}
    BY <1>1, <1>3 DEF Saved, CanTransition, AllowedTransitions, RowStates, JobStates, InflightStates,
                      TerminalStates, NoRow
  <1>6. CASE row' = row
    BY <1>2, <1>6 DEF Log!logVars
  <1>7. CASE row[job] = "none" /\ state = "queued" /\ row' = [row EXCEPT ![job] = state]
    <2>1. Log!Queue(job)
      BY <1>2, <1>7 DEF Log!Queue, Log!Become
    <2> QED BY <2>1 DEF Log!LogNext
  <1>8. CASE row[job] = "queued" /\ state = "running" /\ row' = [row EXCEPT ![job] = state]
    <2>1. Log!Run(job)
      BY <1>2, <1>8 DEF Log!Run, Log!Become
    <2> QED BY <2>1 DEF Log!LogNext
  <1>9. CASE row[job] \in {"none", "queued", "running"} /\ state = "failed"
             /\ row' = [row EXCEPT ![job] = state]
    <2>1. Log!Fail(job)
      BY <1>2, <1>9 DEF Log!Fail, Log!Become, Log!Unfinished
    <2> QED BY <2>1 DEF Log!LogNext
  <1>10. CASE row[job] = "running" /\ state = "persisted" /\ row' = [row EXCEPT ![job] = state]
    <2>1. Log!Persist(job)
      BY <1>2, <1>4, <1>10 DEF Log!Persist, Log!Become
    <2> QED BY <2>1 DEF Log!LogNext
  <1> QED BY <1>5, <1>6, <1>7, <1>8, <1>9, <1>10

\* To a reader of the Activity list and the lab notebook, the threads, queues, coalesced
\* submissions, lost saves and restarts are invisible: the server behaves as the promised
\* log.  No end of a row is revised, no snapshot is written twice or after its row
\* stopped saying running, and only a starting server abandons rows.
THEOREM CoordinatorImplementsLog == Spec => ImplementsLog
  <1> DEFINE delivered == {j \in Jobs : deliveredAt[j] # Never}
  <1>1. Init => Log!LogInit
    BY DEF Init, Log!LogInit, NoRow
  <1>2. Orderly /\ [Next]_vars => [Log!LogNext]_(Log!logVars)
    <2> SUFFICES ASSUME Orderly, [Next]_vars
                 PROVE  Log!LogNext \/ UNCHANGED Log!logVars
      OBVIOUS
    <2>0. /\ row \in [Jobs -> RowStates] /\ deliveredAt \in [Jobs -> Nat \union {Never}]
          /\ now # Never /\ Loop \in Threads /\ Notebooks \subseteq Threads
      BY AdmissionAssumption DEF Threads, Orderly, Truthful, Shape, TypeOK, AdmissionTypeOK
    <2>1. ASSUME UNCHANGED <<row, deliveredAt>>
          PROVE  UNCHANGED Log!logVars
      BY <2>1 DEF Log!logVars
    <2>2. CASE SubmitStep
      <3>1. UNCHANGED deliveredAt
        BY <2>2, CoordinatorAssumption, LoopActs DEF Acts, Orderly, Truthful
      <3> QED BY <2>0, <2>1, <2>2, <3>1, WritesInOrder, SaveIsLogged
    <2>3. ASSUME NEW n \in Notebooks, WorkerStep(n), deliveredAt' # deliveredAt
          PROVE  Log!LogNext
      <3>1. Acts(n) /\ n \in Threads
        BY <2>0, <2>3, WorkerActs DEF Orderly, Truthful
      <3>2. PICK job : job = thread[n].job
        OBVIOUS
      <3>3. At(n, "deliver") /\ deliveredAt' = [deliveredAt EXCEPT ![job] = now]
        BY <2>3, <3>1, <3>2 DEF Acts
      <3>4. job \in Jobs /\ row[job] = "running" /\ ~Delivered(job)
        BY <3>1, <3>2, <3>3, HandFacts DEF At, Orderly, AllPlaced, Placed, PlacedAt
      <3>5. UNCHANGED row
        BY <2>3, <3>3 DEF WorkerStep, TakeJob, StopWorker, MarkRunning, Prepare, Deliver, RecordOutcome,
             SaveFinal, PopAliases, CompleteJob, ReadAlias, SaveAliasRunning, SaveAliasFinal, Raises, At,
             StoreOnly
      <3>6. delivered' = delivered \union {job}
        BY <2>0, <3>3, <3>4
      <3>7. job \notin delivered
        BY <3>4 DEF Delivered
      <3>8. Log!Deliver(job)
        BY <3>4, <3>5, <3>6, <3>7 DEF Log!Deliver
      <3> QED BY <3>4, <3>8 DEF Log!LogNext
    <2>4. ASSUME NEW n \in Notebooks, WorkerStep(n), deliveredAt' = deliveredAt
          PROVE  Log!LogNext \/ UNCHANGED Log!logVars
      BY <2>0, <2>1, <2>4, WritesInOrder, SaveIsLogged
    <2>5. CASE Start
      <3>1. row' = [j \in Jobs |-> IF row[j] \in Log!Unfinished THEN "abandoned" ELSE row[j]]
        BY <2>0, <2>5 DEF Start, Abandoned, InflightStates, Log!Unfinished
      <3>2. delivered' = delivered
        BY <2>5 DEF Start
      <3>3. Log!AbandonAll
        BY <3>1, <3>2 DEF Log!AbandonAll
      <3> QED BY <3>3 DEF Log!LogNext
    <2>6. CASE Crash
      BY <2>1, <2>6 DEF Crash
    <2>7. ASSUME NEW info \in JobInfo, SubmitAccepted(info) \/ SubmitCoalesced(info)
          PROVE  UNCHANGED <<row, deliveredAt>>
      BY <2>7 DEF SubmitAccepted, SubmitCoalesced
    <2> QED BY <2>1, <2>2, <2>3, <2>4, <2>5, <2>6, <2>7, QuietSteps DEF Orderly, Truthful
  <1> QED BY <1>1, <1>2, OrderlyInvariant, PTL DEF Spec, ImplementsLog, Log!LogSpec
=============================================================================
