------------------------ MODULE SnapshotCoordinator ------------------------
(***************************************************************************)
(* From a submitted snapshot to its terminal Activity row: the coordinator *)
(* with its admission table, the per-notebook worker pool, the execution   *)
(* of a job up to its delivery, and the Activity store they all write.     *)
(*                                                                         *)
(* Threads.  SnapshotHandler.post is a coroutine that never awaits, so the *)
(* server's event loop runs one submission at a time: one thread, Loop.    *)
(* Each notebook key has one worker thread, named by the notebook.  Each   *)
(* call that other threads can observe (admission, a row written or read,  *)
(* a queue operation, the alias table) is a step.                          *)
(*                                                                         *)
(* Faults.  A call named in FaultyOps may raise, MaxFaults times in all:   *)
(* the store's save and get, and the cleanup of a failed delivery.  The    *)
(* server may stop at any point, MaxCrashes times in all.                  *)
(***************************************************************************)
EXTENDS Admission, ActivityStore, Sequences, SequencesExt

CONSTANTS
  Loop,        (* the event loop thread                                     *)
  FaultyOps,   (* the calls that may raise                                  *)
  MaxFaults,   (* bound: how often one of them raises                       *)
  MaxCrashes   (* bound: how often the server stops                         *)

Threads  == Notebooks \union {Loop}
Sentinel == NoJob          \* the None that ends a worker thread

ASSUME CoordinatorAssumption ==
  /\ Loop \notin Notebooks
  /\ FaultyOps \subseteq {"save", "get", "cleanup"}
  /\ MaxFaults \in Nat
  /\ MaxCrashes \in Nat

VARIABLES
  up,             (* the server is running                                  *)
  row,            (* the durable table: job -> state, or NoRow              *)
  aliases,        (* _coalesced_aliases: original -> aliases waiting for it *)
  queue,          (* notebook -> the jobs put on its work queue             *)
  shutdown,       (* WorkerPool._shutdown                                   *)
  thread,         (* what each thread is doing                              *)
  request,        (* job -> the request its closures hold, or NoInfo        *)
  coalescedInto,  (* job -> the job its submission was coalesced into       *)
  deliveredAt,    (* job -> when its bundle was written, or Never           *)
  life,           (* job -> the server lifetime it was submitted in         *)
  faults, crashes

serverVars  == <<aliases, queue, shutdown>>
historyVars == <<request, coalescedInto, life>>
vars == <<admissionVars, up, row, serverVars, thread, historyVars, deliveredAt,
          faults, crashes>>

\* A thread's local state: where it is, the job in hand, the state of the
\* job's final record, and the aliases still to be given a copy of it.
Idle == [pc |-> "idle", job |-> NoJob, final |-> NoRow, todo |-> <<>>]

Init ==
  /\ AdmissionInit
  /\ up = TRUE
  /\ row = [j \in Jobs |-> NoRow]
  /\ aliases = [j \in Jobs |-> <<>>]
  /\ queue = [n \in Notebooks |-> <<>>]
  /\ shutdown = FALSE
  /\ thread = [t \in Threads |-> Idle]
  /\ request = [j \in Jobs |-> NoInfo]
  /\ coalescedInto = [j \in Jobs |-> NoJob]
  /\ deliveredAt = [j \in Jobs |-> Never]
  /\ life = [j \in Jobs |-> 0]
  /\ faults = 0
  /\ crashes = 0

----------------------------------------------------------------------------
(* Steps of a thread, and calls of the store.                              *)

At(t, pc)   == thread[t].pc = pc
Goto(t, pc) == thread' = [thread EXCEPT ![t].pc = pc]
Conclude(t, pc, final) ==
  thread' = [thread EXCEPT ![t].pc = pc, ![t].final = final]
Return(t)   == thread' = [thread EXCEPT ![t] = Idle]

Save(job, state) == row' = Saved(row, job, state) /\ UNCHANGED faults

Raises(op) ==
  /\ op \in FaultyOps
  /\ faults < MaxFaults
  /\ faults' = faults + 1
  /\ UNCHANGED row

\* _save_best_effort: an exception of the store is swallowed.
SaveBestEffort(job, state) == Save(job, state) \/ Raises("save")

StoreOnly == UNCHANGED <<admissionVars, up, serverVars, historyVars, deliveredAt, crashes>>

----------------------------------------------------------------------------
(* SnapshotCoordinator.submit, on the event loop.                          *)

\* uuid4: the ids of rejected submissions are never seen again.
NextJob == Cardinality({j \in Jobs : request[j] # NoInfo}) + 1

Begin(pc, info) ==
  /\ request' = [request EXCEPT ![NextJob] = info]
  /\ life' = [life EXCEPT ![NextJob] = crashes]
  /\ thread' = [thread EXCEPT ![Loop] = [Idle EXCEPT !.pc = pc, !.job = NextJob]]

MaySubmit == up /\ At(Loop, "idle") /\ NextJob \in Jobs

SubmitAccepted(info) ==
  /\ MaySubmit
  /\ Accept(NextJob, info)
  /\ Begin("save queued", info)
  /\ UNCHANGED <<up, row, serverVars, coalescedInto, deliveredAt, faults, crashes>>

SubmitCoalesced(info) ==
  /\ MaySubmit
  /\ Coalesce(info)
  /\ Begin("save alias", info)
  /\ coalescedInto' = [coalescedInto EXCEPT ![NextJob] = active[FingerprintOf(info)]]
  /\ UNCHANGED <<up, row, serverVars, deliveredAt, faults, crashes>>

SubmitRejected(info) ==
  /\ MaySubmit
  /\ Reject(info)
  /\ UNCHANGED <<up, row, serverVars, thread, historyVars, deliveredAt, faults, crashes>>

SaveQueued ==
  /\ At(Loop, "save queued")
  /\ \/ Save(thread[Loop].job, "queued") /\ Goto(Loop, "enqueue")
     \/ Raises("save") /\ Goto(Loop, "undo")
  /\ StoreOnly

\* WorkerPool.submit raises once the pool is shut down.
Enqueue ==
  LET job == thread[Loop].job
      n   == request[job].notebook IN
  /\ At(Loop, "enqueue")
  /\ IF shutdown
     THEN Goto(Loop, "undo") /\ UNCHANGED queue
     ELSE Return(Loop) /\ queue' = [queue EXCEPT ![n] = Append(@, job)]
  /\ UNCHANGED <<admissionVars, up, row, aliases, shutdown, historyVars, deliveredAt,
                 faults, crashes>>

\* Mutant: a failed submission keeps its slot.
UndoAdmission_KeepsSlot ==
  /\ At(Loop, "undo")
  /\ Goto(Loop, "save failed")
  /\ UNCHANGED <<row, faults>> /\ StoreOnly

\* The submission failed: give the slot back, then record the failure.
UndoAdmission ==
  /\ At(Loop, "undo")
  /\ Complete(thread[Loop].job, FALSE)
  /\ Goto(Loop, "save failed")
  /\ UNCHANGED <<up, row, serverVars, historyVars, deliveredAt, faults, crashes>>

SaveSubmitFailed ==
  /\ At(Loop, "save failed")
  /\ SaveBestEffort(thread[Loop].job, "failed")
  /\ Return(Loop)
  /\ StoreOnly

SaveAlias ==
  /\ At(Loop, "save alias")
  /\ \/ Save(thread[Loop].job, "queued") /\ Goto(Loop, "register")
     \/ Raises("save") /\ Goto(Loop, "save failed")
  /\ StoreOnly

\* _register_coalesced_alias reads the original's row holding _alias_lock and
\* keeps the lock until it has appended, so the lock is held at "append".
AliasLockHeld == At(Loop, "append")

\* Mutants: the original's row is taken as final whatever it says; the alias
\* always waits, also for an original that has ended.
ReadOriginal_TakesAny ==
  /\ At(Loop, "register")
  /\ thread' = [thread EXCEPT ![Loop].pc = "aliases",
                              ![Loop].final = row[coalescedInto[thread[Loop].job]],
                              ![Loop].todo = <<thread[Loop].job>>]
  /\ UNCHANGED <<row, faults>> /\ StoreOnly
ReadOriginal_AlwaysWaits ==
  /\ At(Loop, "register")
  /\ Goto(Loop, "append")
  /\ UNCHANGED <<row, faults>> /\ StoreOnly

ReadOriginal ==
  LET alias    == thread[Loop].job
      original == coalescedInto[alias] IN
  /\ At(Loop, "register")
  /\ \/ /\ IsTerminal(row[original])
        /\ thread' = [thread EXCEPT ![Loop].pc = "aliases",
                                    ![Loop].final = row[original],
                                    ![Loop].todo = <<alias>>]
        /\ UNCHANGED <<row, faults>>
     \/ /\ ~IsTerminal(row[original])
        /\ Goto(Loop, "append")
        /\ UNCHANGED <<row, faults>>
     \/ Raises("get") /\ Goto(Loop, "save failed")
  /\ StoreOnly

AppendAlias ==
  LET alias    == thread[Loop].job
      original == coalescedInto[alias] IN
  /\ At(Loop, "append")
  /\ aliases' = [aliases EXCEPT ![original] = Append(@, alias)]
  /\ Return(Loop)
  /\ UNCHANGED <<admissionVars, up, row, queue, shutdown, historyVars, deliveredAt,
                 faults, crashes>>

----------------------------------------------------------------------------
(* _save_alias_record, on whichever thread t has the original's final      *)
(* record: read the alias's row, mark it running, give it the final state. *)

\* This read is the one store call of the coordinator that nothing guards.  On
\* the event loop its exception makes the submission fail; on a worker it
\* leaves _execute's finally block before admission.complete, and the pool
\* logs it.
ReadAlias(t) ==
  /\ At(t, "aliases")
  /\ thread[t].todo # <<>>
  /\ \/ Goto(t, "alias running") /\ UNCHANGED <<row, faults>>
     \/ /\ Raises("get")
        /\ IF t = Loop THEN Goto(t, "save failed") ELSE Return(t)
  /\ StoreOnly

SaveAliasRunning(t) ==
  /\ At(t, "alias running")
  /\ SaveBestEffort(Head(thread[t].todo), "running")
  /\ Goto(t, "alias final")
  /\ StoreOnly

\* Mutant: an alias is reported saved whatever became of its original.
SaveAliasFinal_Saved(t) ==
  /\ At(t, "alias final")
  /\ SaveBestEffort(Head(thread[t].todo), "persisted")
  /\ thread' = [thread EXCEPT ![t].pc = "aliases", ![t].todo = Tail(@)]
  /\ StoreOnly

SaveAliasFinal(t) ==
  /\ At(t, "alias final")
  /\ SaveBestEffort(Head(thread[t].todo), thread[t].final)
  /\ thread' = [thread EXCEPT ![t].pc = "aliases", ![t].todo = Tail(@)]
  /\ StoreOnly

SubmitDone ==
  /\ At(Loop, "aliases") /\ thread[Loop].todo = <<>>
  /\ Return(Loop)
  /\ UNCHANGED <<row, faults>> /\ StoreOnly

----------------------------------------------------------------------------
(* The worker thread of notebook n: WorkerPool._run and, for each job,     *)
(* SnapshotCoordinator._execute with the pipeline it calls.                *)

\* Mutant: the youngest job goes first.
TakeJob_Last(n) ==
  /\ At(n, "idle")
  /\ queue[n] # <<>> /\ Last(queue[n]) # Sentinel
  /\ queue' = [queue EXCEPT ![n] = Front(@)]
  /\ thread' = [thread EXCEPT ![n] = [Idle EXCEPT !.pc = "begin", !.job = Last(queue[n])]]
  /\ UNCHANGED <<admissionVars, up, row, aliases, shutdown, historyVars, deliveredAt,
                 faults, crashes>>

TakeJob(n) ==
  /\ At(n, "idle")
  /\ queue[n] # <<>> /\ Head(queue[n]) # Sentinel
  /\ queue' = [queue EXCEPT ![n] = Tail(@)]
  /\ thread' = [thread EXCEPT ![n] = [Idle EXCEPT !.pc = "begin", !.job = Head(queue[n])]]
  /\ UNCHANGED <<admissionVars, up, row, aliases, shutdown, historyVars, deliveredAt,
                 faults, crashes>>

StopWorker(n) ==
  /\ At(n, "idle")
  /\ queue[n] # <<>> /\ Head(queue[n]) = Sentinel
  /\ queue' = [queue EXCEPT ![n] = Tail(@)]
  /\ Goto(n, "stopped")
  /\ UNCHANGED <<admissionVars, up, row, aliases, shutdown, historyVars, deliveredAt,
                 faults, crashes>>

MarkRunning(n) ==
  /\ At(n, "begin")
  /\ SaveBestEffort(thread[n].job, "running")
  /\ Goto(n, "prepare")
  /\ StoreOnly

\* The pipeline up to the delivery.  Any step of it may raise; the last one,
\* execute_snapshot's own save of the running row, is not best effort.
Prepare(n) ==
  /\ At(n, "prepare")
  /\ \/ Save(thread[n].job, "running") /\ Goto(n, "deliver")
     \/ Raises("save") /\ Conclude(n, "save final", "failed")
     \/ UNCHANGED <<row, faults>> /\ Conclude(n, "save final", "failed")
  /\ StoreOnly

\* Mutant: a failed delivery is recorded like a successful one.
Deliver_ErrorIgnored(n) ==
  /\ At(n, "deliver")
  /\ Conclude(n, "record", "persisted")
  /\ \/ deliveredAt' = [deliveredAt EXCEPT ![thread[n].job] = now]
     \/ UNCHANGED deliveredAt
  /\ UNCHANGED <<admissionVars, up, row, serverVars, historyVars, faults, crashes>>

\* Delivery.deliver writes the whole bundle and returns its address, or raises:
\* a SnapshotError is recorded by execute_snapshot, any other exception by
\* _execute.  A failed upload is removed again, best effort, and so may stay;
\* the address is asked for outside the try, after the last upload, so the job
\* may fail with its bundle complete.
Deliver(n) ==
  LET written == deliveredAt' = [deliveredAt EXCEPT ![thread[n].job] = now]
      failed  == \E pc \in {"record", "save final"} : Conclude(n, pc, "failed") IN
  /\ At(n, "deliver")
  /\ \/ Conclude(n, "record", "persisted") /\ written /\ UNCHANGED <<row, faults>>
     \/ failed /\ UNCHANGED <<deliveredAt, row, faults>>
     \/ failed /\ written /\ UNCHANGED <<row, faults>>
     \/ failed /\ written /\ Raises("cleanup")
  /\ UNCHANGED <<admissionVars, up, serverVars, historyVars, crashes>>

\* execute_snapshot saves the outcome and returns it; if the save raises, the
\* exception reaches _execute and the job has failed.
RecordOutcome(n) ==
  /\ At(n, "record")
  /\ \/ Save(thread[n].job, thread[n].final) /\ Goto(n, "save final")
     \/ Raises("save") /\ Conclude(n, "save final", "failed")
  /\ StoreOnly

SaveFinal(n) ==
  /\ At(n, "save final")
  /\ SaveBestEffort(thread[n].job, thread[n].final)
  /\ Goto(n, "pop aliases")
  /\ StoreOnly

\* Mutants: the alias lock is not taken; the aliases are read, not popped.
PopAliases_Unlocked(n) ==
  LET job == thread[n].job IN
  /\ At(n, "pop aliases")
  /\ thread' = [thread EXCEPT ![n].pc = "aliases", ![n].todo = aliases[job]]
  /\ aliases' = [aliases EXCEPT ![job] = <<>>]
  /\ UNCHANGED <<admissionVars, up, row, queue, shutdown, historyVars, deliveredAt,
                 faults, crashes>>
PopAliases_Kept(n) ==
  /\ At(n, "pop aliases")
  /\ ~AliasLockHeld
  /\ thread' = [thread EXCEPT ![n].pc = "aliases", ![n].todo = aliases[thread[n].job]]
  /\ UNCHANGED <<row, faults>> /\ StoreOnly

\* _complete_coalesced_aliases takes the waiting aliases under _alias_lock.
PopAliases(n) ==
  LET job == thread[n].job IN
  /\ At(n, "pop aliases")
  /\ ~AliasLockHeld
  /\ thread' = [thread EXCEPT ![n].pc = "aliases", ![n].todo = aliases[job]]
  /\ aliases' = [aliases EXCEPT ![job] = <<>>]
  /\ UNCHANGED <<admissionVars, up, row, queue, shutdown, historyVars, deliveredAt,
                 faults, crashes>>

\* Mutant: only a successful job is completed.
CompleteJob_OnSuccess(n) ==
  /\ At(n, "aliases") /\ thread[n].todo = <<>>
  /\ IF thread[n].final = "persisted"
     THEN Complete(thread[n].job, TRUE)
     ELSE UNCHANGED admissionVars
  /\ Return(n)
  /\ UNCHANGED <<up, row, serverVars, historyVars, deliveredAt, faults, crashes>>

CompleteJob(n) ==
  /\ At(n, "aliases") /\ thread[n].todo = <<>>
  /\ Complete(thread[n].job, thread[n].final = "persisted")
  /\ Return(n)
  /\ UNCHANGED <<up, row, serverVars, historyVars, deliveredAt, faults, crashes>>

----------------------------------------------------------------------------
(* The clock and the server's lifetime.                                    *)

ClockTick ==
  /\ Tick
  /\ UNCHANGED <<up, row, serverVars, thread, historyVars, deliveredAt, faults, crashes>>

\* stop_extension, on the event loop, so never in the middle of a submission:
\* no more jobs, and a sentinel behind the jobs already queued.  (A notebook without a worker thread gets none in the
\* code; here its worker simply stops.)  Joining the workers times out, so
\* nothing is known of them afterwards.
ShutDown ==
  /\ up /\ At(Loop, "idle") /\ ~shutdown
  /\ shutdown' = TRUE
  /\ queue' = [n \in Notebooks |-> Append(queue[n], Sentinel)]
  /\ UNCHANGED <<admissionVars, up, row, aliases, thread, historyVars, deliveredAt,
                 faults, crashes>>

\* The process ends at any point, and its daemon threads with it.
Crash ==
  /\ up /\ crashes < MaxCrashes
  /\ crashes' = crashes + 1
  /\ up' = FALSE
  /\ Reset
  /\ aliases' = [j \in Jobs |-> <<>>]
  /\ queue' = [n \in Notebooks |-> <<>>]
  /\ shutdown' = FALSE
  /\ thread' = [t \in Threads |-> Idle]
  /\ UNCHANGED <<row, historyVars, deliveredAt, faults>>

\* build_services: reconcile the table, then serve.
Start ==
  /\ ~up
  /\ up' = TRUE
  /\ row' = Abandoned(row)
  /\ UNCHANGED <<admissionVars, serverVars, thread, historyVars, deliveredAt, faults, crashes>>

----------------------------------------------------------------------------
Submit == \E info \in JobInfo :
  SubmitAccepted(info) \/ SubmitCoalesced(info) \/ SubmitRejected(info)

SubmitStep ==
  \/ SaveQueued \/ Enqueue \/ UndoAdmission \/ SaveSubmitFailed
  \/ SaveAlias \/ ReadOriginal \/ AppendAlias \/ SubmitDone
  \/ ReadAlias(Loop) \/ SaveAliasRunning(Loop) \/ SaveAliasFinal(Loop)

WorkerStep(n) ==
  \/ TakeJob(n) \/ StopWorker(n) \/ MarkRunning(n) \/ Prepare(n) \/ Deliver(n)
  \/ RecordOutcome(n) \/ SaveFinal(n) \/ PopAliases(n) \/ CompleteJob(n)
  \/ ReadAlias(n) \/ SaveAliasRunning(n) \/ SaveAliasFinal(n)

Next ==
  \/ Submit \/ SubmitStep
  \/ \E n \in Notebooks : WorkerStep(n)
  \/ ClockTick \/ ShutDown \/ Crash \/ Start

\* Threads are scheduled and the calls they make return.  Nobody is obliged to
\* submit, to restart a stopped server, or to wait for the clock.
Fairness == WF_vars(SubmitStep) /\ \A n \in Notebooks : WF_vars(WorkerStep(n))

Spec == Init /\ [][Next]_vars /\ Fairness

----------------------------------------------------------------------------
(* Type invariant.                                                         *)

LoopLocations   == {"idle", "save queued", "enqueue", "undo", "save failed",
                    "save alias", "register", "append"}
WorkerLocations == {"idle", "stopped", "begin", "prepare", "deliver", "record",
                    "save final", "pop aliases"}
AliasLocations  == {"aliases", "alias running", "alias final"}

ThreadStates ==
  [ pc    : LoopLocations \union WorkerLocations \union AliasLocations,
    job   : Jobs \union {NoJob},
    final : TerminalStates \union {NoRow},
    todo  : Seq(Jobs) ]

\* Every variable of the admission table, the threads and the store has a value of its type.
TypeOK ==
  /\ AdmissionTypeOK
  /\ up \in BOOLEAN
  /\ row \in [Jobs -> RowStates]
  /\ aliases \in [Jobs -> Seq(Jobs)]
  /\ queue \in [Notebooks -> Seq(Jobs \union {Sentinel})]
  /\ shutdown \in BOOLEAN
  /\ thread \in [Threads -> ThreadStates]
  /\ request \in [Jobs -> JobInfo \union {NoInfo}]
  /\ coalescedInto \in [Jobs -> Jobs \union {NoJob}]
  /\ deliveredAt \in [Jobs -> Nat \union {Never}]
  /\ life \in [Jobs -> Nat]
  /\ faults \in Nat
  /\ crashes \in Nat

----------------------------------------------------------------------------
(* Who will still write a job's row, and who holds its admission slot.     *)

Queued(n) == ToSet(queue[n]) \ {Sentinel}
Waiting(j) == ToSet(aliases[j])

\* The rows thread t writes before it is done with the job in hand.
Writes(t) ==
  CASE thread[t].pc \in {"idle", "stopped"} -> {}
    [] thread[t].pc \in AliasLocations      -> ToSet(thread[t].todo)
    [] OTHER                                -> {thread[t].job}

\* The jobs whose worker has yet to take the aliases waiting for them.
WorksOn(n, j) == thread[n].job = j /\ thread[n].pc \in WorkerLocations \ {"idle", "stopped"}
WillPop == {j \in Jobs : \E n \in Notebooks : j \in Queued(n) \/ WorksOn(n, j)}

\* The jobs somebody will bring to an end.
Owned ==
  {j \in Jobs : \/ \E t \in Threads : j \in Writes(t)
                \/ j \in WillPop
                \/ \E k \in WillPop : j \in Waiting(k)}

----------------------------------------------------------------------------
(* Safety.                                                                 *)

\* As long as no call of FaultyOps has raised, no row shows queued or running
\* unless a thread of the running server will still end it: neither a coalesced
\* alias that registers while its original finishes, nor a submission to a
\* closed pool, nor a restart leaves a job that appears to run forever
\* (C-QUEUE-05).
InflightOwned ==
  up /\ faults = 0 =>
    \A j \in Jobs : row[j] \in InflightStates => j \in Owned

\* Each row has one writer at a time.  SqliteActivityStore.save reads the
\* state and writes the row in two statements, so its check of the transition
\* is only as good as this.
SoleWriter ==
  LET holders(j) == {t \in Threads : j \in Writes(t)}
      places(j)  == Cardinality({n \in Notebooks : j \in Queued(n)})
                      + Cardinality({k \in Jobs : j \in Waiting(k)})
                      + Cardinality(holders(j)) IN
  \A j \in Jobs : places(j) <= 1

\* A notebook with nothing queued or executing holds no slot and no active
\* fingerprint: after any failure the next snapshot of the notebook proceeds,
\* and the same run can be tried again, without a restart (C-QUEUE-04).
UnsticksWithoutRestart ==
  \A n \in Notebooks :
    /\ up /\ At(Loop, "idle")
    /\ thread[n].pc \in {"idle", "stopped"} /\ Queued(n) = {}
    => /\ pending[n] = 0
       /\ \A r \in Runs : active[<<n, r>>] = NoJob

\* One run yields one saved snapshot: once a trigger job of a run is shown as
\* saved, no later job that the same server accepts for that run is delivered
\* within the dedupe TTL of its delivery, however their submissions fall between
\* the delivery, the rows and the release of the slot, and whatever saves and
\* clean-ups fail (admission.py, C-QUEUE-02).  A job that failed may be retried
\* at once, also one whose bundle was complete when it failed.
OneRunOneSnapshot ==
  \A j, k \in Jobs :
    /\ j < k
    /\ row[j] = "persisted"
    /\ deliveredAt[j] # Never /\ deliveredAt[k] # Never
    /\ IsTrigger(request[j]) /\ IsTrigger(request[k])
    /\ FingerprintOf(request[j]) = FingerprintOf(request[k])
    /\ life[j] = life[k]
    => deliveredAt[k] > deliveredAt[j] + DedupeTTL

\* A row says persisted only if the snapshot of the job, or of the job it was
\* coalesced into, was delivered (C-SNAP-04): also when saves were lost.
Original(j) == IF coalescedInto[j] = NoJob THEN j ELSE coalescedInto[j]
PersistedIsDelivered ==
  \A j \in Jobs : row[j] = "persisted" => deliveredAt[Original(j)] # Never

\* As long as no call of FaultyOps has raised, an alias that ends, ends as its
\* original did, whether the worker or the event loop records it.
AliasAgrees ==
  faults = 0 =>
    \A j \in Jobs :
      coalescedInto[j] # NoJob /\ row[j] \in {"persisted", "failed"}
      => row[coalescedInto[j]] = row[j]

\* Jobs of one notebook are executed in the order of their submission
\* (C-QUEUE-01): what waits in a queue is younger than what was taken from it.
FifoPerNotebook ==
  \A n \in Notebooks : \A k \in DOMAIN queue[n] :
    queue[n][k] # Sentinel =>
      /\ thread[n].job < queue[n][k]
      /\ \A i \in DOMAIN queue[n] : i < k => queue[n][i] < queue[n][k]

----------------------------------------------------------------------------
(* Refinement and liveness.                                                *)

\* The rows and the lab notebook behave as the user is promised.
Log == INSTANCE SnapshotLog
         WITH row <- row, delivered <- {j \in Jobs : deliveredAt[j] # Never}
ImplementsLog == Log!LogSpec

\* Every job, coalesced ones included, comes to an end while the server runs.
EveryJobEnds ==
  \A j \in Jobs : row[j] \in InflightStates ~> row[j] \in TerminalStates \/ ~up

\* Every admitted job gives its slot back.
EverySlotReturns ==
  \A j \in Jobs : jobs[j] # NoInfo ~> jobs[j] = NoInfo
=============================================================================
