# Verification of save-my-jupyter

Save My Jupyter is a JupyterLab extension that saves snapshots of a notebook to
LabArchives (or a local directory): the user presses *Snapshot Now*, or runs a
cell marked as a trigger, and a background worker commits the notebook, builds
a bundle and delivers it, while an Activity list shows what became of it.

This directory holds TLA+ models of the parts of that program where steps of
several actors meet, the TLC instances that check them, and proofs, checked by
TLAPS, of what matters most. Paths below are relative to the repository; the
promises quoted as C-... are those of `contracts.md`.

    tlc -workers 4 -config queue_faults.cfg MCSnapshotCoordinator
    tlapm SnapshotCoordinatorProofs.tla

`PROJECT.json` lists the runs with the properties each one checks, the theorems,
the source lines each definition stands for, for every property a mutant of the
code it refutes, the hazards, and the findings.

## 1. The system

| Part | State it keeps | Operations | Talks to |
|---|---|---|---|
| Admission table (`application/snapshot/admission.py`) | pending count per notebook, active and completed fingerprints, jobs | `admit`, `complete`, expiry | called by the coordinator, under its own lock |
| Coordinator (`application/snapshot/coordinator.py`) | `_coalesced_aliases` under `_alias_lock` | `submit`, `_execute`, alias registration and completion, best-effort saves | admission, pool, store, pipeline |
| Worker pool (`worker/pool.py`) | one queue and thread per notebook key, `_shutdown` | `submit`, `_run`, `shutdown` | runs the coordinator's closures |
| Activity store (`adapters/activity_sqlite.py`, `application/activity/transitions.py`) | durable table of jobs | `save` (checks the transition), `get`, `recent`, `abandon_inflight` | written by the event loop, all workers, and each start |
| Execution (`application/snapshot/execute.py`) | - | running row, deliver, outcome row | store, delivery |
| Pipeline (`application/snapshot/pipeline.py`, `guards.py`, `plan.py`, `build.py`, `capture_reader.py`) | - | resolve config, guard, commit, read, build | git, files, execution |
| Git adapter (`adapters/git_dulwich.py`) | repository index | status, stage, commit | shared by the notebooks of a repository |
| Delivery (`adapters/labarchives/*`, `adapters/local_delivery.py`) | remote or local directory | directory, pages, uploads, clean-up | network, disk |
| Authentication (`adapters/labarchives/auth.py`) | pending logins (60 s), sessions, users not to be restored, keyring profiles | start, complete, fail, status, logout, restore | handlers and workers, no lock |
| Transport (`transport/*`), wiring (`container.py`, `extension.py`) | - | handlers, start, stop | all of the above |
| Trigger observer, coalescer, debouncer (`src/notebook/*`, `src/plugin.ts`) | accumulated cells, failed mark, waiting candidate, submission chain, last submitted content | cell executed, run ended, kernel idle, timer, submit, dispose | JupyterLab signals, kernel, the notebook's save, the server |
| Panel (`src/panel/controller.ts`) | login state and its timeout, snapshot options, review, activity, busy flags, status | sign in and out, snapshot and poll, refreshes, typing | the server, the callback tab, the settings |
| Settings (`src/settings.ts`) | preferences, once loaded | load, change, remember the commit choice | JupyterLab's settings, the panel |
| Configuration, guards, plan, preview (`application/config/*`, `guards.py`, `plan.py`, `render.py`) | - | pure functions | pipeline, preview handler; mirrored in `src/application/directives.ts`, `src/notebook/watchedPaths.ts` |
| Notebook diff, readable page, figures (`notebook_diff.py`, `notebook_render.py`, `notebook_content.py`) | - | pure functions | pipeline, delivery |

What makes the server hard: submissions run on the event loop one at a time
(`SnapshotHandler.post` is a coroutine without an `await`), but the row of a
job, its slot, its fingerprint and its waiting aliases are changed by worker
threads between the submission's steps; each write of the store may raise; the
process may stop between any two steps and the new one sees only the rows.
What makes the browser hard: cell results, end-of-run signals, idle
notifications and timers arrive in many orders, some never, and the metadata
and the save are awaited while the notebook changes.

What makes each part correct:

* **admission** - a count that equals the jobs it counts and never passes the
  limit (C-QUEUE-03), one job in flight per run, a completed run remembered for
  the TTL;
* **queue** - every job ends, every slot returns, order per notebook is kept
  (C-QUEUE-01), a run that was saved is not saved again, an alias ends as its original,
  a failure does not block the next snapshot (C-QUEUE-04);
* **store** - rows follow the lifecycle, end states are final, `persisted` only
  for what was delivered, rows of a dead server are abandoned (C-STATE-01);
* **pipeline, git, delivery** - a commit takes only what was asked for
  (C-GIT-03), the notebook diff is made before the commit (C-CONTENT-06), a failed
  delivery leaves no part of itself behind (C-DEST-04);
* **pages** - every change since HEAD that the renderers look at is on a page, next to
  its cell, and nothing else is marked as one (C-CONTENT-03, C-CONTENT-06, C-DEST-03);
  image data, outputs of unknown types and a final line end are in no diff (section 4);
* **authentication** - a request id logs in at most once and not after its TTL or
  a logout; nobody is signed in after a sign-out (C-AUTH-04); the newest login
  survives restarts, and no older one comes back (C-AUTH-02, C-AUTH-08);
* **triggers** - a run is submitted at most once, with its error (C-SNAP-07, C-SNAP-08),
  which the code does not keep (section 4); what it keeps is that no execution of a
  trigger cell is lost, handed on twice or out of order, or loses its own error;
* **panel** - shows the newest login without the user's doing, never stays at
  "pending" (C-AUTH-01, C-AUTH-06), and every snapshot it submitted returns;
* **plan** - what the user typed and what the review announced is what is saved,
  and a notebook's directives stay with it (C-CONFIG-10, C-CONTENT-08,
  C-DIRECTIVE-02, C-DIRECTIVE-04).

## 2. Modules

### Admission

The object alone: `_pending`, `_active_fingerprints`, `_completed_fingerprints`
and `_jobs` as functions, with a value for "no entry". All methods hold the
object's lock, so each way through `admit` (`Coalesce`, `Reject`, `Accept`) and
`complete` is one action; the expiry at the head of `admit` is `Unexpired`, used
by all three. Fingerprints are abstract: a run stands for everything hashed
besides the notebook key. `Tick` is the injected clock; `Reset` is a new object
in a new process. The coordinator's actions are made of these, so what is proved of
the table alone (`AdmissionSpec`) holds of the table inside the coordinator.

### ActivityStore

Operators for the transition policy and for what `save` and `abandon_inflight`
make of the table. A row is its state. An illegal save is ignored without an
error, as the adapter does.

### SnapshotLog

What the user is promised of the Activity list and the lab notebook, without
threads, queues or faults: rows move along the lifecycle, `persisted` needs a
delivered snapshot, a job delivers at most once and only while it is running,
and only a starting server abandons rows.

### SnapshotCoordinator

Extends the two and adds the threads. `thread[t]` is where a thread is and the
locals it carries: the job, the final record's state, the aliases left to do.

| Actions | Code |
|---|---|
| `SubmitAccepted`, `SubmitCoalesced`, `SubmitRejected` | `submit` up to the first store call |
| `SaveQueued`, `Enqueue`, `UndoAdmission`, `SaveSubmitFailed` | the accepted branch and its `except` |
| `SaveAlias`, `ReadOriginal`, `AppendAlias` | the coalesced branch, `_register_coalesced_alias` |
| `ReadAlias`, `SaveAliasRunning`, `SaveAliasFinal`, `SubmitDone` | `_save_alias_record`, on the loop or a worker |
| `TakeJob`, `StopWorker`, `ShutDown` | `WorkerPool._run`, `shutdown` |
| `MarkRunning`, `Prepare`, `Deliver`, `RecordOutcome`, `SaveFinal` | `_execute` with `execute_snapshot` |
| `PopAliases`, `CompleteJob` | `_complete_coalesced_aliases`, the `finally` block |
| `ClockTick`, `Crash`, `Start` | the clock and the process |

One action is one call that another thread can observe. `_alias_lock` is held
from the read of the original's row to the append (`AliasLockHeld`), which is
why `PopAliases` waits. The parts that raise are the calls in `FaultyOps`:
`save`, `get`, and `cleanup` for the deletion of a half-written bundle, whose
error the delivery suppresses. `Deliver` writes the bundle; or fails and removes it; or
fails with the whole bundle written, because the directory's URL is asked outside the
`try`; or fails and its clean-up fails too. The body of the pipeline before the delivery is
`Prepare`, which may fail; `SnapshotPipeline` has its inner order.

### SnapshotPipeline

What a worker does between `running` and the end of a job, for the notebooks of one
repository. A file is its version; `files`, `index` and `commits` are the working
tree, git's index and the branch, which belong to the user as well and which
nothing locks. `pc[j]` is the next call of job j's pipeline and `local[j]` what it
remembers: the HEAD and dirtiness it resolved, the HEAD of the notebook diff, the
captured tracked file, the commit it reports.

| Actions | Code |
|---|---|
| `ResolveRepo`, `Capture`, `Build` | `resolve_repo`; `run_snapshot_pipeline` up to and after `_maybe_commit` |
| `RejectUnrelatedStaged`, `Stage` | `DulwichGitMutator.stage` |
| `AnythingStaged`, `Commit` | `DulwichGitMutator.commit` |
| `CreateDirectory`, `WritePage`, `DirectoryUrl`, `CleanUp` | `deliver` of the two adapters |
| `RecordEnd` | the row of the outcome |
| `Edit`, `UserStages`, `UserCommits` | the user of the repository |

Every call may raise, git's status and the URL at the end included. An exception before
the delivery goes to `failed` and forgets the locals; one inside it goes through the
clean-up, whose own error is suppressed, unless the local delivery meets something else
than an `OSError`, which leaves what it has written. `disturbed` and `orphaned` only
remember, for the properties, whose staging somebody interfered with and whose clean-up
failed or was not tried. The steps map to
`SnapshotLog`: a snapshot is delivered once its bundle is complete.

### NotebookPage

What a reader of the lab notebook sees of a notebook, as functions of the file at
HEAD and the file of the snapshot: `NotebookDiff` (`render_notebook_diff`, cells
paired by their positions after the empty ones at the ends are dropped),
`RenderNotebookHtml` (the readable page, made of the cells with the empty ones, the
diff merged in), `ExtractFigures` and `SnapshotPages`, which page shows which. A text
is its lines and whether a line end follows the last one; `difflib` gives a diff
exactly when two lists of lines differ. `EveryPageTells` compares the pages with the
two files by a definition that has neither the pairing nor the dropping; `SnapshotPipeline`,
which extends the module, says it of the pages its jobs write (`PagesTellChanges`).

### TriggerRuns

One notebook's entry of the observer, the coalescer and the debouncer. No map of that
code reads another notebook's entry, so one is enough. A candidate is its outcome and
its *executions*, each a cell with the run that executed it; the code has the cells
only. The environment is JupyterLab and the kernel: `StartRun` selects adjacent cells,
`ExecuteCell` answers the next one (after a failure the rest is aborted), `EndRun`
signals the end and `EndRunSilently` does not, `Edit` is the user. `KernelIdle` is the
change of the kernel's status to idle. A kernel reports it after every request it
handles, also another client's and the extension's own, and the one of a cell precedes
the cell's `executed` signal: it may come at any time, and need not come again after the
last cell. `executed`, `unsignalled`, `errors`, `settled` and `submitted` only remember,
for the properties. A timer fires at any time while its candidate waits
(`QuietWindowEnds`). `Resolve` is the end of the awaited metadata of the head of the
chain; `SaveNotebook` the end of an awaited save in `submitTrigger`, after which the
body is built. The key is taken in the step that resolves it; the microtasks between
taking the key and comparing it are not separate steps.

### Auth

One user, the user's legacy ids, the event loop and the workers. A session and a
profile are the number of the login they come from, so a property can say whose
login somebody is using. The code holds no lock: every access to `_sessions`
(`sessions`), `_expired_session_user_ids` (`expired`) or the keyring is a step of
its own, and a thread may be preempted between two of them.

| Actions | Code |
|---|---|
| `StartAuth`, `CompleteAuth`, `FailPendingAuth` | the request half of the three methods, with `_expire_pending_requests` (`Live`) |
| `StoreSession`, `Unsuppress`, `PersistProfile` | the rest of `complete_auth` |
| `Status`, `IsAuthenticated`, `BeginJob` | who asks for a session: the status handler, a snapshot request, a worker's closure in `container.py` |
| `ExistingSession`, `AdoptSession`, `RestoreSuppressed`, `LoadProfile`, `InstallSession`, `MigrateProfile` | `_existing_session`, `_get_or_restore_session`, `load_with_source` |
| `Deliver` | the end of a delivery |
| `Logout`, `PopSession`, `SuppressRestore`, `CancelPending`, `DeleteProfile`, `SettleLogout` | `logout` with its calls of `clear_session` |
| `Tick`, `Restart` | the clock, the process |

A worker's call of `clear_session`, for a delivery that found its session expired, is not
among them: no delivery of the LabArchives client ends so (section 4). The keyring may
raise at any call, on a deletion also with a text that reads as if the entry was missing;
making the profile of a login may raise too. `keyring` starts empty, with an old profile or
with an entry that does not parse, under each id. The properties state what the
code gets right. Where it cannot, because two threads overlap or the keyring
failed, the history variable `trouble` says which of five things happened
(`Crossed`, `Unsaved`, `Misread`, `Half`, `Mistaken`), and each property names the ones
it exempts: they are listed under findings. `half` is set between a sign-out that
failed half way and the next login or start.

### PanelController

Nothing but an `await` interrupts a function in the browser, so a step is what
runs between two awaits. A *flow* is one call of an async method that has not
returned, with its locals; the replies to flows arrive in any order, and each may
be a failure. The server appears as its login state, with a version so that
replies can be told apart, and the state of the job each flow submitted. `saves` counts
the clicks on *Snapshot Now* whose notebook is still being saved, which may take for ever.

| Actions | Code |
|---|---|
| `RefreshAuth`, `AuthReply` | `refreshAuth` with `authSeq`, started by the user, at start, or by the callback page's notification (`broadcast`) |
| `HandlePendingAuthTimeout`, `SchedulePendingAuthTimeout` | the timer of a pending login |
| `ToggleAuth`, `ToggleReply` | `toggleAuth`, `signOut` |
| `SnapshotPanel`, `Snapshot`, `SubmitReply`, `Poll`, `PollReply`, `Delay` | `snapshotPanel`, `snapshot`, `pollJob` |
| `AskToShow`, `Shown` | `refreshActivity`, `refreshPreview`: that they return, and what they report |
| `Dispose` | `dispose` |
| `Serve`, `Callback`, `LoginLost`, `JobStep` | the server and the other tab |

### SnapshotPlan

What a snapshot will hold, from the form to the bundle. A label, tag or target is
the place it comes from, which is what precedence is about; a tracked path is its
segments; a file of the disk has a path and whether it is inside the root and too
large. The pure functions are operators named as in the code: `Resolve` is
`resolve_effective_config`, `PlanCapture` `plan_capture`, `ValidateWatchedPath` and
`GatherWatchedFiles` the guards, `ManualBody` and `TriggerBody` the request bodies.
`Refresh` is `refreshTriggerUi`, which runs at every change of the notebook in front,
of any notebook's content, of the form, and of the settings.

| Actions | Code |
|---|---|
| `SwitchTo`, `EditCells`, `AddWatchedPath`, `RemoveWatchedPath`, `UpdateTargetOptions` | JupyterLab's signals, `setupNotebookPanel`, `notebookState.ts` |
| `TypeLabel`, `TypeTags`, `ChooseMode` | `updateSnapshotOptions` |
| `LoadPreferences`, `ChangePreferences`, `Remember` | `settings.ts`, `setPreferences` |
| `PreviewReply` | `refreshPreview`, `build_preview` |
| `Click`, `Trigger`, `Prepare`, `SaveFails`, `Submit` | `snapshotPanel`; `submitTrigger` with `prepareTriggerRun` |
| `Execute`, `Fail` | `run_snapshot_pipeline` as one step |
| `WorldChanges` | the repository, the config file and the files, by other hands |

The options are captured while the notebook is being saved and the body is built
after it, so what is typed, switched, loaded or edited in between matters; that is
what the properties are about. `typed`, and `own`, `announced` of a receipt, only
remember for them.

## 3. Runs, and what they show

| Run | Instance | Properties | Result |
|---|---|---|---|
| `queue_faults` | 1 notebook, 1 run, 3 jobs, limit 2, TTL 1, 3 clock values, 1 restart, 2 failing saves or clean-ups | `TypeOK`, `SlotsCounted`, `ActiveIsExact`, `InflightOwned`, `SoleWriter`, `OneRunOneSnapshot`, `AliasAgrees`, `UnsticksWithoutRestart`, `PersistedIsDelivered`, `FifoPerNotebook`, `ImplementsLog` | hold |
| `queue_liveness` | 2 notebooks, 3 jobs, limit 1, fair threads | `EveryJobEnds`, `EverySlotReturns` | hold |
| `trigger_runs` | 2 cells, 1 trigger, 3 runs, 2 contents, idle at any time, missing ends, failing saves | `TypeOK`, `ExecutionHeldOnce`, `TriggerErrorIsRecorded`, `ResolvedInOrder`, `SignalledIsSettled` | hold |
| `shared_repository` | 2 notebooks, 2 jobs, 1 step of the user; pages of up to 2 of 13 cells | `TypeOK`, `CommitsOnlyAsked`, `DiffIsPreSnapshot`, `FailedLeavesNothing`, `PagesTellChanges`, `ImplementsLog` | hold |
| `auth_sessions` | 1 legacy id, 1 worker with 2 jobs, 2 logins, 1 restart, up to the first overlap (`BeforeCrossed`), 1 failing keyring call | `TypeOK`, `SignedOutIsOut`, `SuppressedIsOut`, `ProfileIsKept`, `SessionIsNewest`, `CallbackIsFresh` | hold |
| `panel` | 2 flows, 2 commands, 2 changes of the login, 2 polls, fair replies | `TypeOK`, `AuthNeverGoesBack`, `PendingEnds`, `LoginIsShown`, `SnapshotEnds` | hold |
| `snapshot_plan` | 2 notebooks, 2 contents, 3 worlds, 2 preferences, 2 steps of the user, 1 change of the world, 2 previews, 1 snapshot | `TypeOK`, `TypedIsSaved`, `ReviewIsCurrent`, `SavedAsAnnounced` | hold |
| `alias_read_fails` | 1 failing read | `UnsticksWithoutRestart` | violated |
| `run_is_split` | 3 cells, 2 triggers, 1 run | `OneSubmissionPerRun` | violated |
| `error_is_lost` | 2 cells, 1 trigger, 1 run | `ErrorIsRecorded` | violated |
| `commits_cross` | 2 notebooks, 2 jobs, no user | `CommitsNothingUnrelated` | violated |
| `directives_cross` | as `snapshot_plan` | `DirectivesStay` | violated |

**Bounds.** Three jobs of one run are the smallest number with an original, an alias and
a resubmission after the first has ended; `MaxPending = 2` lets two manual jobs and a
trigger meet the limit. Three clock values are one before, at and past a TTL of one
tick: the boundary `completed_at < cutoff`. One restart splits the life of any row; two
failures are enough to lose both saves of one job's end. What is claimed only while
nothing has raised (`InflightOwned`, `AliasAgrees`) is checked on the executions with no
fault yet. Notebooks share only the loop, the pool's shutdown and the alias lock, so a
second notebook appears where these matter, in the liveness run. For triggers, three
runs are one candidate in the chain, one that waits and one that joins or passes them; a
trigger and a plain, final cell give a run with and without a trigger and one that ends
in the final cell or before it, and the idle status gives every split between them. The
two refuted promises need one run. For the pipeline, two jobs are two notebooks side by
side or one after the other, in a repository that starts clean or with every file
edited; what one job leaves staged when it fails, or the user's one step stages, meets
the check of the other. The notebooks are interchangeable (symmetry); liveness is not
checked there. For the pages, every pair of 183 notebooks is compared, with and without
the file. Two cells are a cell that stays before, after or in place of one that is
added, removed or empty; the 13 cells differ in each thing the renderers look at (type,
lines, line end, outputs of each kind, images, emptiness) or leave out. For the login,
two requests and an old profile give an older and a newer account at every id; one
worker beside the event loop is every pair of threads that matters, since handlers do
not interleave and two workers do the same; its two jobs look for a session before and
after a change of it; one keyring fault is each of the exemptions by itself.
`BeforeCrossed` stops an execution where a restore has overlapped a change, since the
properties of the sessions claim nothing from there on. For the panel, two flows are one
reply that overtakes another; a third adds no order that two do not have, because a
reply reads only whether it is the newest. For the plan, the panel *rests* while nothing
in it can reach the snapshot under way (`Rest`), one snapshot is followed to its end
(`OneSnapshot`), the notebooks are interchangeable, and the view `WhatMatters` drops
what no property and no later step can see. Two steps are a switch and a change, in
every order with the load of the settings, the replies and the phases of the snapshot.
One of the three worlds has a config that sets everything, one none, and one a config
that is refused and a file that is too large. `MaxJobs`, `MaxTime`, `MaxFaults`,
`MaxCrashes`, `MaxRuns`, `MaxUserSteps`, and in the newer modules `MaxRequests`,
`MaxClock`, `MaxRestarts`, `MaxCommands`, `MaxChanges`, `MaxSteps` and `MaxPreviews`,
bound the exploration only and appear as guards of the actions they count.

**Deadlock** is not checked: in the bounded instances everything ends, and the
server may be shut down. That nothing gets stuck is what `UnsticksWithoutRestart`
and the liveness properties say.

**Fairness.** In `SnapshotCoordinator` every thread is weakly fair: the operating system
runs a thread that can run, a lock held at `AliasLockHeld` is released by the next steps
of the event loop, and the network calls of a pipeline end (the clients have timeouts).
No fairness is assumed of the user, the clock, a shutdown or a crash. In `TriggerRuns`
only the browser's timer fires and the metadata resolves, which is awaited with a
timeout; a cell's reply, the end signal, an idle kernel, the save of the notebook and
the user are not fair. In `PanelController` every request is answered or fails, a reply
is handled, a timer fires, and a notification that was sent arrives; the user, the other
tab, the job and the save of the notebook are not fair: `context.save()` may wait for
the user's answer to a dialog, so `SnapshotEnds` speaks of submitted snapshots. `Auth`
and `SnapshotPlan` have safety properties only.

## 4. Findings

Shown by a run that TLC finds violated:

1. **A failing read leaves a notebook's run locked until a restart**
   (`coordinator.py:259`, run `alias_read_fails`). `_save_alias_record` reads the
   alias row without a guard in `_execute`'s `finally` block; if that raises,
   `admission.complete` is skipped. C-QUEUE-04 promises that the queue unsticks
   without a restart.
2. **An idle kernel between two cells splits a run** (`plugin.ts:445`, run
   `run_is_split`). Every kernel reports idle after every cell, and what has accumulated
   is flushed then. Both parts are submitted if a later cell outlasts the quiet window
   (5 s), which otherwise merges them again; C-SNAP-08 promises at most one.
3. **The error of a run is lost** (`plugin.ts:445`, `executionObserver.ts:80`, run
   `error_is_lost`). A trigger cell succeeds and the idle status flushes it; a later,
   plain cell of the run fails. Nothing is accumulated at the end of the run, which drops
   the failure, and the snapshot is recorded as a success. C-SNAP-07 promises `error`.
4. **A commit takes another notebook's file along** (`git_dulwich.py:127`, run
   `commits_cross`). The check for unrelated staged paths, the add and the commit
   of the whole index are separate calls without a lock, and every notebook has a
   worker. C-GIT-03 promises that unrelated changes are never committed.
5. **A notebook's tags are saved with another notebook's snapshot** (`plugin.ts:317`,
   run `directives_cross`). A triggered run takes its options from the panel's form,
   which holds the directives of the notebook in front. C-DIRECTIVE-02: "Directives
   are scoped to the whole notebook."

Met while modelling, and either exempted in a property or left to these lines:

* **Queue.** A failing write of the outcome after the delivery counts as a failed
  job, so its fingerprint is not remembered and a repeated run is delivered twice
  (`execute.py:56`). So it is after a delivery whose last question, for the URL of the
  directory, fails outside the `try` (`adapters/labarchives/delivery.py:142`): the job
  fails with its whole bundle in the notebook. `OneRunOneSnapshot` therefore speaks of
  runs that are shown as saved. An error of the local delivery that is no `OSError`
  leaves a partial directory (`local_delivery.py:60`).
* **Triggers.** A run whose end signal is missing waits for the next idle status, which
  may never come: the last cell's precedes the accumulation of that cell
  (`executionObserver.ts:52-58`). `SignalledIsSettled` therefore asks for a signal after
  the cell. The content is recorded as submitted before the notebook is saved; if
  the save fails, a repeated run is skipped (`triggerDebouncer.ts:163`).
* **Git.** A staged change is in no patch: `porcelain.diff` compares the working tree
  with the index (`git_dulwich.py:78`), where `docs/usage.md:224` says with `HEAD`.
* **Pages.** A cell of which only the outputs changed shows "No changes." in the place
  of its source (`notebook_render.py`, `_source_diff_html`); an output of a type the
  diff does not know (`update_display_data`), an image's data and a line end after the
  last line are in no diff.
* **Login.** A restore that slips between the pop of a session and the mark that
  suppresses restores brings the session back after a sign-out (`auth.py:505-511`,
  `Crossed`; C-AUTH-04). A read of the
  keyring that raises counts as no profile; after a restart the profile under a
  legacy id is used instead and saved over the newer one (`auth.py:257`, `:583`,
  `Misread`; C-AUTH-02). After a restart the profiles a failed sign-out left
  are restored (`Half`). An error of the keyring whose text says "not found" or the like
  counts as a missing profile (`:795`): the sign-out reports success and the profile
  stays (`Mistaken`). Notebooks of the account that cannot be read make
  `StoredProfile.from_user` raise outside any `try` (`:529`): the handler fails with the
  session stored and no profile saved (`Unsaved`).
* **Expired sessions.** C-AUTH-05: "When the next snapshot attempt finds the session
  expired, the user sees a message beginning `LabArchives session expired; sign in again to
  continue.` and the panel reverts to the unauthenticated state." So it is when the server
  has no session any more (`container.py:82`). One that LabArchives has ended is never
  recognised: `LabApiClient` raises no `labarchives_session_expired`, `deliver` turns every
  other error into `labarchives_write_failed` (`delivery.py:121-140`), and the
  `clear_session` of `container.py:101` is not reached. The job fails with another message
  and the panel goes on showing the login. Nothing in this repository says what an expired
  session looks like to the client, so no run shows it: `Auth` has no step for it.
* **Panel.** When the refresh at the timeout fails, "pending" stays, with an error in
  the status line and no timer (`controller.ts:503`; C-AUTH-06, which is why
  `PendingEnds` admits a report). The timeout's warning may follow a newer login.
  Replies for the activity list and the review have no sequence guard (`:406`,
  `:415`), and overlapping snapshots share the busy flag (`:451`).
* **Plan.** The default tags of the preferences are replaced by the notebook's
  directive tags at the first refresh (`controller.ts:293`), and the label stays when
  the next notebook has none (`:292`). The server's user settings are always empty
  (`container.py:70`), and the panel always sends a commit mode, so the config file's
  own is never used for its snapshots (C-CONFIG-01). A config file that cannot be
  parsed fails the snapshot and the preview (`parse.py:35`), where C-CONFIG-04 says
  that the snapshot falls back to higher-layer values. A preview that fails leaves the
  previous notebook's review on the screen (`controller.ts:421`).

Apart from these, the passing run `queue_faults` has no failing `get`, which finding 1
needs; `InflightOwned` and `AliasAgrees` speak of a server in which nothing has raised,
and `CommitsOnlyAsked` of commits nobody interfered with.

## 5. Proofs

Every theorem holds for every value of the constants that meets the modules' named
assumptions. Where a property holds only for some faults, the hypothesis is in the
theorem or in the property, and below is why it cannot be dropped.

### The queue

`SnapshotCoordinatorProofs` proves of `AdmissionSpec`, for all notebooks, runs, limits, TTLs
and numbers of jobs, that the table is typed, that the pending count is the
number of admitted jobs and within the limit (`SlotsAlwaysCounted`), and that a
fingerprint is active exactly for its one job (`ActiveIsExact`) and never while
remembered as completed (`ActiveXorCompleted`, which no run checks), together
`DedupeCorrect`. The count needs the cardinality lemmas of adding and
removing one job, and the clamp at zero of `complete` is where
`SlotsCounted` is needed as its own hypothesis: the clamp never acts.

It then proves of the coordinator, for all instances, faults and numbers of restarts:

* `CoordinatorTypeCorrect`: `Spec => []TypeOK`;
* `CoordinatorCountsSlots`, `CoordinatorDedupes`: the admission table's theorems,
  which hold of the table in the coordinator because it takes no other steps there
  (`AdmissionWithin`).

Types alone are not inductive: `UndoAdmission` completes the job in the event
loop's hand, `PopAliases` reads the aliases of a worker's, and `SubmitAccepted`
needs a job id that is in no table. The invariant is therefore

    Shape == TypeOK /\ JobInHand /\ AliasInHand /\ IdsDrawn /\ AdmittedWereDrawn

`JobInHand` says that a thread that is doing something has a job, `AliasInHand` that
one that records an alias has an alias left, `IdsDrawn` that the drawn ids are the
first ones (so the next one, their number plus one, is fresh), and
`AdmittedWereDrawn` that the table holds drawn ids only. The proofs have one lemma
per group of actions.

`SnapshotDeliveryProofs` goes on from there to what the user is promised, for any
interleaving of threads, any failing saves, reads and clean-ups, and any number of
restarts:

* `PersistedMeansDelivered`: `Spec => []PersistedIsDelivered`. A worker writes the
  outcome of a job to the rows of others, the aliases, long after it was decided, so
  the invariant `Truthful` follows the outcome: whatever a thread holds as
  "persisted" is that of an original that was delivered (`AllSincere`), and every
  table through which a job reaches a thread keeps the two together: `active` and
  the queues name jobs that are nobody's alias (`ActiveAnswer`, `QueuedAnswer`), an
  original's waiting list its own aliases (`WaitingAnswer`).
* `CoordinatorImplementsLog`: `Spec => ImplementsLog`, the refinement. A delivery must
  find its row at "running" and its job not yet delivered, and no save may skip a
  state. The invariant `Orderly` adds to `Truthful` what each place in the code
  expects of its row (`PlacedAt`), which another thread could spoil only if it had the
  same job: so no two threads have one job in hand and a queued job is in no hand
  and queued once (`LoopApart`, `QueuedApart`, and a worker's job is of its own
  notebook). `Lives` says that a row abandoned at a start is of an earlier lifetime of
  the server than any active job, so that an alias never takes "abandoned" from its
  original. Each step is then one of the log's or changes nothing a user sees
  (`SaveIsLogged` for every save).

`SnapshotQueueProofs` proves what the queue promises about its jobs:

* `JobsStayInOrder`: `Spec => []FifoPerNotebook`, for all faults. The order of a queue
  survives an append because the job appended is the newest drawn (`LoopIsNewest`),
  and a taken job is older than the rest because a queue is in order.
* `UnsticksIfReadsSucceed`: `Spec => []UnsticksWithoutRestart` if `"get"` is not in
  `FaultyOps`. Every admitted job is held (`AdmittedAreHeld`): queued, in a worker's
  hand, or in the event loop's before it is queued or undone; whoever lets it go
  completes it. A notebook at rest then has no admitted job, and `SlotsCounted` and
  `ActiveIsExact` give the rest. The hypothesis is needed: a read that raises while
  aliases are recorded skips the completion, which is what `alias_read_fails` shows.
* `OneRunIsDeliveredOnce`: `Spec => []OneRunOneSnapshot`, for all faults. The invariant
  `Once` carries a delivery that is shown as saved on to where the next submission of the
  run looks for it. Before the end of the job, its fingerprint is active
  (`HeldAreAdmitted`, `ActiveIsExact`); at its end, the job counts as a success, because
  only its own worker writes "persisted" to its row, and with it in hand
  (`ShownByItsWorker`, `ShownSucceeds`); after it, the run is remembered as completed no
  earlier than it was delivered, or the TTL has passed since the delivery
  (`Remembered`). So when a run is accepted again, its earlier job has ended, and if it is
  shown as saved it was delivered longer ago than the TTL (`EndedBefore`); `deliveredAt`
  is then fixed, because only an admitted job delivers. Of a delivered job that is
  *not* shown as saved this is false (section 4), and the row is what the property asks.
* `RowsHaveOneWriter`: `Spec => []SoleWriter`, for all faults. `Apart` adds to `Orderly`
  what keeps aliases apart as `Orderly` keeps originals apart (`AliasesApart`): an alias
  is in the event loop's hand, or in the waiting list of its one original, or taken by its
  worker, and the event loop itself ends no alias but the one it is submitting
  (`OwnAlias`). The places are then exclusive one by one, and the three counts of
  `SoleWriter` add up to one at most.
* `InflightIsOwned`: `Spec => []InflightOwned`, which speaks of a server in which
  nothing has raised (`faults = 0`); the invariant is `GoingSoFar` for the same reason.
  The race is a submission that coalesces while its original ends: it saves its row,
  reads the original's, and registers or ends itself by what it read. `AppendSafe` says
  that whoever is about to register has an original whose worker has yet to take the
  aliases. It is inductive because a worker takes them only when its row has ended
  (`WorkerAdvanced`: the state of the row at each step of a worker; `LoopAdvanced` the
  same of the event loop), a row's end is for good (`RowFate`), and what is active has a
  row (`ActiveRecorded`), so the read answers. An alias that reads the end ends itself.
  A lost save leaves a row behind, and a failed read the aliases, whose worker is gone.
* `AliasesAgree`: `Spec => []AliasAgrees`, on the same condition: only whoever
  records an alias ends it (`AliasEndsOnlyThere`), with the end its original's row has
  (`AliasEnd`), and that row changes no more.

### The pipeline and the triggers

`SnapshotPipelineProofs` proves of the pipeline, for any notebooks, requests, contents
and acts of the user:

* `CommitsAreOnlyAsked` (`CommitsOnlyAsked`): between the check of the index and the
  commit, what is staged was asked for unless somebody disturbed it
  (`StagedIsAsked`), and requests do not change once submitted.
* `DiffIsMadeFirst` (`DiffIsPreSnapshot`): the HEAD a job read is never newer than the
  one its commit is made on (`ReadOfBranch`), since the branch only grows.
* `FailuresLeaveNothing` (`FailedLeavesNothing`) and `PipelineImplementsLog`
  (`ImplementsLog`): by `Delivering`, which says at each step whether the directory
  exists, whether it is complete (`WholeOrGone`), and what the row says
  (`RowOfStep`). Of a delivery's many calls exactly one completes the bundle.

* `PipelineTypeCorrect`: the type invariant, with the pages of each job within its
  bundle (`OfBundle`) and the counters within their bounds (`Counted`).
* `PagesAlwaysTell` (`PagesTellChanges`), for notebooks of any length with any cells. The
  last cell that is not empty exists (`KeptCells`), so the diff has an entry exactly
  where a reader has something to compare (`ReadIsCompared`) and is missing exactly when
  all of it is alike (`DiffEntries`); `Sections` follows an entry into the section of the
  page that shows it. A figure is lost to no "removed" entry, since a cell with an output
  of a known type is not empty (`KnownOutputStays`, `FiguresAreShown`). Two assumptions:
  the outputs of a cell are a finite list, as in any file (`PageAssumption`), and
  `Nothing`, which stands for Python's `None`, is no record or sequence
  (`NothingIsNoValue`, a hypothesis of the theorem; TLC cannot ask it of a model value).

`TriggerRunsProofs` proves what the run `trigger_runs` checks but for its liveness, for any
cells, runs and contents, with a kernel that is idle at any time:

* `TriggersTypeCorrect` (`TypeOK`) and `TriggerErrorsAreNeverLost`
  (`TriggerErrorIsRecorded`), from `Collecting`: what has failed is of a run that was
  started and of a cell it has passed (`Passed`), so a failure is known by the time its cell
  is accumulated; the observer remembers it as long as the cell is accumulated
  (`Remembered`), and a candidate with it is an error (`AllSound`) through every merge.
* `ExecutionsAreHeldOnce` (`ExecutionHeldOnce`): `InOnePlace` says, place by place, that an
  execution that is accumulated, waits, settles or is saved is nowhere else and not
  submitted, `NotLost` that it is somewhere until it is resolved. It enters once, since
  an execution under way is of a cell not executed before in this run (`FirstTime`).
* `ExecutionsResolveInOrder` (`ResolvedInOrder`): `Queued` says that of two executions the
  earlier is in the same candidate or further on. A flush hands on all there is, and one at
  the final cell takes along what waits, so nothing passes.

### The login

`AuthProofs` proves every property the run `auth_sessions` checks, for any legacy ids,
workers, requests, time limit, failing calls of the keyring and restarts, and without the
run's constraint `BeforeCrossed`, which stops TLC at the first overlap.

* `CallbacksAreFresh` (`CallbackIsFresh`): a request that is pending was made and is
  neither answered nor cancelled (`Unanswered`); only `CompleteAuth` sends the event
  loop to "login", and it takes the request out of `pending`. Every other action is one
  of the moves of `Moves`.
* `AuthTypeCorrect`, `SignOutIsComplete` (`SignedOutIsOut`), `SuppressionHolds`
  (`SuppressedIsOut`), `ProfileSurvives` (`ProfileIsKept`) and `NewestSession`
  (`SessionIsNewest`) follow from one invariant, `Accounts`. The properties speak of
  moments when no thread is half way through a change (`Quiet`); the invariant says what
  holds in between. `Shapes` gives each step its locals. `Barred`, `Leaves`, `Apart` and
  `Deletes` follow a sign-out from id to id: restores are suppressed, no session is
  left, no other thread is past the check of the suppression, and the profiles behind
  are gone; so at the end there is nothing and nobody brings anything back (`Outside`).
  `Suppressed` says the same of a sign-out that failed half way, `LogsIn` of the part of
  a login after its session is stored. `Kept` says which profile the keyring holds
  (`Good`), `Loads` that what a thread has loaded is of the newest login, and `NewestIn`
  that so is the session, and a session found needs no adoption, because the aliases
  never have one (`OnlyUser`). Each conjunct holds up to the troubles that break it, and
  a step that would break it otherwise notes one (`Troubled`, `OverlapNoted`).

### The panel and the review

* `PanelControllerProofs`, `LoginNeverGoesBack` (`AuthNeverGoesBack`): no two refreshes
  carry the same sequence number (`OneNewest`), no answer is newer than the server's
  state (`AnswersArePast`), and the newest refresh, once answered, holds no older state
  than the one on the screen (`NotBehind`); replies with an older number are dropped,
  so they need no order. `PanelTypeCorrect` adds that the flag of the login is set exactly
  while a call that logs in or out runs, of which there is at most one, that of the
  snapshots only while one runs (`Flags`), and that the
  timeout runs for the pending login on the screen (`Armed`).
* `SnapshotPlanProofs`, `ReviewStaysCurrent` (`ReviewIsCurrent`): the request that is
  newest is about what a snapshot would send now (`PreviewsAreCurrent`), because every
  action that changes the notebook in front, a content or the form ends in `Refresh`,
  which marks every earlier request and answer as not the newest.
* `WhatIsTypedIsSaved` (`TypedIsSaved`): `Carries` follows a label or tags the user
  typed through each switch of notebook, late preference and edit of the form
  (`FormTyped`), the click (`AskedTyped`) and the request (`RequestTyped`) to the
  receipt.
* `SavedIsAnnounced` (`SavedAsAnnounced`): the preview and the pipeline resolve the
  same request against the same world (`Announcing`, which keeps the world a review was
  made in until it changes); what they then list, commit and save agrees although the
  one is computed by `render.py` and the other by `pipeline.py`.
* `PlanTypeCorrect`: the type invariant, with the tags nobody typed being the
  directives' of the notebook in front.

### Assumptions and limits

Assumptions are the named ones of the modules: the bounds are naturals, the special
values are not ordinary ones, and the loop is neither a notebook nor a worker.

Only model-checked: liveness under fairness (`EveryJobEnds`, `EverySlotReturns`,
`SignalledIsSettled`, `PendingEnds`, `LoginIsShown`, `SnapshotEnds`) and `ENABLED`, which the
proof system does not reach. Every safety property of a passing run is a theorem.
Facts that need induction over data are out of reach, since the library's induction
theorems take an operator as their parameter: the outputs' lines (`FlattenSeq`) are the
same unknown list on both sides of a comparison, and where the end of a list is needed,
a well-founded minimum stands in for the induction (`LastOf`). No module declares a
recursive operator.

## 6. Not modelled

* Two servers on one activity file, and the store's own transaction boundaries.
* In the pipeline: ignored and untracked files of git, remote URLs, nested directories
  and names of pages; two deliveries into one directory. A request that raises is
  taken not to have been carried out by LabArchives.
* Demo mode, the texts of login errors, several users of one server.
* Tracked patterns with `*`: a pattern is a prefix of segments.
* The markup of the pages, colours, titles, ANSI codes, path and commit-message
  templates: functions of their input alone, whose unit tests compare outputs.
* Body parsers, response bodies, decoders, widgets, wording, layout, environment
  lookups, the smoke-test scripts, styles and schemas: no behaviour worth a state.
* Trigger marks in cell metadata and the normalisation of sources: `TriggerRuns` takes
  the set of trigger cells and the content as given.

## 7. Plan

In this order, most important first; all of it is done.

1. `Admission`, `ActivityStore`, `SnapshotCoordinator`: the queue, with its faults and
   restarts.
2. `SnapshotLog`: what the user is promised, implemented by the queue and the pipeline.
3. `SnapshotCoordinatorProofs`: types, the admission table alone and in the coordinator.
4. `TriggerRuns`: from executed cells to submitted triggers.
5. `SnapshotPipeline`: the calls from the repository to the end of a delivery, for
   notebooks of one repository.
6. `Auth`: logins, sessions and the keyring, handlers against worker threads.
7. `PanelController`: overlapping requests, the login's sequence number, polling.
8. `SnapshotPlan`: form, request, configuration and review against what is saved.
9. Proofs: what a user is promised, for the queue (`PersistedIsDelivered`,
   `ImplementsLog`) and the pipeline; the triggers; the login, the panel and the review.
10. Proofs about the jobs of the queue: order, release of slots, one delivery per run,
   one writer per row, the end of what is in flight, aliases; executions held once; the pages
   against the notebooks they were made of.
