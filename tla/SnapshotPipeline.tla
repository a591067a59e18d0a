-------------------------- MODULE SnapshotPipeline --------------------------
(***************************************************************************)
(* What the worker does between "running" and the end of a job: resolve    *)
(* the repository, capture, commit, build the bundle and deliver it, for   *)
(* notebooks that share one repository.  SnapshotCoordinator takes this as *)
(* Prepare and Deliver; here each call that the other notebooks, the user  *)
(* of the repository or the reader of the lab notebook can see is a step.  *)
(*                                                                         *)
(* Each notebook has one worker, so its jobs run one after the other and   *)
(* jobs of two notebooks interleave.  Nothing locks the repository: the    *)
(* working tree and the index belong to the user too.                      *)
(*                                                                         *)
(* A file is its version.  Every notebook tracks one file, the same one.   *)
(* Of a bundle's pages, the metadata, the notebook and the patch are kept. *)
(***************************************************************************)
EXTENDS Naturals, Sequences, FiniteSets, NotebookPage

CONSTANTS
  Notebooks,     (* the notebook files of the repository                    *)
  Tracked,       (* a file all of them track                                *)
  Other,         (* a file none of them tracks                              *)
  MaxJobs,       (* bound: how many snapshots are submitted                 *)
  MaxUserSteps,  (* bound: how often the user edits, stages or commits      *)
  NoRequest

Paths  == Notebooks \union {Tracked, Other}
Jobs   == 1 .. MaxJobs
Nobody == 0                   \* the author of commits that are not a job's

ASSUME PipelineAssumption ==
  /\ Tracked \notin Notebooks /\ Other \notin Notebooks /\ Tracked # Other
  /\ MaxJobs \in Nat /\ MaxUserSteps \in Nat
  /\ NoRequest \notin [notebook : Notebooks, asked : SUBSET Paths]

VARIABLES
  files,        (* the working tree: path -> version                        *)
  index,        (* git's index: path -> staged version                      *)
  commits,      (* the branch: its last element is HEAD                     *)
  request,      (* job -> its request and effective config, or NoRequest    *)
  pc,           (* job -> the next call of its pipeline                     *)
  local,        (* job -> the pipeline's local variables                    *)
  directories,  (* the jobs whose directory is in the lab notebook          *)
  pages,        (* job -> the pages written into it                         *)
  row,          (* job -> the state of its Activity row                     *)
  userSteps,
  (* What happened, for the properties. *)
  disturbed,    (* jobs during whose staging another actor wrote to git     *)
  orphaned      (* jobs whose clean-up failed or was not tried              *)

gitVars == <<index, commits>>
labVars == <<directories, pages, orphaned>>
vars == <<files, gitVars, request, pc, local, labVars, row, userSteps, disturbed>>

HEAD == Len(commits)
Staged == {p \in Paths : index[p] # commits[HEAD].tree[p]}
Unstaged == {p \in Paths : files[p] # index[p]}

NoLocals == [head |-> 0, dirty |-> FALSE, base |-> 0, tracked |-> 0, commit |-> 0,
             created |-> FALSE, patch |-> FALSE]

Init ==
  /\ \E edited \in {{}, Paths} : files = [p \in Paths |-> IF p \in edited THEN 1 ELSE 0]
  /\ index = [p \in Paths |-> 0]
  /\ commits = <<[tree |-> index, by |-> Nobody]>>
  /\ request = [j \in Jobs |-> NoRequest]
  /\ pc = [j \in Jobs |-> "none"]
  /\ local = [j \in Jobs |-> NoLocals]
  /\ directories = {} /\ pages = [j \in Jobs |-> {}] /\ orphaned = {}
  /\ row = [j \in Jobs |-> "none"]
  /\ userSteps = 0
  /\ disturbed = {}

----------------------------------------------------------------------------
At(j, step)   == pc[j] = step
Goto(j, step) == pc' = [pc EXCEPT ![j] = step]
\* An exception before the delivery leaves the pipeline, and its locals are gone.
Refuse(j)     == Goto(j, "failed") /\ local' = [local EXCEPT ![j] = NoLocals]

PipelineOnly == UNCHANGED <<files, gitVars, request, labVars, row, userSteps, disturbed>>

\* The jobs between their check of the index and their commit.
Staging == {j \in Jobs : pc[j] \in {"add", "status", "commit"}}
GitWrittenBy(actor) == disturbed' = disturbed \union (Staging \ {actor})

\* What may be staged is the notebook and the tracked file, as the config says;
\* nothing, when its commit mode is not "always".
Submit(n) ==
  LET j == Cardinality({k \in Jobs : request[k] # NoRequest}) + 1 IN
  /\ j \in Jobs
  /\ \E asked \in SUBSET {n, Tracked} :
       request' = [request EXCEPT ![j] = [notebook |-> n, asked |-> asked]]
  /\ row' = [row EXCEPT ![j] = "queued"]
  /\ Goto(j, "queued")
  /\ UNCHANGED <<files, gitVars, local, labVars, userSteps, disturbed>>

\* The worker takes its next job.
Begin(j) ==
  /\ At(j, "queued")
  /\ \A k \in 1 .. j - 1 : request[k].notebook = request[j].notebook => At(k, "done")
  /\ row' = [row EXCEPT ![j] = "running"]
  /\ Goto(j, "resolve")
  /\ UNCHANGED <<files, gitVars, request, local, labVars, userSteps, disturbed>>

\* The container's closure looks for a session; resolve_repo reads HEAD and
\* whether anything in the repository differs from it.
ResolveRepo(j) ==
  /\ At(j, "resolve")
  /\ \/ /\ local' = [local EXCEPT ![j].head = HEAD,
                                  ![j].dirty = Staged \union Unstaged # {}]
        /\ Goto(j, "capture")
     \/ Refuse(j)
  /\ PipelineOnly

WillCommit(j) == local[j].dirty /\ request[j].asked # {}

\* Config, directives and plan; the notebook diff against the file at HEAD;
\* the watched files.  Without a commit, HEAD as it was resolved is reused.
Capture(j) ==
  /\ At(j, "capture")
  /\ \/ /\ local' = [local EXCEPT ![j].base = HEAD, ![j].tracked = files[Tracked],
                                  ![j].commit = local[j].head]
        /\ Goto(j, IF WillCommit(j) THEN "check" ELSE "build")
     \/ Refuse(j)
  /\ PipelineOnly

\* Mutant: whatever is staged goes into the commit.
RejectUnrelatedStaged_Never(j) ==
  /\ At(j, "check")
  /\ Goto(j, "add")
  /\ UNCHANGED local /\ PipelineOnly

RejectUnrelatedStaged(j) ==
  /\ At(j, "check")
  /\ \/ Staged \subseteq request[j].asked /\ Goto(j, "add") /\ UNCHANGED local
     \/ ~(Staged \subseteq request[j].asked) /\ Refuse(j)
  /\ PipelineOnly

\* porcelain.add, one step; ignored paths are reported once the others are in
\* the index, and no failure takes anything out of it again.
Stage(j) ==
  LET Added(S) == index' = [p \in Paths |-> IF p \in S THEN files[p] ELSE index[p]] IN
  /\ At(j, "add")
  /\ \/ Added(request[j].asked) /\ Goto(j, "status") /\ UNCHANGED local
     \/ \E S \in SUBSET request[j].asked : Added(S) /\ Refuse(j)
  /\ GitWrittenBy(j)
  /\ UNCHANGED <<files, commits, request, labVars, row, userSteps>>

AnythingStaged(j) ==
  /\ At(j, "status")
  /\ \/ Goto(j, IF Staged = {} THEN "build" ELSE "commit") /\ UNCHANGED local
     \/ Refuse(j)
  /\ PipelineOnly

\* Mutant: the notebook diff is made once the commit is there.
Commit_BeforeDiff(j) ==
  /\ At(j, "commit")
  /\ commits' = Append(commits, [tree |-> index, by |-> j])
  /\ local' = [local EXCEPT ![j].commit = HEAD + 1, ![j].created = TRUE, ![j].base = HEAD + 1]
  /\ Goto(j, "build")
  /\ GitWrittenBy(j)
  /\ UNCHANGED <<files, index, request, labVars, row, userSteps>>

\* porcelain.commit takes the whole index.  It may raise, and the new HEAD may
\* turn out unreadable.
Commit(j) ==
  /\ At(j, "commit")
  /\ \/ /\ commits' = Append(commits, [tree |-> index, by |-> j])
        /\ \/ /\ local' = [local EXCEPT ![j].commit = HEAD + 1, ![j].created = TRUE]
              /\ Goto(j, "build")
           \/ Refuse(j)
     \/ Refuse(j) /\ UNCHANGED commits
  /\ GitWrittenBy(j)
  /\ UNCHANGED <<files, index, request, labVars, row, userSteps>>

\* The size cap, the working-tree diff (of the tracked file: the notebook's
\* patch is filtered out), the target path, the bundle.
Build(j) ==
  /\ At(j, "build")
  /\ \/ /\ local' = [local EXCEPT ![j].patch = /\ local[j].dirty /\ ~local[j].created
                                               /\ Tracked \in Unstaged]
        /\ Goto(j, "deliver")
     \/ Refuse(j)
  /\ PipelineOnly

----------------------------------------------------------------------------
(* Delivery.deliver, and the end of the job.                               *)

Bundle(j) ==
  <<"00 Metadata", "notebook">>
    \o IF local[j].patch THEN <<"working-tree.patch">> ELSE <<>>

Written(j)  == Cardinality(pages[j])
Complete(j) == j \in directories /\ Written(j) = Len(Bundle(j))

CreateDirectory(j) ==
  /\ At(j, "deliver")
  /\ \/ directories' = directories \union {j} /\ Goto(j, "pages")
     \/ Goto(j, "failed") /\ UNCHANGED directories
  /\ UNCHANGED <<files, gitVars, request, local, pages, orphaned, row, userSteps, disturbed>>

\* Mutant: a page that cannot be written is left out.
WritePage_Skips(j) ==
  /\ At(j, "pages") /\ ~Complete(j)
  /\ \/ pages' = [pages EXCEPT ![j] = @ \union {Bundle(j)[Written(j) + 1]}] /\ UNCHANGED pc
     \/ Goto(j, "record") /\ UNCHANGED pages
  /\ UNCHANGED <<files, gitVars, request, local, directories, orphaned, row, userSteps, disturbed>>

\* Any exception of the LabArchives delivery leads to its clean-up; the local delivery
\* catches OSError only, so another one leaves what it has written behind.
WritePage(j) ==
  /\ At(j, "pages") /\ ~Complete(j)
  /\ \/ /\ pages' = [pages EXCEPT ![j] = @ \union {Bundle(j)[Written(j) + 1]}]
        /\ UNCHANGED <<pc, orphaned>>
     \/ Goto(j, "clean up") /\ UNCHANGED <<pages, orphaned>>
     \/ Goto(j, "failed") /\ orphaned' = orphaned \union {j} /\ UNCHANGED pages
  /\ UNCHANGED <<files, gitVars, request, local, directories, row, userSteps, disturbed>>

\* directory_url is asked outside the try: its exception cleans nothing up.
DirectoryUrl(j) ==
  /\ At(j, "pages") /\ Complete(j)
  /\ Goto(j, "record") \/ Goto(j, "failed")
  /\ UNCHANGED local /\ PipelineOnly

\* Mutant: an error raised as a SnapshotError is passed on uncleaned.
CleanUp_SnapshotErrorOnly(j) ==
  /\ At(j, "clean up")
  /\ Goto(j, "failed")
  /\ \/ directories' = directories \ {j} /\ pages' = [pages EXCEPT ![j] = {}]
     \/ UNCHANGED <<directories, pages>>
  /\ UNCHANGED <<files, gitVars, request, local, orphaned, row, userSteps, disturbed>>

\* Mutant: the directory goes, what is in it stays.
CleanUp_DirectoryOnly(j) ==
  /\ At(j, "clean up")
  /\ Goto(j, "failed")
  /\ \/ directories' = directories \ {j} /\ UNCHANGED orphaned
     \/ orphaned' = orphaned \union {j} /\ UNCHANGED directories
  /\ UNCHANGED <<files, gitVars, request, local, pages, row, userSteps, disturbed>>

\* What was created is deleted, unless that fails as well.
CleanUp(j) ==
  /\ At(j, "clean up")
  /\ Goto(j, "failed")
  /\ \/ /\ directories' = directories \ {j} /\ pages' = [pages EXCEPT ![j] = {}]
        /\ UNCHANGED orphaned
     \/ orphaned' = orphaned \union {j} /\ UNCHANGED <<directories, pages>>
  /\ UNCHANGED <<files, gitVars, request, local, row, userSteps, disturbed>>

RecordEnd(j) ==
  /\ \/ At(j, "record") /\ row' = [row EXCEPT ![j] = "persisted"]
     \/ At(j, "failed") /\ row' = [row EXCEPT ![j] = "failed"]
  /\ Goto(j, "done")
  /\ UNCHANGED <<files, gitVars, request, local, labVars, userSteps, disturbed>>

----------------------------------------------------------------------------
(* The user of the repository.                                             *)

UserStep ==
  /\ userSteps < MaxUserSteps
  /\ userSteps' = userSteps + 1
  /\ UNCHANGED <<request, pc, local, labVars, row>>

Edit(p) ==
  /\ UserStep
  /\ files' = [files EXCEPT ![p] = @ + 1]
  /\ UNCHANGED <<gitVars, disturbed>>

UserStages(p) ==
  /\ UserStep
  /\ p \in Unstaged
  /\ index' = [index EXCEPT ![p] = files[p]]
  /\ GitWrittenBy(Nobody)
  /\ UNCHANGED <<files, commits>>

UserCommits ==
  /\ UserStep
  /\ Staged # {}
  /\ commits' = Append(commits, [tree |-> index, by |-> Nobody])
  /\ GitWrittenBy(Nobody)
  /\ UNCHANGED <<files, index>>

Prepare(j) ==
  \/ Begin(j) \/ ResolveRepo(j) \/ Capture(j) \/ RejectUnrelatedStaged(j) \/ Stage(j)
  \/ AnythingStaged(j) \/ Commit(j) \/ Build(j)

Deliver(j) ==
  CreateDirectory(j) \/ WritePage(j) \/ DirectoryUrl(j) \/ CleanUp(j) \/ RecordEnd(j)

Next ==
  \/ \E n \in Notebooks : Submit(n)
  \/ \E j \in Jobs : Prepare(j) \/ Deliver(j)
  \/ \E p \in Paths : Edit(p) \/ UserStages(p)
  \/ UserCommits

Spec == Init /\ [][Next]_vars

----------------------------------------------------------------------------
Steps == {"none", "queued", "resolve", "capture", "check", "add", "status", "commit", "build",
          "deliver", "pages", "clean up", "record", "failed", "done"}

\* The types, and that every page is in a directory.  (LabArchivesDelivery.deliver,
\* LocalDelivery.deliver)
TypeOK ==
  /\ files \in [Paths -> Nat]
  /\ index \in [Paths -> Nat]
  /\ commits \in Seq([tree : [Paths -> Nat], by : Jobs \union {Nobody}])
  /\ \A j \in Jobs :
       request[j] # NoRequest =>
         request[j] \in [notebook : Notebooks, asked : SUBSET Paths]
  /\ pc \in [Jobs -> Steps]
  /\ local \in [Jobs -> [head : Nat, dirty : BOOLEAN, base : Nat, tracked : Nat, commit : Nat,
                         created : BOOLEAN, patch : BOOLEAN]]
  /\ directories \subseteq Jobs
  /\ \A j \in Jobs : pages[j] \subseteq {Bundle(j)[i] : i \in DOMAIN Bundle(j)}
  /\ \A j \in Jobs \ directories : pages[j] = {}
  /\ userSteps \in 0 .. MaxUserSteps
  /\ disturbed \subseteq Jobs /\ orphaned \subseteq Jobs

Changes(c) == {p \in Paths : commits[c].tree[p] # commits[c - 1].tree[p]}

SnapshotCommits == {c \in 2 .. Len(commits) : commits[c].by \in Jobs}
OnlyAsked(c) == Changes(c) \subseteq request[commits[c].by].asked

\* A snapshot's commit changes only what it was asked to stage (C-GIT-03): what
\* the user, or another notebook's failed snapshot, had left in the index is
\* never taken along.  (Unless another actor writes to git between the check
\* and the commit, which nothing prevents.)
CommitsOnlyAsked == \A c \in SnapshotCommits : commits[c].by \notin disturbed => OnlyAsked(c)

\* C-GIT-03 as it is written, for whatever the workers of other notebooks do.
CommitsNothingUnrelated == \A c \in SnapshotCommits : OnlyAsked(c)

\* The notebook diff of a snapshot is made against a HEAD from before its own
\* commit (C-CONTENT-06), against which it would always be empty.
DiffIsPreSnapshot ==
  \A j \in Jobs : local[j].created => local[j].head <= local[j].base
                                      /\ local[j].base < local[j].commit

\* Delivery is atomic for the reader of the lab notebook (C-DEST-04): a failed
\* job, wherever it failed, has left nothing there, unless its clean-up failed
\* too or was not tried, or the whole bundle was written.
FailedLeavesNothing ==
  \A j \in Jobs :
    row[j] = "failed" /\ j \in directories => j \in orphaned \/ Complete(j)

\* The steps of a delivery are, for the reader of the Activity list and the lab
\* notebook, the queue's atomic delivery: persisted only after a whole bundle.
Log == INSTANCE SnapshotLog WITH row <- row, delivered <- {j \in Jobs : Complete(j)}
ImplementsLog == Log!LogSpec

\* The pages of a notebook that a job writes into the lab notebook say what changed since
\* HEAD and only that, whatever notebook it captured (C-CONTENT-03, C-CONTENT-06, C-DEST-03).
PagesTellChanges == \A j \in Jobs : "notebook" \in pages[j] => EveryPageTells
=============================================================================
