----------------------- MODULE SnapshotPipelineProofs -----------------------
(***************************************************************************)
(* Proofs about the pipeline, for any notebooks of a repository, any       *)
(* snapshots, any steps of the user and any call that fails; and about the *)
(* pages of a snapshot, for any notebooks.                                 *)
(***************************************************************************)
EXTENDS SnapshotPipeline, FiniteSetTheorems, SequenceTheorems, WellFoundedInduction, TLAPS

Requests  == [notebook : Notebooks, asked : SUBSET Paths]
Trees     == [Paths -> Nat]
CommitSet == [tree : Trees, by : Jobs \union {Nobody}]
Locals    == [head : Nat, dirty : BOOLEAN, base : Nat, tracked : Nat, commit : Nat,
              created : BOOLEAN, patch : BOOLEAN]
Rows      == {"none", "queued", "running", "persisted", "failed"}

Typed ==
  /\ files \in Trees /\ index \in Trees
  /\ commits \in Seq(CommitSet) /\ commits # <<>>
  /\ request \in [Jobs -> Requests \union {NoRequest}]
  /\ pc \in [Jobs -> Steps]
  /\ local \in [Jobs -> Locals]
  /\ directories \subseteq Jobs
  /\ pages = [j \in Jobs |-> pages[j]]
  /\ row \in [Jobs -> Rows]

\* Jobs are numbered in the order of their submission; one that was submitted has a
\* request, which no later submission replaces, and no other has one.
Drawn ==
  /\ \E k \in 0 .. MaxJobs : \A j \in Jobs : request[j] # NoRequest <=> j <= k
  /\ \A j \in Jobs : request[j] # NoRequest <=> pc[j] # "none"

Shape == Typed /\ Drawn

----------------------------------------------------------------------------
\* The steps of the jobs that leave the repository, the requests and the rows alone.
LEMMA PipelineOnlyKeeps ==
  ASSUME NEW j, ResolveRepo(j) \/ Capture(j) \/ RejectUnrelatedStaged(j) \/ AnythingStaged(j)
                \/ Build(j) \/ DirectoryUrl(j)
  PROVE  PipelineOnly
  BY DEF ResolveRepo, Capture, RejectUnrelatedStaged, AnythingStaged, Build, DirectoryUrl

\* A job moves to another step; its locals may change.
Moves(j, from, to) ==
  /\ pc[j] \in from
  /\ \E step \in to : pc' = [pc EXCEPT ![j] = step]
  /\ \E l \in Locals : local' = [local EXCEPT ![j] = l]

LEMMA HeadType ==
  ASSUME Typed
  PROVE  HEAD \in Nat /\ HEAD >= 1 /\ HEAD \in DOMAIN commits
  BY DEF Typed, HEAD

LEMMA NextJobIsFresh ==
  ASSUME Shape, NEW n, Submit(n)
  PROVE  \E j \in Jobs :
           /\ pc[j] = "none" /\ request[j] = NoRequest
           /\ \A k \in Jobs : request[k] # NoRequest <=> k < j
           /\ \E r \in SUBSET {n, Tracked} :
                request' = [request EXCEPT ![j] = [notebook |-> n, asked |-> r]]
           /\ row' = [row EXCEPT ![j] = "queued"]
           /\ pc' = [pc EXCEPT ![j] = "queued"]
  <1> DEFINE j == Cardinality({k \in Jobs : request[k] # NoRequest}) + 1
  <1>1. PICK k \in 0 .. MaxJobs : \A i \in Jobs : request[i] # NoRequest <=> i <= k
    BY DEF Shape, Drawn
  <1>2. k \in Nat /\ MaxJobs \in Nat
    BY PipelineAssumption
  <1>3. {i \in Jobs : request[i] # NoRequest} = 1 .. k
    BY <1>1, <1>2 DEF Jobs
  <1>3a. Cardinality(1 .. k) = k
    BY <1>2, FS_Interval
  <1>4. j = k + 1
    BY <1>3, <1>3a
  <1>5. /\ j \in Jobs
        /\ \E r \in SUBSET {n, Tracked} :
             request' = [request EXCEPT ![j] = [notebook |-> n, asked |-> r]]
        /\ row' = [row EXCEPT ![j] = "queued"]
        /\ pc' = [pc EXCEPT ![j] = "queued"]
    BY Zenon DEF Submit, Goto
  <1>6. request[j] = NoRequest /\ \A i \in Jobs : request[i] # NoRequest <=> i < j
    BY <1>1, <1>2, <1>4, <1>5 DEF Jobs
  <1>7. pc[j] = "none"
    BY <1>5, <1>6 DEF Shape, Drawn
  <1> HIDE DEF j
  <1> QED BY <1>5, <1>6, <1>7

----------------------------------------------------------------------------
\* Where the steps of a job lead.
LEMMA JobMoves ==
  ASSUME Typed, NEW j \in Jobs
  PROVE  /\ Begin(j) => Moves(j, {"queued"}, {"resolve"})
         /\ ResolveRepo(j) => Moves(j, {"resolve"}, {"capture", "failed"})
         /\ Capture(j) => Moves(j, {"capture"}, {"check", "build", "failed"})
         /\ RejectUnrelatedStaged(j) => Moves(j, {"check"}, {"add", "failed"})
         /\ Stage(j) => Moves(j, {"add"}, {"status", "failed"})
         /\ AnythingStaged(j) => Moves(j, {"status"}, {"commit", "build", "failed"})
         /\ Commit(j) => Moves(j, {"commit"}, {"build", "failed"})
         /\ Build(j) => Moves(j, {"build"}, {"deliver", "failed"})
         /\ CreateDirectory(j) => Moves(j, {"deliver"}, {"pages", "failed"})
         /\ WritePage(j) => Moves(j, {"pages"}, {"pages", "clean up", "failed"})
         /\ DirectoryUrl(j) => Moves(j, {"pages"}, {"record", "failed"})
         /\ CleanUp(j) => Moves(j, {"clean up"}, {"failed"})
         /\ RecordEnd(j) => Moves(j, {"record", "failed"}, {"done"})
  <1>0. /\ local[j] \in Locals /\ local = [local EXCEPT ![j] = local[j]]
        /\ pc = [pc EXCEPT ![j] = pc[j]]
    BY DEF Typed
  <1>1. HEAD \in Nat /\ files[Tracked] \in Nat
    BY HeadType DEF Typed, Trees, Paths
  <1>2. NoLocals \in Locals
    BY DEF NoLocals, Locals
  <1>3. Refuse(j) => /\ pc' = [pc EXCEPT ![j] = "failed"]
                     /\ \E l \in Locals : local' = [local EXCEPT ![j] = l]
    BY <1>2 DEF Refuse, Goto
  <1>4. ASSUME UNCHANGED local PROVE \E l \in Locals : local' = [local EXCEPT ![j] = l]
    BY <1>0, <1>4
  <1>5. Begin(j) => Moves(j, {"queued"}, {"resolve"})
    BY <1>4 DEF Begin, Moves, At, Goto
  <1>6. ResolveRepo(j) => Moves(j, {"resolve"}, {"capture", "failed"})
    <2> SUFFICES ASSUME ResolveRepo(j) PROVE Moves(j, {"resolve"}, {"capture", "failed"})
      OBVIOUS
    <2> DEFINE d == Staged \union Unstaged # {}
               l == [local[j] EXCEPT !.head = HEAD, !.dirty = d]
    <2>1. d \in BOOLEAN
      OBVIOUS
    <2> HIDE DEF d
    <2>2. l \in Locals
      BY <1>0, <1>1, <2>1 DEF Locals
    <2>3. Refuse(j) \/ (local' = [local EXCEPT ![j] = l] /\ Goto(j, "capture"))
      BY DEF ResolveRepo, d
    <2> HIDE DEF l
    <2> QED BY <1>3, <2>2, <2>3 DEF ResolveRepo, Moves, At, Goto
  <1>7. Capture(j) => Moves(j, {"capture"}, {"check", "build", "failed"})
    <2> SUFFICES ASSUME Capture(j) PROVE Moves(j, {"capture"}, {"check", "build", "failed"})
      OBVIOUS
    <2> DEFINE l == [local[j] EXCEPT !.base = HEAD, !.tracked = files[Tracked],
                                     !.commit = local[j].head]
    <2>1. l \in Locals
      BY <1>0, <1>1 DEF Locals
    <2>2. \/ Refuse(j)
          \/ local' = [local EXCEPT ![j] = l] /\ (Goto(j, "check") \/ Goto(j, "build"))
      BY <1>0 DEF Capture
    <2> HIDE DEF l
    <2> QED BY <1>3, <2>1, <2>2 DEF Capture, Moves, At, Goto
  <1>8. RejectUnrelatedStaged(j) => Moves(j, {"check"}, {"add", "failed"})
    BY <1>3, <1>4 DEF RejectUnrelatedStaged, Moves, At, Goto
  <1>9. Stage(j) => Moves(j, {"add"}, {"status", "failed"})
    BY <1>3, <1>4 DEF Stage, Moves, At, Goto
  <1>10. AnythingStaged(j) => Moves(j, {"status"}, {"commit", "build", "failed"})
    BY <1>3, <1>4 DEF AnythingStaged, Moves, At, Goto
  <1>11. Commit(j) => Moves(j, {"commit"}, {"build", "failed"})
    <2> SUFFICES ASSUME Commit(j) PROVE Moves(j, {"commit"}, {"build", "failed"})
      OBVIOUS
    <2> DEFINE l == [local[j] EXCEPT !.commit = HEAD + 1, !.created = TRUE]
    <2>0. HEAD + 1 \in Nat
      BY <1>1
    <2>1. l \in Locals
      BY <1>0, <2>0 DEF Locals
    <2>2. Refuse(j) \/ (local' = [local EXCEPT ![j] = l] /\ Goto(j, "build"))
      BY DEF Commit
    <2> HIDE DEF l
    <2> QED BY <1>3, <2>1, <2>2 DEF Commit, Moves, At, Goto
  <1>12. Build(j) => Moves(j, {"build"}, {"deliver", "failed"})
    <2> SUFFICES ASSUME Build(j) PROVE Moves(j, {"build"}, {"deliver", "failed"})
      OBVIOUS
    <2> DEFINE p == local[j].dirty /\ ~local[j].created /\ Tracked \in Unstaged
               l == [local[j] EXCEPT !.patch = p]
    <2>1. p \in BOOLEAN
      BY <1>0 DEF Locals
    <2>2. Refuse(j) \/ (local' = [local EXCEPT ![j] = l] /\ Goto(j, "deliver"))
      BY DEF Build
    <2> HIDE DEF p
    <2>3. l \in Locals
      BY <1>0, <2>1 DEF Locals
    <2> HIDE DEF l
    <2> QED BY <1>3, <2>2, <2>3 DEF Build, Moves, At, Goto
  <1>13. /\ CreateDirectory(j) => Moves(j, {"deliver"}, {"pages", "failed"})
         /\ DirectoryUrl(j) => Moves(j, {"pages"}, {"record", "failed"})
         /\ CleanUp(j) => Moves(j, {"clean up"}, {"failed"})
         /\ RecordEnd(j) => Moves(j, {"record", "failed"}, {"done"})
    BY <1>4 DEF CreateDirectory, DirectoryUrl, CleanUp, RecordEnd, Moves, At, Goto
  <1>14. WritePage(j) => Moves(j, {"pages"}, {"pages", "clean up", "failed"})
    BY <1>0, <1>4 DEF WritePage, Moves, At, Goto
  <1> QED BY <1>5, <1>6, <1>7, <1>8, <1>9, <1>10, <1>11, <1>12, <1>13, <1>14

JobStep(j) == Prepare(j) \/ Deliver(j)

\* A job only moves itself, on from a step it was submitted for.
LEMMA JobStepMoves ==
  ASSUME Typed, NEW j \in Jobs, JobStep(j)
  PROVE  Moves(j, Steps \ {"none", "done"}, Steps \ {"none", "queued"})
  <1> DEFINE M(from, to) == Moves(j, from, to)
             F == Steps \ {"none", "done"}
             T == Steps \ {"none", "queued"}
  <1>1. \A from \in SUBSET F, to \in SUBSET T : M(from, to) => M(F, T)
    BY DEF Moves
  <1>2. PICK from \in SUBSET F, to \in SUBSET T : M(from, to)
    <2>1. {"queued", "resolve", "capture", "check", "add", "status", "commit", "build", "deliver",
           "pages", "clean up", "record", "failed"} \subseteq F
      BY DEF Steps
    <2>2. {"resolve", "capture", "check", "add", "status", "commit", "build", "deliver",
           "pages", "clean up", "record", "failed", "done"} \subseteq T
      BY DEF Steps
    <2> HIDE DEF M, F, T
    <2>3. \/ M({"queued"}, {"resolve"})
          \/ M({"resolve"}, {"capture", "failed"})
          \/ M({"capture"}, {"check", "build", "failed"})
          \/ M({"check"}, {"add", "failed"})
          \/ M({"add"}, {"status", "failed"})
          \/ M({"status"}, {"commit", "build", "failed"})
          \/ M({"commit"}, {"build", "failed"})
          \/ M({"build"}, {"deliver", "failed"})
          \/ M({"deliver"}, {"pages", "failed"})
          \/ M({"pages"}, {"pages", "clean up", "failed"})
          \/ M({"pages"}, {"record", "failed"})
          \/ M({"clean up"}, {"failed"})
          \/ M({"record", "failed"}, {"done"})
      BY JobMoves DEF JobStep, Prepare, Deliver, M
    <2> QED BY <2>1, <2>2, <2>3
  <1> HIDE DEF M
  <1>3. M(F, T)
    BY <1>1, <1>2
  <1> QED BY <1>3 DEF M

\* The steps of a job that touch neither the index nor the branch, and those that do.
LEMMA JobStepOfGit ==
  ASSUME NEW j, JobStep(j)
  PROVE  \/ UNCHANGED <<files, index, commits, disturbed>>
         \/ Stage(j) \/ Commit(j)
  BY PipelineOnlyKeeps
     DEF JobStep, Prepare, Deliver, PipelineOnly, gitVars, Begin, CreateDirectory, WritePage,
         CleanUp, RecordEnd

LEMMA JobStepKeepsRequests ==
  ASSUME NEW j, JobStep(j)
  PROVE  UNCHANGED request
  BY PipelineOnlyKeeps
     DEF JobStep, Prepare, Deliver, PipelineOnly, Begin, Stage, Commit, CreateDirectory, WritePage,
         CleanUp, RecordEnd

\* The steps of a job that the reader of the Activity list or the lab notebook sees.
LEMMA JobStepOfLab ==
  ASSUME NEW j, JobStep(j)
  PROVE  \/ UNCHANGED <<directories, pages, orphaned, row>>
         \/ Begin(j) \/ CreateDirectory(j) \/ WritePage(j) \/ CleanUp(j) \/ RecordEnd(j)
  BY PipelineOnlyKeeps
     DEF JobStep, Prepare, Deliver, PipelineOnly, labVars, Stage, Commit

User == UserCommits \/ \E p \in Paths : Edit(p) \/ UserStages(p)

LEMMA UserKeeps ==
  ASSUME User
  PROVE  UNCHANGED <<request, pc, local, directories, pages, orphaned, row>>
  BY DEF User, UserCommits, Edit, UserStages, UserStep, labVars

LEMMA NextSplit ==
  ASSUME [Next]_vars
  PROVE  \/ \E n \in Notebooks : Submit(n)
         \/ \E j \in Jobs : JobStep(j)
         \/ User
         \/ UNCHANGED vars
  BY DEF Next, JobStep, User

----------------------------------------------------------------------------
\* What is in the index becomes a commit of a job or of the user.
Commits(by) == commits' = Append(commits, [tree |-> index, by |-> by])

LEMMA CommitTypes ==
  ASSUME Typed, NEW by \in Jobs \union {Nobody}, Commits(by)
  PROVE  /\ commits' \in Seq(CommitSet) /\ commits' # <<>>
         /\ HEAD' = HEAD + 1
         /\ \A c \in DOMAIN commits : commits'[c] = commits[c]
         /\ commits'[HEAD + 1] = [tree |-> index, by |-> by]
         /\ DOMAIN commits' = 1 .. HEAD + 1 /\ DOMAIN commits = 1 .. HEAD
  <1> DEFINE c == [tree |-> index, by |-> by]
  <1>1. c \in CommitSet /\ commits \in Seq(CommitSet)
    BY DEF Typed, CommitSet
  <1> HIDE DEF c
  <1>2. commits' = Append(commits, c)
    BY DEF Commits, c
  <1>3. /\ commits' \in Seq(CommitSet) /\ commits' # <<>>
        /\ Len(commits') = Len(commits) + 1
        /\ \A i \in 1 .. Len(commits) : commits'[i] = commits[i]
        /\ commits'[Len(commits) + 1] = c
    BY <1>1, <1>2, AppendProperties
  <1>4. DOMAIN commits = 1 .. Len(commits) /\ DOMAIN commits' = 1 .. Len(commits')
    BY <1>1, <1>3
  <1> QED BY <1>3, <1>4 DEF HEAD, c

LEMMA TypedStep ==
  ASSUME Shape, [Next]_vars
  PROVE  Typed'
  <1>1. ASSUME NEW n \in Notebooks, Submit(n) PROVE Typed'
    <2>1. PICK j \in Jobs, r \in SUBSET {n, Tracked} :
            /\ request' = [request EXCEPT ![j] = [notebook |-> n, asked |-> r]]
            /\ row' = [row EXCEPT ![j] = "queued"]
            /\ pc' = [pc EXCEPT ![j] = "queued"]
      BY <1>1, NextJobIsFresh
    <2>2. [notebook |-> n, asked |-> r] \in Requests
      BY DEF Requests, Paths
    <2>3. "queued" \in Steps /\ "queued" \in Rows
      BY DEF Steps, Rows
    <2>4. UNCHANGED <<files, index, commits, local, directories, pages>>
      BY <1>1 DEF Submit, gitVars, labVars
    <2> QED BY <2>1, <2>2, <2>3, <2>4 DEF Shape, Typed
  <1>2. ASSUME NEW j \in Jobs, JobStep(j) PROVE Typed'
    <2>1. PICK step \in Steps, l \in Locals :
            pc' = [pc EXCEPT ![j] = step] /\ local' = [local EXCEPT ![j] = l]
      BY <1>2, JobStepMoves DEF Moves, Shape
    <2>2. pc' \in [Jobs -> Steps] /\ local' \in [Jobs -> Locals]
      BY <2>1 DEF Shape, Typed
    <2>3. request' \in [Jobs -> Requests \union {NoRequest}]
      BY <1>2, JobStepKeepsRequests DEF Shape, Typed
    <2>4. files' \in Trees /\ index' \in Trees /\ commits' \in Seq(CommitSet) /\ commits' # <<>>
      <3>1. CASE UNCHANGED <<files, index, commits, disturbed>>
        BY <3>1 DEF Shape, Typed
      <3>2. CASE Stage(j)
        BY <3>2 DEF Stage, Shape, Typed, Trees
      <3>3. CASE Commit(j)
        <4>1. files' = files /\ index' = index
              /\ (commits' = commits \/ Commits(j))
          BY <3>3 DEF Commit, Commits
        <4> QED BY <4>1, CommitTypes DEF Shape, Typed
      <3> QED BY <1>2, <3>1, <3>2, <3>3, JobStepOfGit
    <2>5. directories' \subseteq Jobs /\ pages' = [k \in Jobs |-> pages'[k]] /\ row' \in [Jobs -> Rows]
      <3>1. CASE UNCHANGED <<directories, pages, orphaned, row>>
        BY <3>1 DEF Shape, Typed
      <3>2. CASE Begin(j) \/ RecordEnd(j)
        BY <3>2 DEF Begin, RecordEnd, labVars, Shape, Typed, Rows
      <3>3. CASE CreateDirectory(j)
        BY <3>3 DEF CreateDirectory, Shape, Typed
      <3>4. CASE WritePage(j)
        <4>1. directories' = directories /\ row' = row
              /\ (pages' = pages \/ \E w : pages' = [pages EXCEPT ![j] = w])
          BY <3>4 DEF WritePage
        <4> QED BY <4>1 DEF Shape, Typed
      <3>5. CASE CleanUp(j)
        BY <3>5 DEF CleanUp, Shape, Typed
      <3> QED BY <1>2, <3>1, <3>2, <3>3, <3>4, <3>5, JobStepOfLab
    <2> QED BY <2>2, <2>3, <2>4, <2>5 DEF Typed
  <1>3. CASE User
    <2>1. UNCHANGED <<request, pc, local, directories, pages, orphaned, row>>
      BY <1>3, UserKeeps
    <2>2. files' \in Trees /\ index' \in Trees /\ commits' \in Seq(CommitSet) /\ commits' # <<>>
      <3>1. CASE UserCommits
        BY <3>1, CommitTypes DEF UserCommits, Commits, Shape, Typed, Nobody
      <3>2. ASSUME NEW p \in Paths, Edit(p)
            PROVE  files' \in Trees /\ UNCHANGED <<index, commits>>
        BY <3>2 DEF Edit, gitVars, Shape, Typed, Trees
      <3>3. ASSUME NEW p \in Paths, UserStages(p)
            PROVE  index' \in Trees /\ UNCHANGED <<files, commits>>
        BY <3>3 DEF UserStages, Shape, Typed, Trees
      <3> QED BY <1>3, <3>1, <3>2, <3>3 DEF User, Shape, Typed
    <2> QED BY <2>1, <2>2 DEF Shape, Typed
  <1>4. CASE UNCHANGED vars
    BY <1>4 DEF vars, gitVars, labVars, Shape, Typed
  <1> QED BY <1>1, <1>2, <1>3, <1>4, NextSplit

LEMMA DrawnStep ==
  ASSUME Shape, [Next]_vars
  PROVE  Drawn'
  <1>1. ASSUME NEW n \in Notebooks, Submit(n) PROVE Drawn'
    <2>1. PICK j \in Jobs :
            /\ pc[j] = "none" /\ request[j] = NoRequest
            /\ \A k \in Jobs : request[k] # NoRequest <=> k < j
            /\ \E r \in SUBSET {n, Tracked} :
                 request' = [request EXCEPT ![j] = [notebook |-> n, asked |-> r]]
            /\ pc' = [pc EXCEPT ![j] = "queued"]
      BY <1>1, NextJobIsFresh
    <2>2. PICK r \in SUBSET {n, Tracked} :
            request' = [request EXCEPT ![j] = [notebook |-> n, asked |-> r]]
      BY <2>1
    <2>3. [notebook |-> n, asked |-> r] # NoRequest
      BY PipelineAssumption DEF Paths
    <2>4. \A k \in Jobs : request'[k] # NoRequest <=> k <= j
      BY <2>1, <2>2, <2>3 DEF Shape, Typed, Jobs
    <2>5. j \in 0 .. MaxJobs
      BY PipelineAssumption DEF Jobs
    <2>6. \A k \in Jobs : request'[k] # NoRequest <=> pc'[k] # "none"
      BY <2>1, <2>2, <2>3 DEF Shape, Typed, Drawn
    <2> QED BY <2>4, <2>5, <2>6 DEF Drawn
  <1>2. ASSUME NEW j \in Jobs, JobStep(j) PROVE Drawn'
    <2>1. PICK step \in Steps \ {"none", "queued"} : pc' = [pc EXCEPT ![j] = step]
      BY <1>2, JobStepMoves DEF Moves, Shape
    <2>2. pc[j] # "none" /\ request' = request
      BY <1>2, JobStepMoves, JobStepKeepsRequests DEF Moves, Shape
    <2> QED BY <2>1, <2>2 DEF Shape, Typed, Drawn
  <1>3. CASE UNCHANGED <<request, pc>>
    BY <1>3 DEF Shape, Drawn
  <1> QED BY <1>1, <1>2, <1>3, NextSplit, UserKeeps DEF vars

LEMMA ShapeInit == Init => Shape
  <1> SUFFICES ASSUME Init PROVE Shape
    OBVIOUS
  <1>1. 0 \in 0 .. MaxJobs /\ \A j \in Jobs : ~(j <= 0)
    BY PipelineAssumption DEF Jobs
  <1>2. Drawn
    BY <1>1 DEF Init, Drawn
  <1>3. files \in Trees /\ index \in Trees
    BY DEF Init, Trees
  <1>4. commits \in Seq(CommitSet) /\ commits # <<>>
    <2>1. commits = <<[tree |-> index, by |-> Nobody]>>
      BY DEF Init
    <2>2. [tree |-> index, by |-> Nobody] \in CommitSet
      BY <1>3 DEF CommitSet
    <2> HIDE DEF CommitSet
    <2> QED BY <2>1, <2>2
  <1>5. "none" \in Steps /\ "none" \in Rows /\ NoLocals \in Locals
    BY DEF Steps, Rows, NoLocals, Locals
  <1> QED BY <1>2, <1>3, <1>4, <1>5 DEF Init, Shape, Typed

LEMMA ShapeInvariant == Spec => []Shape
  <1>1. Shape /\ [Next]_vars => Shape'
    BY TypedStep, DrawnStep DEF Shape
  <1> QED BY <1>1, ShapeInit, PTL DEF Spec

----------------------------------------------------------------------------
(* What a snapshot commits.                                                *)

\* Between its check and its commit, what is staged is what the job may stage,
\* unless somebody else has written to git meanwhile.
StagedIsAsked ==
  \A j \in Staging : j \notin disturbed => Staged \subseteq request[j].asked

\* A commit of a job is that of a submitted one, so no submission changes its request.
CommitsAreSubmitted ==
  \A c \in SnapshotCommits : request[commits[c].by] # NoRequest

Committing == Shape /\ StagedIsAsked /\ CommitsAreSubmitted /\ CommitsOnlyAsked

\* Where the branch and the requests of its commits stay, so do the commits' changes.
LEMMA SameCommits ==
  ASSUME Committing, commits' = commits, disturbed \subseteq disturbed',
         \A j \in Jobs : request[j] # NoRequest => request'[j] = request[j]
  PROVE  CommitsAreSubmitted' /\ CommitsOnlyAsked'
  BY DEF Committing, CommitsAreSubmitted, CommitsOnlyAsked, SnapshotCommits, OnlyAsked, Changes

\* A new commit changes what was staged, and the older ones stay.
LEMMA NewCommit ==
  ASSUME Committing, NEW by \in Jobs \union {Nobody}, UNCHANGED <<request, index>>,
         Commits(by), disturbed \subseteq disturbed',
         by \in Jobs => /\ request[by] # NoRequest
                        /\ by \notin disturbed' => Staged \subseteq request[by].asked
  PROVE  CommitsAreSubmitted' /\ CommitsOnlyAsked'
  <1>0. PICK head \in Nat : head = HEAD
    BY HeadType DEF Committing, Shape
  <1>1. /\ head >= 1 /\ HEAD' = head + 1 /\ head \in 1 .. head
        /\ \A c \in 1 .. head : commits'[c] = commits[c]
        /\ commits'[head + 1] = [tree |-> index, by |-> by]
    BY <1>0, CommitTypes, HeadType DEF Committing, Shape
  <1>2. \A c \in 2 .. head : Changes(c)' = Changes(c) /\ commits'[c].by = commits[c].by
    <2> SUFFICES ASSUME NEW c \in 2 .. head
                 PROVE  Changes(c)' = Changes(c) /\ commits'[c].by = commits[c].by
      OBVIOUS
    <2>1. c \in 1 .. head /\ c - 1 \in 1 .. head
      OBVIOUS
    <2>2. commits'[c] = commits[c] /\ commits'[c - 1] = commits[c - 1]
      BY <1>1, <2>1
    <2> QED BY <2>2 DEF Changes
  <1>3. Changes(head + 1)' = Staged
    <2>1. (head + 1) - 1 = head
      BY <1>1
    <2>2. Changes(head + 1)' = {p \in Paths : commits'[head + 1].tree[p] # commits'[head].tree[p]}
      BY <2>1 DEF Changes
    <2>3. commits'[head + 1].tree = index
      BY <1>1
    <2>4. commits'[head] = commits[head]
      BY <1>1
    <2>5. commits[head] = commits[HEAD]
      BY <1>0
    <2> QED BY <2>2, <2>3, <2>4, <2>5 DEF Staged
  <1>4. commits'[head + 1].by = by
    BY <1>1
  <1>5. ASSUME NEW c \in SnapshotCommits'
        PROVE  \/ c \in SnapshotCommits /\ c \in 2 .. head
               \/ c = head + 1 /\ by \in Jobs
    <2>1. c \in 2 .. head + 1 /\ commits'[c].by \in Jobs
      BY <1>1 DEF SnapshotCommits, HEAD
    <2>2. CASE c \in 2 .. head
      BY <1>0, <1>2, <2>1, <2>2 DEF SnapshotCommits, HEAD
    <2>3. CASE c = head + 1
      BY <1>4, <2>1, <2>3
    <2>4. c \in 2 .. head \/ c = head + 1
      BY <2>1
    <2> QED BY <2>2, <2>3, <2>4
  <1>6. CommitsAreSubmitted'
    BY <1>2, <1>5, <1>4 DEF Committing, CommitsAreSubmitted
  <1>7. ASSUME NEW c \in SnapshotCommits', commits'[c].by \notin disturbed'
        PROVE  Changes(c)' \subseteq request'[commits'[c].by].asked
    <2>1. CASE c \in SnapshotCommits /\ c \in 2 .. head
      <3>1. commits[c].by \notin disturbed
        BY <1>2, <1>7, <2>1
      <3>2. Changes(c) \subseteq request[commits[c].by].asked
        BY <2>1, <3>1 DEF Committing, CommitsOnlyAsked, OnlyAsked
      <3> QED BY <1>2, <2>1, <3>2
    <2>2. CASE c = head + 1 /\ by \in Jobs
      <3>1. commits'[c].by = by
        BY <1>4, <2>2
      <3>2. Staged \subseteq request[by].asked
        BY <1>7, <2>2, <3>1
      <3> QED BY <1>3, <2>2, <3>1, <3>2
    <2> QED BY <1>5, <2>1, <2>2
  <1>8. CommitsOnlyAsked'
    BY <1>7 DEF CommitsOnlyAsked, OnlyAsked
  <1> QED BY <1>6, <1>8

\* Nobody who is staging comes undisturbed through somebody else's write.
LEMMA WritersDisturb ==
  ASSUME Committing, NEW actor \in Jobs \union {Nobody}, GitWrittenBy(actor),
         \A j \in Staging' : j # actor => j \in Staging,
         actor \in Staging' /\ actor \notin disturbed' => Staged' \subseteq request'[actor].asked
  PROVE  StagedIsAsked' /\ disturbed \subseteq disturbed'
  BY DEF GitWrittenBy, StagedIsAsked

LEMMA CommittingStep ==
  ASSUME Committing, [Next]_vars
  PROVE  Committing'
  <1>0. Shape' /\ Typed /\ Shape
    BY TypedStep, DrawnStep DEF Committing, Shape
  <1>1. ASSUME NEW n \in Notebooks, Submit(n)
        PROVE  StagedIsAsked' /\ CommitsAreSubmitted' /\ CommitsOnlyAsked'
    <2>1. PICK j \in Jobs :
            /\ pc[j] = "none" /\ request[j] = NoRequest
            /\ \E r \in SUBSET {n, Tracked} :
                 request' = [request EXCEPT ![j] = [notebook |-> n, asked |-> r]]
            /\ pc' = [pc EXCEPT ![j] = "queued"]
      BY <1>0, <1>1, NextJobIsFresh
    <2>2. UNCHANGED <<index, commits, disturbed>>
      BY <1>1 DEF Submit, gitVars
    <2>3. \A k \in Jobs : k # j => request'[k] = request[k]
      BY <2>1
    <2>4. CommitsAreSubmitted' /\ CommitsOnlyAsked'
      BY <2>1, <2>2, <2>3, SameCommits
    <2>5. j \notin Staging' /\ Staging' \subseteq Staging /\ Staged' = Staged
      BY <1>0, <2>1, <2>2 DEF Staging, Staged, HEAD, Typed
    <2>6. StagedIsAsked'
      BY <2>2, <2>3, <2>5 DEF Committing, StagedIsAsked, Staging
    <2> QED BY <2>4, <2>6
  <1>2. ASSUME NEW j \in Jobs, JobStep(j)
        PROVE  StagedIsAsked' /\ CommitsAreSubmitted' /\ CommitsOnlyAsked'
    <2>1. PICK step \in Steps :
            pc' = [pc EXCEPT ![j] = step] /\ pc[j] # "none" /\ request' = request
      BY <1>0, <1>2, JobStepMoves, JobStepKeepsRequests DEF Moves
    <2>2. request[j] # NoRequest /\ \A k \in Staging' : k # j => k \in Staging
      BY <1>0, <2>1 DEF Shape, Drawn, Typed, Staging
    <2>3. CASE Stage(j)
      <3>1. /\ pc[j] = "add" /\ GitWrittenBy(j) /\ commits' = commits
            /\ \E S \in SUBSET request[j].asked :
                 index' = [p \in Paths |-> IF p \in S THEN files[p] ELSE index[p]]
        BY <2>3 DEF Stage, At
      <3>2. j \notin disturbed => Staged \subseteq request[j].asked
        BY <3>1 DEF Committing, StagedIsAsked, Staging
      <3>3. Staged' \subseteq Staged \union request[j].asked
        BY <1>0, <3>1 DEF Staged, HEAD
      <3>4. StagedIsAsked' /\ disturbed \subseteq disturbed'
        BY <2>1, <2>2, <3>1, <3>2, <3>3, WritersDisturb DEF GitWrittenBy
      <3> QED BY <2>1, <3>1, <3>4, SameCommits
    <2>4. CASE Commit(j)
      <3>1. /\ pc[j] = "commit" /\ GitWrittenBy(j) /\ index' = index
            /\ Commits(j) \/ commits' = commits
            /\ Goto(j, "build") \/ Goto(j, "failed")
        BY <2>4 DEF Commit, Commits, At, Refuse
      <3>2. j \notin disturbed => Staged \subseteq request[j].asked
        BY <3>1 DEF Committing, StagedIsAsked, Staging
      <3>3. j \notin Staging'
        BY <1>0, <3>1 DEF Staging, Goto, Typed
      <3>4. StagedIsAsked' /\ disturbed \subseteq disturbed'
        BY <2>2, <3>1, <3>3, WritersDisturb
      <3> QED BY <2>1, <2>2, <3>1, <3>2, <3>4, SameCommits, NewCommit
    <2>5. CASE UNCHANGED <<files, index, commits, disturbed>>
      <3>1. CommitsAreSubmitted' /\ CommitsOnlyAsked'
        BY <2>1, <2>5, SameCommits
      <3>2. Staged' = Staged
        BY <2>5 DEF Staged, HEAD
      <3>3. ASSUME j \in Staging', j \notin disturbed
            PROVE  Staged \subseteq request[j].asked
        <4>1. CASE j \in Staging
          BY <3>3, <4>1 DEF Committing, StagedIsAsked
        <4>2. CASE j \notin Staging
          <5>1. RejectUnrelatedStaged(j) /\ pc'[j] = "add"
            <6>1. pc'[j] \in {"add", "status", "commit"} /\ pc[j] \notin {"add", "status", "commit"}
              BY <3>3, <4>2 DEF Staging
            <6> QED BY <1>0, <1>2, <6>1, JobMoves DEF JobStep, Prepare, Deliver, Moves, Typed
          <5>2. pc' # [pc EXCEPT ![j] = "failed"]
            BY <1>0, <5>1 DEF Typed
          <5> QED BY <5>1, <5>2 DEF RejectUnrelatedStaged, Refuse, Goto
        <4> QED BY <4>1, <4>2
      <3>4. StagedIsAsked'
        BY <2>1, <2>2, <2>5, <3>2, <3>3 DEF Committing, StagedIsAsked
      <3> QED BY <3>1, <3>4
    <2> QED BY <1>2, <2>3, <2>4, <2>5, JobStepOfGit
  <1>3. CASE User
    <2>1. request' = request /\ Staging' = Staging
      BY <1>3, UserKeeps DEF Staging
    <2>2. Nobody \in Jobs \union {Nobody} /\ Nobody \notin Jobs
      BY DEF Nobody, Jobs
    <2>3. CASE UserCommits
      <3>1. /\ GitWrittenBy(Nobody) /\ index' = index
            /\ Commits(Nobody)
        BY <2>3 DEF UserCommits, Commits
      <3>2. StagedIsAsked' /\ disturbed \subseteq disturbed'
        BY <2>1, <2>2, <3>1, WritersDisturb DEF Staging
      <3>3. CommitsAreSubmitted' /\ CommitsOnlyAsked'
        BY <2>1, <2>2, <3>1, <3>2, NewCommit
      <3> QED BY <1>0, <3>2, <3>3 DEF Committing
    <2>4. ASSUME NEW p \in Paths, UserStages(p)
          PROVE  StagedIsAsked' /\ CommitsAreSubmitted' /\ CommitsOnlyAsked'
      <3>1. GitWrittenBy(Nobody) /\ commits' = commits
        BY <2>4 DEF UserStages
      <3>2. StagedIsAsked' /\ disturbed \subseteq disturbed'
        BY <2>1, <2>2, <3>1, WritersDisturb DEF Staging
      <3> QED BY <2>1, <3>1, <3>2, SameCommits
    <2>5. ASSUME NEW p \in Paths, Edit(p)
          PROVE  StagedIsAsked' /\ CommitsAreSubmitted' /\ CommitsOnlyAsked'
      <3>1. UNCHANGED <<index, commits, disturbed>> /\ disturbed \subseteq disturbed'
        BY <2>5 DEF Edit, gitVars
      <3>2. StagedIsAsked'
        BY <2>1, <3>1 DEF Committing, StagedIsAsked, Staged, HEAD
      <3> QED BY <2>1, <3>1, <3>2, SameCommits
    <2>6. ASSUME StagedIsAsked' /\ CommitsAreSubmitted' /\ CommitsOnlyAsked'
          PROVE  Committing'
      BY <1>0, <2>6 DEF Committing
    <2> QED BY <1>3, <2>3, <2>4, <2>5, <2>6 DEF User
  <1>4. CASE UNCHANGED vars
    <2>1. UNCHANGED <<request, pc, index, commits, disturbed>> /\ disturbed \subseteq disturbed'
      BY <1>4 DEF vars, gitVars
    <2>2. StagedIsAsked'
      BY <2>1 DEF Committing, StagedIsAsked, Staged, Staging, HEAD
    <2>3. CommitsAreSubmitted' /\ CommitsOnlyAsked'
      BY <2>1, SameCommits
    <2> QED BY <1>0, <2>2, <2>3 DEF Committing
  <1> QED BY <1>0, <1>1, <1>2, <1>3, <1>4, NextSplit DEF Committing

\* Whatever other notebooks and the user leave in the index, a snapshot commits
\* only what it was asked to, unless one of them writes to git between its check
\* and its commit (git_dulwich.py:115-168; C-GIT-03).
THEOREM CommitsAreOnlyAsked == Spec => []CommitsOnlyAsked
  <1>1. Init => Committing
    <2> SUFFICES ASSUME Init PROVE Committing
      OBVIOUS
    <2>1. Len(commits) = 1
      BY DEF Init
    <2>2. SnapshotCommits = {}
      BY <2>1 DEF SnapshotCommits
    <2>3. Staging = {}
      BY DEF Init, Staging
    <2> QED BY <2>2, <2>3, ShapeInit
            DEF Committing, StagedIsAsked, CommitsAreSubmitted, CommitsOnlyAsked
  <1>2. Committing => CommitsOnlyAsked
    BY DEF Committing
  <1> QED BY <1>1, <1>2, CommittingStep, PTL DEF Spec

----------------------------------------------------------------------------
(* What the notebook diff is made against.                                 *)

\* What a job has read of the branch, and that it has not committed yet.
ReadOfBranch(j) ==
  /\ local[j].head <= HEAD /\ local[j].base <= HEAD
  /\ pc[j] \in {"none", "queued", "resolve", "capture"} => ~local[j].created
  /\ pc[j] \in {"check", "add", "status", "commit"} =>
       ~local[j].created /\ local[j].head <= local[j].base
  /\ local[j].created => local[j].head <= local[j].base /\ local[j].base < local[j].commit

Diffing == Shape /\ \A j \in Jobs : ReadOfBranch(j)

\* The branch only grows.
LEMMA HeadGrows ==
  ASSUME Shape, [Next]_vars
  PROVE  HEAD' \in Nat /\ HEAD <= HEAD'
  <1>1. commits' = commits \/ \E by \in Jobs \union {Nobody} : Commits(by)
    <2>1. ASSUME NEW n \in Notebooks, Submit(n) PROVE commits' = commits
      BY <2>1 DEF Submit, gitVars
    <2>2. ASSUME NEW j \in Jobs, JobStep(j) PROVE commits' = commits \/ Commits(j)
      BY <2>2, JobStepOfGit DEF Stage, Commit, Commits
    <2>3. CASE User
      BY <2>3 DEF User, UserCommits, Edit, UserStages, Commits, gitVars
    <2>4. CASE UNCHANGED vars
      BY <2>4 DEF vars, gitVars
    <2> QED BY <2>1, <2>2, <2>3, <2>4, NextSplit
  <1>2. HEAD \in Nat
    BY HeadType DEF Shape
  <1>3. CASE commits' = commits
    BY <1>2, <1>3 DEF HEAD
  <1>4. ASSUME NEW by \in Jobs \union {Nobody}, Commits(by)
        PROVE  HEAD' \in Nat /\ HEAD <= HEAD'
    <2>1. HEAD' = HEAD + 1
      BY <1>4, CommitTypes DEF Shape
    <2> QED BY <1>2, <2>1
  <1> QED BY <1>1, <1>3, <1>4

\* A job that does not move has read what it had read.
LEMMA RestingRead ==
  ASSUME Diffing, [Next]_vars, NEW j \in Jobs, pc'[j] = pc[j] \/ (pc[j] = "none" /\ pc'[j] = "queued"),
         local'[j] = local[j]
  PROVE  ReadOfBranch(j)'
  <1>1. local[j].head \in Nat /\ local[j].base \in Nat /\ HEAD \in Nat
    BY HeadType DEF Diffing, Shape, Typed, Locals
  <1>2. HEAD' \in Nat /\ HEAD <= HEAD'
    BY HeadGrows DEF Diffing
  <1>3. local'[j].head <= HEAD' /\ local'[j].base <= HEAD'
    BY <1>1, <1>2 DEF Diffing, ReadOfBranch
  <1> QED BY <1>3 DEF Diffing, ReadOfBranch

LEMMA MovingRead ==
  ASSUME Diffing, [Next]_vars, NEW j \in Jobs, JobStep(j)
  PROVE  ReadOfBranch(j)'
  <1>0. Typed /\ Typed' /\ ReadOfBranch(j)
    BY TypedStep DEF Diffing, Shape
  <1>1. local[j] \in Locals /\ local'[j] \in Locals /\ HEAD \in Nat /\ HEAD' \in Nat /\ HEAD <= HEAD'
    BY <1>0, HeadType, HeadGrows DEF Typed, Diffing
  <1>2. local[j].head \in Nat /\ local[j].base \in Nat
    BY <1>1 DEF Locals
  <1>3. local[j].head <= HEAD' /\ local[j].base <= HEAD'
    BY <1>0, <1>1, <1>2 DEF ReadOfBranch
  <1>4. CASE Refuse(j)
    <2>1. local'[j] = NoLocals /\ pc'[j] = "failed"
      BY <1>0, <1>4 DEF Refuse, Goto, Typed
    <2> QED BY <1>1, <2>1 DEF ReadOfBranch, NoLocals
  <1>5. CASE ResolveRepo(j) /\ ~Refuse(j)
    <2>1. /\ pc[j] = "resolve" /\ pc'[j] = "capture"
          /\ local'[j].head = HEAD /\ local'[j].base = local[j].base
          /\ local'[j].created = local[j].created
      BY <1>0, <1>1, <1>5 DEF ResolveRepo, At, Goto, Typed, Locals
    <2> QED BY <1>0, <1>1, <1>3, <2>1 DEF ReadOfBranch
  <1>6. CASE Capture(j) /\ ~Refuse(j)
    <2>1. /\ pc[j] = "capture" /\ pc'[j] \in {"check", "build"}
          /\ local'[j].head = local[j].head /\ local'[j].base = HEAD
          /\ local'[j].created = local[j].created
      BY <1>0, <1>1, <1>6 DEF Capture, At, Goto, Typed, Locals
    <2> QED BY <1>0, <1>1, <1>3, <2>1 DEF ReadOfBranch
  <1>7. CASE Commit(j) /\ ~Refuse(j)
    <2>1. /\ pc[j] = "commit" /\ pc'[j] = "build"
          /\ local'[j].head = local[j].head /\ local'[j].base = local[j].base
          /\ local'[j].commit = HEAD + 1
      BY <1>0, <1>1, <1>7 DEF Commit, At, Goto, Typed, Locals
    <2>2. local[j].head <= local[j].base /\ local[j].base < HEAD + 1
      BY <1>0, <1>1, <1>2, <2>1 DEF ReadOfBranch
    <2> QED BY <1>3, <2>1, <2>2 DEF ReadOfBranch
  <1>8. CASE Build(j) /\ ~Refuse(j)
    <2>1. /\ pc'[j] = "deliver"
          /\ local'[j].head = local[j].head /\ local'[j].base = local[j].base
          /\ local'[j].commit = local[j].commit /\ local'[j].created = local[j].created
      BY <1>0, <1>1, <1>8 DEF Build, Goto, Typed, Locals
    <2> QED BY <1>0, <1>3, <2>1 DEF ReadOfBranch
  <1>9. CASE /\ RejectUnrelatedStaged(j) \/ Stage(j) \/ AnythingStaged(j)
             /\ ~Refuse(j)
    <2>1. /\ local' = local /\ pc[j] \in {"check", "add", "status"}
          /\ pc'[j] \in {"add", "status", "commit", "build"}
      BY <1>0, <1>9 DEF RejectUnrelatedStaged, Stage, AnythingStaged, At, Goto, Typed
    <2> QED BY <1>0, <1>3, <2>1 DEF ReadOfBranch
  <1>10. CASE Begin(j) \/ Deliver(j)
    <2>1. local' = local
      BY <1>10 DEF Begin, Deliver, CreateDirectory, WritePage, DirectoryUrl, CleanUp, RecordEnd
    <2>2. \/ pc[j] = "queued" /\ pc'[j] = "resolve"
          \/ pc'[j] \in {"pages", "clean up", "record", "failed", "done"}
      BY <1>0, <1>10 DEF Begin, Deliver, CreateDirectory, WritePage, DirectoryUrl, CleanUp,
                         RecordEnd, At, Goto, Typed
    <2> QED BY <1>0, <1>3, <2>1, <2>2 DEF ReadOfBranch
  <1> QED BY <1>4, <1>5, <1>6, <1>7, <1>8, <1>9, <1>10 DEF JobStep, Prepare

LEMMA DiffingStep ==
  ASSUME Diffing, [Next]_vars
  PROVE  Diffing'
  <1>0. Shape /\ Shape'
    BY TypedStep, DrawnStep DEF Diffing, Shape
  <1>1. ASSUME NEW k \in Jobs PROVE ReadOfBranch(k)'
    <2>1. ASSUME NEW n \in Notebooks, Submit(n)
          PROVE  (pc'[k] = pc[k] \/ (pc[k] = "none" /\ pc'[k] = "queued")) /\ local'[k] = local[k]
      <3>1. local' = local
        BY <2>1 DEF Submit
      <3>2. PICK j \in Jobs : pc[j] = "none" /\ pc' = [pc EXCEPT ![j] = "queued"]
        BY <1>0, <2>1, NextJobIsFresh
      <3> QED BY <1>0, <3>1, <3>2 DEF Shape, Typed
    <2>2. ASSUME NEW j \in Jobs, JobStep(j), k # j
          PROVE  pc'[k] = pc[k] /\ local'[k] = local[k]
      <3>1. Moves(j, Steps \ {"none", "done"}, Steps \ {"none", "queued"})
        BY <1>0, <2>2, JobStepMoves DEF Shape
      <3> QED BY <1>0, <2>2, <3>1 DEF Moves, Shape, Typed
    <2>3. ASSUME User \/ UNCHANGED vars
          PROVE  pc'[k] = pc[k] /\ local'[k] = local[k]
      BY <2>3, UserKeeps DEF vars
    <2>4. CASE JobStep(k)
      BY <2>4, MovingRead
    <2>5. CASE ~JobStep(k)
      <3>1. (pc'[k] = pc[k] \/ (pc[k] = "none" /\ pc'[k] = "queued")) /\ local'[k] = local[k]
        BY <2>1, <2>2, <2>3, <2>5, NextSplit
      <3> QED BY <3>1, RestingRead
    <2> QED BY <2>4, <2>5
  <1> QED BY <1>0, <1>1 DEF Diffing

\* However the branch moves meanwhile, the notebook diff of a snapshot is made
\* against a HEAD from before the snapshot's own commit (pipeline.py:105-153;
\* C-CONTENT-06).
THEOREM DiffIsMadeFirst == Spec => []DiffIsPreSnapshot
  <1>1. Init => Diffing
    <2> SUFFICES ASSUME Init PROVE \A j \in Jobs : ReadOfBranch(j)
      BY ShapeInit DEF Diffing
    <2>1. HEAD = 1
      BY DEF Init, HEAD
    <2>2. \A j \in Jobs : local[j] = NoLocals /\ pc[j] = "none"
      BY DEF Init
    <2> QED BY <2>1, <2>2 DEF ReadOfBranch, NoLocals
  <1>2. Diffing => DiffIsPreSnapshot
    BY DEF Diffing, ReadOfBranch, DiffIsPreSnapshot
  <1> QED BY <1>1, <1>2, DiffingStep, PTL DEF Spec

----------------------------------------------------------------------------
(* What a delivery leaves in the lab notebook.                             *)

\* Before a delivery there is nothing; while pages are written or removed, no row
\* ends; a recorded success is whole, and so is what a failure left, unless its
\* clean-up failed or was not tried.
WholeOrGone(j) ==
  /\ j \in directories => pc[j] \in {"pages", "clean up", "record", "failed", "done"}
  /\ pc[j] = "pages" => j \in directories
  /\ j \notin directories => pages[j] = {}
  /\ pc[j] = "record" => Complete(j)
  /\ pc[j] = "clean up" => ~Complete(j)
  /\ (pc[j] = "failed" \/ row[j] = "failed") /\ j \in directories =>
       j \in orphaned \/ Complete(j)

\* The row a job has at each step.
RowOfStep(j) ==
  /\ pc[j] = "none" => row[j] = "none"
  /\ pc[j] = "queued" => row[j] = "queued"
  /\ pc[j] \notin {"none", "queued", "done"} => row[j] = "running"

Delivering == Shape /\ \A j \in Jobs : WholeOrGone(j) /\ RowOfStep(j)

\* A bundle has at least its two pages, so an empty directory is not complete.
LEMMA BundleIsNotEmpty ==
  ASSUME NEW j
  PROVE  Len(Bundle(j)) # 0
  <1>1. CASE local[j].patch
    BY <1>1 DEF Bundle
  <1>2. CASE ~local[j].patch
    BY <1>2 DEF Bundle
  <1> QED BY <1>1, <1>2

LEMMA EmptyIsIncomplete ==
  ASSUME NEW j, pages[j] = {}
  PROVE  ~Complete(j)
  BY BundleIsNotEmpty, FS_EmptySet DEF Complete, Written

\* Whether a bundle is complete depends on its directory, its pages and its patch.
LEMMA SameComplete ==
  ASSUME NEW j, pages'[j] = pages[j], local'[j] = local[j],
         j \in directories' <=> j \in directories
  PROVE  Complete(j)' <=> Complete(j)
  BY DEF Complete, Written, Bundle

\* What another job does changes nothing of this one's delivery.
LEMMA RestingDelivery ==
  ASSUME Delivering, NEW j \in Jobs, local'[j] = local[j], pages'[j] = pages[j],
         j \in directories' <=> j \in directories, j \in orphaned' <=> j \in orphaned,
         \/ pc'[j] = pc[j] /\ row'[j] = row[j]
         \/ pc[j] = "none" /\ pc'[j] = "queued" /\ row'[j] = "queued"
  PROVE  WholeOrGone(j)' /\ RowOfStep(j)'
  BY SameComplete DEF Delivering, WholeOrGone, RowOfStep

\* What a job's own step does to its delivery, to its row, and to nobody else's.
LEMMA MovingDelivery ==
  ASSUME Delivering, NEW j \in Jobs, JobStep(j)
  PROVE  /\ WholeOrGone(j)' /\ RowOfStep(j)'
         /\ \/ row' = row /\ (Complete(j)' <=> Complete(j))
            \/ row' = row /\ row[j] = "running" /\ ~Complete(j) /\ Complete(j)'
            \/ /\ row' = [row EXCEPT ![j] = "running"] /\ row[j] = "queued"
               /\ Complete(j)' <=> Complete(j)
            \/ /\ row' = [row EXCEPT ![j] = "persisted"] /\ row[j] = "running"
               /\ Complete(j) /\ Complete(j)'
            \/ /\ row' = [row EXCEPT ![j] = "failed"] /\ row[j] = "running"
               /\ Complete(j)' <=> Complete(j)
  <1>0. Typed /\ WholeOrGone(j) /\ RowOfStep(j)
    BY DEF Delivering, Shape
  <1>1. CASE Begin(j)
    <2>1. /\ pc[j] = "queued" /\ pc'[j] = "resolve" /\ local' = local
          /\ UNCHANGED <<directories, pages, orphaned>>
          /\ row' = [row EXCEPT ![j] = "running"] /\ row'[j] = "running"
      BY <1>0, <1>1 DEF Begin, At, Goto, Typed, labVars
    <2>2. j \notin directories /\ pages[j] = {} /\ row[j] = "queued"
      BY <1>0, <2>1 DEF WholeOrGone, RowOfStep
    <2> QED BY <2>1, <2>2, SameComplete DEF WholeOrGone, RowOfStep
  <1>2. CASE \/ ResolveRepo(j) \/ Capture(j) \/ RejectUnrelatedStaged(j) \/ Stage(j)
             \/ AnythingStaged(j) \/ Commit(j) \/ Build(j)
    <2>1. /\ UNCHANGED <<directories, pages, orphaned, row>>
          /\ pc[j] \in {"resolve", "capture", "check", "add", "status", "commit", "build"}
      BY <1>2, PipelineOnlyKeeps
         DEF PipelineOnly, labVars, ResolveRepo, Capture, RejectUnrelatedStaged, Stage,
             AnythingStaged, Commit, Build, At
    <2>2. pc'[j] \in {"capture", "check", "add", "status", "commit", "build", "deliver", "failed"}
      BY <1>0, <1>2 DEF ResolveRepo, Capture, RejectUnrelatedStaged, Stage, AnythingStaged,
                        Commit, Build, Refuse, Goto, Typed
    <2>3. j \notin directories /\ pages[j] = {} /\ row[j] = "running"
      BY <1>0, <2>1 DEF WholeOrGone, RowOfStep
    <2>4. ~Complete(j) /\ ~Complete(j)'
      BY <2>1, <2>3 DEF Complete
    <2> QED BY <2>1, <2>2, <2>3, <2>4 DEF WholeOrGone, RowOfStep
  <1>3. CASE CreateDirectory(j)
    <2>1. /\ pc[j] = "deliver" /\ UNCHANGED <<pages, orphaned, row, local>>
          /\ \/ directories' = directories \union {j} /\ pc'[j] = "pages"
             \/ directories' = directories /\ pc'[j] = "failed"
      BY <1>0, <1>3 DEF CreateDirectory, At, Goto, Typed
    <2>2. j \notin directories /\ pages[j] = {} /\ pages'[j] = {} /\ row[j] = "running"
      BY <1>0, <2>1 DEF WholeOrGone, RowOfStep
    <2>3. ~Complete(j)
      BY <2>2, EmptyIsIncomplete
    <2>4. ~Complete(j)'
      <3>1. Complete(j)' => Written(j)' = Len(Bundle(j))'
        BY DEF Complete
      <3>2. Written(j)' = Written(j) /\ Len(Bundle(j))' = Len(Bundle(j))
        BY <2>1 DEF Written, Bundle
      <3>3. Written(j) = 0
        BY <2>2, FS_EmptySet DEF Written
      <3> QED BY <3>1, <3>2, <3>3, BundleIsNotEmpty
    <2> QED BY <2>1, <2>2, <2>3, <2>4 DEF WholeOrGone, RowOfStep
  <1>4. CASE WritePage(j)
    <2>1. /\ pc[j] = "pages" /\ ~Complete(j) /\ UNCHANGED <<directories, row, local>>
          /\ \/ pc'[j] = "pages" /\ orphaned' = orphaned
             \/ pc'[j] = "clean up" /\ UNCHANGED <<pages, orphaned>>
             \/ pc'[j] = "failed" /\ orphaned' = orphaned \union {j} /\ pages' = pages
      BY <1>0, <1>4 DEF WritePage, At, Goto, Typed
    <2>3. pages' = pages => (Complete(j)' <=> Complete(j))
      BY <2>1, SameComplete
    <2>4. row[j] = "running"
      BY <1>0, <2>1 DEF RowOfStep
    <2>5. j \notin directories' => pages'[j] = {}
      BY <1>0, <2>1, <1>4 DEF WholeOrGone, WritePage
    <2> QED BY <1>0, <2>1, <2>3, <2>4, <2>5 DEF WholeOrGone, RowOfStep
  <1>5. CASE DirectoryUrl(j)
    <2>1. /\ pc[j] = "pages" /\ Complete(j) /\ UNCHANGED <<directories, pages, orphaned, row, local>>
          /\ pc'[j] \in {"record", "failed"}
      BY <1>0, <1>5 DEF DirectoryUrl, PipelineOnly, labVars, At, Goto, Typed
    <2>2. Complete(j)'
      BY <2>1, SameComplete
    <2> QED BY <1>0, <2>1, <2>2 DEF WholeOrGone, RowOfStep
  <1>6. CASE CleanUp(j)
    <2>1. /\ pc[j] = "clean up" /\ pc'[j] = "failed" /\ UNCHANGED <<row, local>>
          /\ \/ directories' = directories \ {j} /\ pages'[j] = {} /\ orphaned' = orphaned
             \/ orphaned' = orphaned \union {j} /\ UNCHANGED <<directories, pages>>
      BY <1>0, <1>6 DEF CleanUp, At, Goto, Typed
    <2>2. ~Complete(j) /\ row[j] = "running"
      BY <1>0, <2>1 DEF WholeOrGone, RowOfStep
    <2>3. ~Complete(j)'
      <3>1. CASE directories' = directories \ {j}
        BY <3>1 DEF Complete
      <3>2. CASE UNCHANGED <<directories, pages>>
        BY <2>1, <2>2, <3>2, SameComplete
      <3> QED BY <2>1, <3>1, <3>2
    <2> QED BY <1>0, <2>1, <2>2, <2>3 DEF WholeOrGone, RowOfStep
  <1>7. CASE RecordEnd(j)
    <2>1. /\ pc'[j] = "done" /\ UNCHANGED <<directories, pages, orphaned, local>>
          /\ \/ pc[j] = "record" /\ row' = [row EXCEPT ![j] = "persisted"] /\ row'[j] = "persisted"
             \/ pc[j] = "failed" /\ row' = [row EXCEPT ![j] = "failed"] /\ row'[j] = "failed"
      BY <1>0, <1>7 DEF RecordEnd, labVars, At, Goto, Typed
    <2>2. Complete(j)' <=> Complete(j)
      BY <2>1, SameComplete
    <2>3. row[j] = "running"
      BY <1>0, <2>1 DEF RowOfStep
    <2> QED BY <1>0, <2>1, <2>2, <2>3 DEF WholeOrGone, RowOfStep
  <1> QED BY <1>1, <1>2, <1>3, <1>4, <1>5, <1>6, <1>7 DEF JobStep, Prepare, Deliver

\* Nobody else's directory, pages, patch or step.
LEMMA OthersRest ==
  ASSUME Shape, NEW j \in Jobs, JobStep(j), NEW k \in Jobs, k # j
  PROVE  /\ local'[k] = local[k] /\ pc'[k] = pc[k] /\ pages'[k] = pages[k] /\ row'[k] = row[k]
         /\ k \in directories' <=> k \in directories
         /\ k \in orphaned' <=> k \in orphaned
  <1>1. Moves(j, Steps \ {"none", "done"}, Steps \ {"none", "queued"})
    BY JobStepMoves DEF Shape
  <1>2. local'[k] = local[k] /\ pc'[k] = pc[k]
    BY <1>1 DEF Moves, Shape, Typed
  <1>3. CASE UNCHANGED <<directories, pages, orphaned, row>>
    BY <1>2, <1>3
  <1>4. CASE Begin(j) \/ RecordEnd(j)
    BY <1>2, <1>4 DEF Begin, RecordEnd, labVars, Shape, Typed
  <1>5. CASE CreateDirectory(j)
    BY <1>2, <1>5 DEF CreateDirectory
  <1>6. CASE WritePage(j)
    <2>1. /\ UNCHANGED <<directories, row>>
          /\ orphaned' = orphaned \/ orphaned' = orphaned \union {j}
          /\ pages' = pages \/ \E w : pages' = [pages EXCEPT ![j] = w]
      BY <1>6 DEF WritePage
    <2> QED BY <1>2, <2>1 DEF Shape, Typed
  <1>7. CASE CleanUp(j)
    BY <1>2, <1>7 DEF CleanUp, Shape, Typed
  <1> QED BY <1>3, <1>4, <1>5, <1>6, <1>7, JobStepOfLab

\* A submission shows a new row as queued, and touches nothing else of a delivery.
LEMMA SubmitShows ==
  ASSUME Delivering, NEW n, Submit(n)
  PROVE  /\ UNCHANGED <<local, directories, pages, orphaned>>
         /\ \E j \in Jobs :
              /\ row[j] = "none" /\ row' = [row EXCEPT ![j] = "queued"]
              /\ pc[j] = "none" /\ pc' = [pc EXCEPT ![j] = "queued"]
  <1>1. PICK j \in Jobs : /\ pc[j] = "none" /\ row' = [row EXCEPT ![j] = "queued"]
                          /\ pc' = [pc EXCEPT ![j] = "queued"]
    BY NextJobIsFresh DEF Delivering
  <1>2. row[j] = "none"
    BY <1>1 DEF Delivering, RowOfStep
  <1>3. UNCHANGED <<local, directories, pages, orphaned>>
    BY DEF Submit, labVars
  <1> QED BY <1>1, <1>2, <1>3

LEMMA DeliveringStep ==
  ASSUME Delivering, [Next]_vars
  PROVE  Delivering'
  <1>0. Shape /\ Shape'
    BY TypedStep, DrawnStep DEF Delivering, Shape
  <1>1. ASSUME NEW k \in Jobs PROVE WholeOrGone(k)' /\ RowOfStep(k)'
    <2>1. ASSUME NEW n \in Notebooks, Submit(n) PROVE WholeOrGone(k)' /\ RowOfStep(k)'
      <3>1. UNCHANGED <<local, directories, pages, orphaned>>
        BY <2>1, SubmitShows
      <3>2. PICK j \in Jobs : /\ row' = [row EXCEPT ![j] = "queued"]
                              /\ pc[j] = "none" /\ pc' = [pc EXCEPT ![j] = "queued"]
        BY <2>1, SubmitShows
      <3>3. \/ pc'[k] = pc[k] /\ row'[k] = row[k]
            \/ pc[k] = "none" /\ pc'[k] = "queued" /\ row'[k] = "queued"
        BY <1>0, <3>2 DEF Shape, Typed
      <3> QED BY <3>1, <3>3, RestingDelivery
    <2>2. ASSUME NEW j \in Jobs, JobStep(j), k # j PROVE WholeOrGone(k)' /\ RowOfStep(k)'
      BY <1>0, <2>2, OthersRest, RestingDelivery
    <2>3. CASE JobStep(k)
      BY <2>3, MovingDelivery
    <2>4. CASE User \/ UNCHANGED vars
      <3>1. UNCHANGED <<pc, local, directories, pages, orphaned, row>>
        BY <2>4, UserKeeps DEF vars, labVars
      <3> QED BY <3>1, RestingDelivery
    <2> QED BY <2>1, <2>2, <2>3, <2>4, NextSplit
  <1> QED BY <1>0, <1>1 DEF Delivering

LEMMA DeliveringInvariant == Spec => []Delivering
  <1>1. Init => Delivering
    <2> SUFFICES ASSUME Init PROVE \A j \in Jobs : WholeOrGone(j) /\ RowOfStep(j)
      BY ShapeInit DEF Delivering
    <2>1. ASSUME NEW j \in Jobs
          PROVE  pc[j] = "none" /\ row[j] = "none" /\ j \notin directories /\ pages[j] = {}
      BY DEF Init
    <2> QED BY <2>1 DEF WholeOrGone, RowOfStep
  <1> QED BY <1>1, DeliveringStep, PTL DEF Spec

\* A failed job, whichever call failed, has left nothing in the lab notebook, unless
\* its clean-up failed too or was not tried, or the whole bundle was written
\* (delivery.py:35-149, local_delivery.py:32-74;
\* C-DEST-04).
THEOREM FailuresLeaveNothing == Spec => []FailedLeavesNothing
  <1>1. Delivering => FailedLeavesNothing
    BY DEF Delivering, WholeOrGone, FailedLeavesNothing
  <1> QED BY <1>1, DeliveringInvariant, PTL

----------------------------------------------------------------------------
(* The types, and what is in a directory.                                  *)

PagesOf(j) == {Bundle(j)[i] : i \in DOMAIN Bundle(j)}

OfBundle == \A j \in Jobs : pages[j] \subseteq PagesOf(j)

Counted == userSteps \in 0 .. MaxUserSteps /\ disturbed \subseteq Jobs /\ orphaned \subseteq Jobs

Filling == Delivering /\ OfBundle /\ Counted

PageNames == {"00 Metadata", "notebook", "working-tree.patch"}

LEMMA TwoAndMaybeOne ==
  ASSUME NEW S, NEW f \in Seq(S), NEW l \in Seq(S), Len(f) = 2, Len(l) \in {0, 1}
  PROVE  \E s \in Seq(S) :
           /\ s = f \o l /\ s[1] = f[1] /\ s[2] = f[2]
           /\ Len(l) = 0 => Len(s) = 2
           /\ Len(l) = 1 => Len(s) = 3 /\ s[3] = l[1]
  <1> DEFINE s == f \o l
  <1>1. /\ s \in Seq(S)
        /\ Len(s) = Len(f) + Len(l)
        /\ \A i \in 1 .. Len(f) + Len(l) : s[i] = IF i <= Len(f) THEN f[i] ELSE l[i - Len(f)]
    BY ConcatProperties
  <1> HIDE DEF s
  <1>2. ASSUME Len(l) = 1 PROVE Len(s) = 3 /\ s[1] = f[1] /\ s[2] = f[2] /\ s[3] = l[1]
    BY <1>1, <1>2
  <1>3. ASSUME Len(l) = 0 PROVE Len(s) = 2 /\ s[1] = f[1] /\ s[2] = f[2]
    BY <1>1, <1>3
  <1> QED BY <1>1, <1>2, <1>3 DEF s

LEMMA OneMore ==
  ASSUME NEW T, IsFiniteSet(T), NEW x, x \notin T
  PROVE  IsFiniteSet(T \union {x}) /\ Cardinality(T \union {x}) = Cardinality(T) + 1
  BY FS_AddElement

LEMMA RangeOfTwo ==
  ASSUME NEW S, NEW b \in Seq(S)
  PROVE  /\ DOMAIN b = 1 .. Len(b)
         /\ Len(b) = 2 => {b[i] : i \in DOMAIN b} = {b[1], b[2]}
         /\ Len(b) = 3 => {b[i] : i \in DOMAIN b} = {b[1], b[2]} \union {b[3]}
  OBVIOUS

\* A bundle has its two pages, and a third if there is a patch.
LEMMA BundleShape ==
  ASSUME NEW j
  PROVE  \E b \in Seq(PageNames) :
           /\ b = Bundle(j)
           /\ b[1] = "00 Metadata" /\ b[2] = "notebook"
           /\ Len(b) = 2 \/ (Len(b) = 3 /\ b[3] = "working-tree.patch")
  <1> DEFINE first == <<"00 Metadata", "notebook">>
             last  == IF local[j].patch THEN <<"working-tree.patch">> ELSE <<>>
  <1>1. first \in Seq(PageNames) /\ Len(first) = 2 /\ first[1] = "00 Metadata" /\ first[2] = "notebook"
    BY DEF PageNames
  <1>2. last = <<"working-tree.patch">> \/ last = <<>>
    BY Zenon
  <1>3. Bundle(j) = first \o last
    BY Zenon DEF Bundle
  <1>4. /\ <<"working-tree.patch">> \in Seq(PageNames) /\ Len(<<"working-tree.patch">>) = 1
        /\ <<"working-tree.patch">>[1] = "working-tree.patch"
        /\ <<>> \in Seq(PageNames) /\ Len(<<>>) = 0
    BY DEF PageNames
  <1> HIDE DEF first, last
  <1>5. PICK f : f = first
    OBVIOUS
  <1>6. PICK l : l = last
    OBVIOUS
  <1>8. /\ l \in Seq(PageNames) /\ f \in Seq(PageNames)
        /\ Len(l) = 0 \/ (Len(l) = 1 /\ l[1] = "working-tree.patch")
    BY <1>1, <1>2, <1>4, <1>5, <1>6
  <1>9. PICK b \in Seq(PageNames) :
          /\ b = f \o l /\ b[1] = f[1] /\ b[2] = f[2]
          /\ Len(l) = 0 => Len(b) = 2
          /\ Len(l) = 1 => Len(b) = 3 /\ b[3] = l[1]
    BY <1>1, <1>5, <1>8, TwoAndMaybeOne
  <1>10. Bundle(j) = f \o l
    BY <1>3, <1>5, <1>6
  <1> QED BY <1>1, <1>5, <1>8, <1>9, <1>10

LEMMA PagesCounted ==
  ASSUME NEW j
  PROVE  \E n \in Nat :
           /\ n = Len(Bundle(j)) /\ DOMAIN Bundle(j) = 1 .. n
           /\ IsFiniteSet(PagesOf(j)) /\ Cardinality(PagesOf(j)) = n
  <1>1. IsFiniteSet({"00 Metadata"}) /\ Cardinality({"00 Metadata"}) = 1
    BY FS_Singleton
  <1>2. "notebook" \notin {"00 Metadata"} /\ 1 + 1 = 2 /\ 2 + 1 = 3
    OBVIOUS
  <1>3. {"00 Metadata"} \union {"notebook"} = {"00 Metadata", "notebook"}
    OBVIOUS
  <1>4. IsFiniteSet({"00 Metadata", "notebook"}) /\ Cardinality({"00 Metadata", "notebook"}) = 2
    <2>1. /\ IsFiniteSet({"00 Metadata"} \union {"notebook"})
          /\ Cardinality({"00 Metadata"} \union {"notebook"}) = Cardinality({"00 Metadata"}) + 1
      BY <1>1, <1>2, OneMore
    <2> QED BY <1>1, <1>2, <1>3, <2>1
  <1>5. PICK b \in Seq(PageNames) :
           /\ b = Bundle(j)
           /\ b[1] = "00 Metadata" /\ b[2] = "notebook"
           /\ Len(b) = 2 \/ (Len(b) = 3 /\ b[3] = "working-tree.patch")
    BY BundleShape
  <1>6. PagesOf(j) = {b[i] : i \in DOMAIN b}
    BY <1>5 DEF PagesOf
  <1>7. CASE Len(b) = 2
    <2>1. {b[i] : i \in DOMAIN b} = {b[1], b[2]}
      BY <1>7, RangeOfTwo
    <2>2. PagesOf(j) = {"00 Metadata", "notebook"}
      BY <1>5, <1>6, <2>1
    <2> QED BY <1>4, <1>5, <1>7, <2>2, RangeOfTwo
  <1>8. CASE Len(b) = 3 /\ b[3] = "working-tree.patch"
    <2>0. {b[i] : i \in DOMAIN b} = {b[1], b[2]} \union {b[3]}
      BY <1>8, RangeOfTwo
    <2>1. PagesOf(j) = {"00 Metadata", "notebook"} \union {"working-tree.patch"}
      BY <1>5, <1>6, <1>8, <2>0
    <2>2. "working-tree.patch" \notin {"00 Metadata", "notebook"}
      OBVIOUS
    <2>3. IsFiniteSet(PagesOf(j)) /\ Cardinality(PagesOf(j)) = 3
      <3> DEFINE T == {"00 Metadata", "notebook"}
      <3> HIDE DEF T
      <3>1. IsFiniteSet(T) /\ Cardinality(T) = 2 /\ "working-tree.patch" \notin T
        BY <1>4, <2>2 DEF T
      <3>2. /\ IsFiniteSet(T \union {"working-tree.patch"})
            /\ Cardinality(T \union {"working-tree.patch"}) = Cardinality(T) + 1
        BY <3>1, OneMore
      <3> QED BY <1>2, <2>1, <3>1, <3>2 DEF T
    <2> QED BY <1>5, <1>8, <2>3, RangeOfTwo
  <1> QED BY <1>5, <1>7, <1>8

\* As long as a bundle is not complete it has a next page.
LEMMA NextPage ==
  ASSUME Filling, NEW j \in Jobs, j \in directories, ~Complete(j)
  PROVE  Bundle(j)[Written(j) + 1] \in PagesOf(j)
  <1>1. pages[j] \subseteq PagesOf(j) /\ Typed
    BY DEF Filling, OfBundle, Delivering, Shape
  <1>2. PICK n \in Nat : /\ n = Len(Bundle(j)) /\ DOMAIN Bundle(j) = 1 .. n
                         /\ IsFiniteSet(PagesOf(j)) /\ Cardinality(PagesOf(j)) = n
    BY <1>1, PagesCounted
  <1>3. Written(j) \in Nat /\ Written(j) <= n
    BY <1>1, <1>2, FS_Subset, FS_CardinalityType DEF Written
  <1>4. Written(j) # n
    BY <1>2 DEF Complete
  <1>5. Written(j) + 1 \in 1 .. n
    BY <1>3, <1>4
  <1> QED BY <1>2, <1>5 DEF PagesOf

\* The pages of a job come from its bundle, and are gone while the bundle may change.
LEMMA OwnPages ==
  ASSUME Filling, NEW j \in Jobs, JobStep(j)
  PROVE  pages'[j] \subseteq PagesOf(j)'
  <1>0. Typed /\ WholeOrGone(j) /\ pages[j] \subseteq PagesOf(j)
    BY DEF Filling, OfBundle, Delivering, Shape
  <1>1. CASE local'[j] = local[j] /\ pages'[j] = pages[j]
    BY <1>0, <1>1 DEF PagesOf, Bundle
  <1>2. CASE pages'[j] = {}
    BY <1>2
  <1>3. CASE WritePage(j)
    <2>1. /\ pc[j] = "pages" /\ ~Complete(j) /\ local' = local
          /\ \/ pages' = pages
             \/ pages' = [pages EXCEPT ![j] = @ \union {Bundle(j)[Written(j) + 1]}]
      BY <1>3 DEF WritePage, At
    <2>2. Bundle(j)[Written(j) + 1] \in PagesOf(j)
      BY <1>0, <2>1, NextPage DEF WholeOrGone
    <2>3. PagesOf(j)' = PagesOf(j)
      BY <2>1 DEF PagesOf, Bundle
    <2>4. pages'[j] = pages[j] \/ pages'[j] = pages[j] \union {Bundle(j)[Written(j) + 1]}
      BY <1>0, <2>1 DEF Typed
    <2> QED BY <1>0, <2>2, <2>3, <2>4
  <1>4. CASE CleanUp(j)
    <2>1. local' = local
          /\ (pages' = pages \/ pages' = [pages EXCEPT ![j] = {}])
      BY <1>4 DEF CleanUp
    <2>2. pages'[j] = pages[j] \/ pages'[j] = {}
      BY <1>0, <2>1 DEF Typed
    <2> QED BY <1>1, <1>2, <2>1, <2>2
  <1>5. CASE Begin(j) \/ CreateDirectory(j) \/ RecordEnd(j) \/ DirectoryUrl(j)
    BY <1>1, <1>5 DEF Begin, CreateDirectory, RecordEnd, DirectoryUrl, PipelineOnly, labVars
  <1>6. CASE \/ ResolveRepo(j) \/ Capture(j) \/ RejectUnrelatedStaged(j) \/ Stage(j)
             \/ AnythingStaged(j) \/ Commit(j) \/ Build(j)
    <2>1. /\ pages' = pages
          /\ pc[j] \in {"resolve", "capture", "check", "add", "status", "commit", "build"}
      BY <1>6, PipelineOnlyKeeps
         DEF PipelineOnly, labVars, ResolveRepo, Capture, RejectUnrelatedStaged, Stage,
             AnythingStaged, Commit, Build, At
    <2>2. pages[j] = {}
      BY <1>0, <2>1 DEF WholeOrGone
    <2> QED BY <1>2, <2>1, <2>2
  <1> QED BY <1>3, <1>4, <1>5, <1>6 DEF JobStep, Prepare, Deliver

LEMMA OfBundleStep ==
  ASSUME Filling, [Next]_vars
  PROVE  OfBundle'
  <1>0. Shape
    BY DEF Filling, Delivering
  <1> SUFFICES ASSUME NEW k \in Jobs
               PROVE  pages'[k] \subseteq PagesOf(k)'
    BY DEF OfBundle
  <1>1. ASSUME local'[k] = local[k], pages'[k] = pages[k]
        PROVE  pages'[k] \subseteq PagesOf(k)'
    BY <1>1 DEF Filling, OfBundle, PagesOf, Bundle
  <1>2. ASSUME NEW n \in Notebooks, Submit(n)
        PROVE  local' = local /\ pages' = pages
    BY <1>2 DEF Submit, labVars
  <1>3. ASSUME NEW j \in Jobs, JobStep(j), j # k
        PROVE  local'[k] = local[k] /\ pages'[k] = pages[k]
    BY <1>0, <1>3, OthersRest
  <1>4. CASE User \/ UNCHANGED vars
    BY <1>1, <1>4, UserKeeps DEF vars, labVars
  <1> QED BY <1>1, <1>2, <1>3, <1>4, OwnPages, NextSplit

LEMMA CountedStep ==
  ASSUME Counted, [Next]_vars
  PROVE  Counted'
  <1>1. ASSUME NEW n \in Notebooks, Submit(n) PROVE Counted'
    BY <1>1 DEF Submit, Counted, labVars
  <1>2. ASSUME NEW j \in Jobs, JobStep(j) PROVE Counted'
    <2>1. /\ userSteps' = userSteps
          /\ disturbed' = disturbed \/ GitWrittenBy(j)
          /\ orphaned' = orphaned \/ orphaned' = orphaned \union {j}
      BY <1>2, PipelineOnlyKeeps
         DEF JobStep, Prepare, Deliver, PipelineOnly, labVars, Begin, Stage, Commit,
             CreateDirectory, WritePage, CleanUp, RecordEnd
    <2>2. disturbed' \subseteq Jobs
      BY <2>1 DEF GitWrittenBy, Staging, Counted
    <2> QED BY <2>1, <2>2 DEF Counted
  <1>3. CASE User
    <2>1. /\ userSteps < MaxUserSteps /\ userSteps' = userSteps + 1
          /\ disturbed' = disturbed \/ GitWrittenBy(Nobody)
          /\ orphaned' = orphaned
      BY <1>3, UserKeeps DEF User, UserCommits, Edit, UserStages, UserStep
    <2>2. disturbed' \subseteq Jobs
      BY <2>1 DEF GitWrittenBy, Staging, Counted
    <2>3. userSteps' \in 0 .. MaxUserSteps
      BY <2>1, PipelineAssumption DEF Counted
    <2> QED BY <2>1, <2>2, <2>3 DEF Counted
  <1>4. CASE UNCHANGED vars
    BY <1>4 DEF vars, labVars, Counted
  <1> QED BY <1>1, <1>2, <1>3, <1>4, NextSplit

\* The types of the pipeline's state; and every page in the lab notebook is one of its
\* bundle's and in a directory, at whichever call a delivery fails (delivery.py:35-149).
THEOREM PipelineTypeCorrect == Spec => []TypeOK
  <1>1. Init => OfBundle /\ Counted
    BY PipelineAssumption DEF Init, OfBundle, Counted
  <1>2. Filling /\ [Next]_vars => OfBundle' /\ Counted'
    BY OfBundleStep, CountedStep DEF Filling
  <1>3. Filling => TypeOK
    <2> SUFFICES ASSUME Filling PROVE TypeOK
      OBVIOUS
    <2>1. Typed /\ Counted
      BY DEF Filling, Delivering, Shape
    <2>2. files \in [Paths -> Nat] /\ index \in [Paths -> Nat]
          /\ commits \in Seq([tree : [Paths -> Nat], by : Jobs \union {Nobody}])
      BY <2>1 DEF Typed, Trees, CommitSet
    <2>3. \A j \in Jobs : request[j] # NoRequest =>
            request[j] \in [notebook : Notebooks, asked : SUBSET Paths]
      BY <2>1 DEF Typed, Requests
    <2>4. pc \in [Jobs -> Steps]
          /\ local \in [Jobs -> [head : Nat, dirty : BOOLEAN, base : Nat, tracked : Nat, commit : Nat,
                                 created : BOOLEAN, patch : BOOLEAN]]
      BY <2>1 DEF Typed, Locals
    <2>5. /\ directories \subseteq Jobs
          /\ \A j \in Jobs : pages[j] \subseteq {Bundle(j)[i] : i \in DOMAIN Bundle(j)}
          /\ \A j \in Jobs \ directories : pages[j] = {}
      BY <2>1 DEF Typed, Filling, Delivering, WholeOrGone, OfBundle, PagesOf
    <2> QED BY <2>1, <2>2, <2>3, <2>4, <2>5 DEF TypeOK, Counted
  <1>4. Spec => [](OfBundle /\ Counted)
    <2>1. Delivering /\ (OfBundle /\ Counted) /\ [Next]_vars => (OfBundle /\ Counted)'
      BY <1>2 DEF Filling
    <2> QED BY <1>1, <2>1, DeliveringInvariant, PTL DEF Spec
  <1> QED BY <1>3, <1>4, DeliveringInvariant, PTL DEF Filling

\* For the reader of the Activity list and the lab notebook the many steps of a
\* delivery are the promised log's: one bundle appears at once, while its row says
\* running, and a row says persisted only after a bundle (SnapshotLog).
THEOREM PipelineImplementsLog == Spec => ImplementsLog
  <1> DEFINE delivered == {j \in Jobs : Complete(j)}
  <1>1. Init => Log!LogInit
    <2> SUFFICES ASSUME Init PROVE Log!LogInit
      OBVIOUS
    <2>1. \A j \in Jobs : ~Complete(j)
      BY DEF Init, Complete
    <2> QED BY <2>1 DEF Init, Log!LogInit
  <1>2. Delivering /\ [Next]_vars => [Log!LogNext]_(Log!logVars)
    <2> SUFFICES ASSUME Delivering, [Next]_vars
                 PROVE  [Log!LogNext]_(Log!logVars)
      OBVIOUS
    <2>0. Shape /\ Typed
      BY DEF Delivering, Shape
    <2>1. ASSUME UNCHANGED <<local, directories, pages>>
          PROVE  delivered' = delivered
      BY <2>1, SameComplete
    <2>2. ASSUME NEW n \in Notebooks, Submit(n)
          PROVE  Log!LogNext
      <3>1. delivered' = delivered
        BY <2>1, <2>2, SubmitShows
      <3>2. PICK j \in Jobs : row[j] = "none" /\ row' = [row EXCEPT ![j] = "queued"]
        BY <2>2, SubmitShows
      <3>3. Log!Queue(j)
        BY <3>1, <3>2 DEF Log!Queue, Log!Become
      <3> QED BY <3>3 DEF Log!LogNext
    <2>3. ASSUME NEW j \in Jobs, JobStep(j)
          PROVE  Log!LogNext \/ UNCHANGED Log!logVars
      <3>1. \A k \in Jobs : k # j => (Complete(k)' <=> Complete(k))
        BY <2>0, <2>3, OthersRest, SameComplete
      <3>2. (Complete(j)' <=> Complete(j)) => delivered' = delivered
        BY <3>1
      <3>3. ~Complete(j) /\ Complete(j)' => delivered' = delivered \union {j} /\ j \notin delivered
        BY <3>1
      <3>4. CASE row' = row /\ (Complete(j)' <=> Complete(j))
        BY <3>2, <3>4 DEF Log!logVars
      <3>5. CASE row' = row /\ row[j] = "running" /\ ~Complete(j) /\ Complete(j)'
        <4>1. Log!Deliver(j)
          BY <3>3, <3>5 DEF Log!Deliver
        <4> QED BY <4>1 DEF Log!LogNext
      <3>6. CASE /\ row' = [row EXCEPT ![j] = "running"] /\ row[j] = "queued"
                 /\ Complete(j)' <=> Complete(j)
        <4>1. Log!Run(j)
          BY <3>2, <3>6 DEF Log!Run, Log!Become
        <4> QED BY <4>1 DEF Log!LogNext
      <3>7. CASE /\ row' = [row EXCEPT ![j] = "persisted"] /\ row[j] = "running"
                 /\ Complete(j) /\ Complete(j)'
        <4>1. Log!Persist(j)
          BY <3>2, <3>7 DEF Log!Persist, Log!Become
        <4> QED BY <4>1 DEF Log!LogNext
      <3>8. CASE /\ row' = [row EXCEPT ![j] = "failed"] /\ row[j] = "running"
                 /\ Complete(j)' <=> Complete(j)
        <4>1. Log!Fail(j)
          BY <3>2, <3>8 DEF Log!Fail, Log!Become, Log!Unfinished
        <4> QED BY <4>1 DEF Log!LogNext
      <3> QED BY <2>3, <3>4, <3>5, <3>6, <3>7, <3>8, MovingDelivery
    <2>4. CASE User \/ UNCHANGED vars
      <3>1. UNCHANGED <<local, directories, pages, row>>
        BY <2>4, UserKeeps DEF vars, labVars
      <3> QED BY <2>1, <3>1 DEF Log!logVars
    <2> QED BY <2>2, <2>3, <2>4, NextSplit
  <1> QED BY <1>1, <1>2, DeliveringInvariant, PTL DEF Spec, ImplementsLog, Log!LogSpec

----------------------------------------------------------------------------
(* The pages: what they show of a notebook's changes since HEAD.           *)

\* What stands for no cell, no diff and no page is neither a record nor a sequence.
NothingIsNoValue == Nothing # [x \in DOMAIN Nothing |-> Nothing[x]]

\* A set of numbers up to a bound has a last one.
LEMMA LastOf ==
  ASSUME NEW n \in Nat, NEW S, S \subseteq 1 .. n, S # {}
  PROVE  \E k \in S : \A l \in S : l <= k
  <1> DEFINE back == {n - k : k \in S}
  <1>1. back \subseteq Nat /\ back # {}
    <2>1. \A k \in S : n - k \in Nat
      OBVIOUS
    <2>2. PICK k : k \in S
      OBVIOUS
    <2>3. n - k \in back
      BY <2>2
    <2> QED BY <2>1, <2>3
  <1> HIDE DEF back
  <1>2. PICK before : before = OpToRel(<, Nat)
    OBVIOUS
  <1>3. IsWellFoundedOn(before, Nat)
    BY <1>2, NatLessThanWellFounded, Zenon
  <1>4. PICK m \in back : \A l \in back : ~(<<l, m>> \in before)
    BY <1>1, <1>3, WFMin, Zenon
  <1>5. \A l \in back : ~(l < m)
    BY <1>1, <1>2, <1>4, Zenon DEF OpToRel
  <1>6. PICK k \in S : m = n - k
    BY <1>4 DEF back
  <1>7. \A l \in S : n - l \in back
    BY DEF back
  <1>8. \A l \in S : l <= k
    BY <1>5, <1>6, <1>7
  <1> QED BY <1>8

\* What is kept are the cells up to the last one that is not empty.
LEMMA KeptCells ==
  ASSUME NEW cells, NEW n \in Nat, DOMAIN cells = 1 .. n, Len(cells) = n
  PROVE  /\ Kept(cells) \in 0 .. n
         /\ Kept(cells) > 0 => ~IsEmptyCell(cells[Kept(cells)])
         /\ \A i \in Kept(cells) + 1 .. n : IsEmptyCell(cells[i])
  <1> DEFINE full == {i \in 1 .. n : ~IsEmptyCell(cells[i])}
             IsLast(k) == /\ k > 0 => ~IsEmptyCell(cells[k])
                          /\ \A i \in k + 1 .. n : IsEmptyCell(cells[i])
  <1>1. \E k \in 0 .. n : IsLast(k)
    <2>1. CASE full = {}
      BY <2>1
    <2>2. CASE full # {}
      <3>1. PICK k \in full : \A l \in full : l <= k
        BY <2>2, LastOf
      <3>2. k \in 0 .. n /\ ~IsEmptyCell(cells[k])
        BY <3>1
      <3>3. ASSUME NEW i \in k + 1 .. n PROVE IsEmptyCell(cells[i])
        <4>1. i \in 1 .. n /\ ~(i <= k)
          BY <3>1
        <4> QED BY <3>1, <4>1
      <3> QED BY <3>2, <3>3
    <2> QED BY <2>1, <2>2
  <1>2. Kept(cells) = CHOOSE k \in 0 .. n : IsLast(k)
    BY DEF Kept
  <1> HIDE DEF IsLast
  <1>3. Kept(cells) \in 0 .. n /\ IsLast(Kept(cells))
    BY <1>1, <1>2
  <1> QED BY <1>3 DEF IsLast

LEMMA ComparedCells ==
  ASSUME NEW notebook \in SampleNotebooks
  PROVE  /\ \E n \in Nat : DOMAIN notebook = 1 .. n /\ Len(notebook) = n /\ Len(Compared(notebook)) \in 0 .. n
         /\ DOMAIN Compared(notebook) = 1 .. Len(Compared(notebook))
         /\ \A i \in DOMAIN notebook : notebook[i] \in SampleCells
         /\ \A i \in DOMAIN Compared(notebook) : Compared(notebook)[i] = NormalizedCell(notebook[i])
         /\ \A i \in Nat \ {0} :
              i \in DOMAIN Compared(notebook)
              <=> \E k \in i .. Len(notebook) : ~IsEmptyCell(NormalizedCell(notebook[k]))
  <1>1. PICK n \in 0 .. MaxCells : notebook \in [1 .. n -> SampleCells]
    BY DEF SampleNotebooks
  <1>2. n \in Nat
    BY <1>1, PageAssumption
  <1> DEFINE cells == [i \in DOMAIN notebook |-> NormalizedCell(notebook[i])]
  <1>3. DOMAIN notebook = 1 .. n /\ Len(notebook) = n /\ \A i \in DOMAIN notebook : notebook[i] \in SampleCells
    <2>1. notebook \in Seq(SampleCells)
      BY <1>1, <1>2
    <2> QED BY <1>1, <1>2, <2>1
  <1>4. cells \in Seq({NormalizedCell(c) : c \in SampleCells})
    BY <1>2, <1>3
  <1>5. DOMAIN cells = 1 .. n /\ Len(cells) = n /\ \A i \in 1 .. n : cells[i] = NormalizedCell(notebook[i])
    BY <1>2, <1>3, <1>4
  <1>6. Compared(notebook) = SubSeq(cells, 1, Kept(cells))
    BY DEF Compared, WithoutTrailingEmptyCells
  <1> HIDE DEF cells
  <1>7. /\ Kept(cells) \in 0 .. n
        /\ Kept(cells) > 0 => ~IsEmptyCell(cells[Kept(cells)])
        /\ \A i \in Kept(cells) + 1 .. n : IsEmptyCell(cells[i])
    BY <1>2, <1>5, KeptCells
  <1>8. PICK last : last = Kept(cells)
    OBVIOUS
  <1>9. /\ Len(Compared(notebook)) = last /\ DOMAIN Compared(notebook) = 1 .. last
        /\ \A i \in 1 .. last : Compared(notebook)[i] = cells[i]
    BY <1>4, <1>5, <1>6, <1>7, <1>8, SubSeqProperties
  <1>10. ASSUME NEW i \in Nat \ {0}
         PROVE  i \in DOMAIN Compared(notebook)
                <=> \E k \in i .. Len(notebook) : ~IsEmptyCell(NormalizedCell(notebook[k]))
    <2>1. CASE i <= last
      <3>1. last \in i .. n /\ ~IsEmptyCell(NormalizedCell(notebook[last]))
        BY <1>5, <1>7, <1>8, <2>1
      <3> QED BY <1>3, <1>9, <2>1, <3>1
    <2>2. CASE ~(i <= last)
      <3>1. \A k \in i .. n : k \in last + 1 .. n /\ k \in 1 .. n
        BY <1>2, <1>7, <1>8, <2>2
      <3>2. \A k \in i .. n : IsEmptyCell(NormalizedCell(notebook[k]))
        BY <1>5, <1>7, <1>8, <3>1
      <3> QED BY <1>3, <1>7, <1>8, <1>9, <2>2, <3>2
    <2> QED BY <2>1, <2>2, <1>2, <1>7, <1>8
  <1> QED BY <1>2, <1>3, <1>5, <1>7, <1>8, <1>9, <1>10

\* The diff pairs what a reader compares.
LEMMA ReadIsCompared ==
  ASSUME NothingIsNoValue, NEW notebook \in SampleNotebooks, NEW i \in Nat \ {0}
  PROVE  /\ CellAt(Compared(notebook), i) = ReadAt(notebook, i)
         /\ i \in DOMAIN Compared(notebook) <=> ReadAt(notebook, i) # Nothing
         /\ i \in DOMAIN Compared(notebook) =>
              i \in DOMAIN notebook /\ ReadAt(notebook, i) = NormalizedCell(notebook[i])
  <1>1. NormalizedCell(notebook[i]) # Nothing
    BY DEF NormalizedCell, NothingIsNoValue
  <1>2. CASE i \in DOMAIN Compared(notebook)
    <2>1. /\ Compared(notebook)[i] = NormalizedCell(notebook[i])
          /\ ReadAt(notebook, i) = NormalizedCell(notebook[i])
      BY <1>2, ComparedCells DEF ReadAt
    <2>2. i \in DOMAIN notebook
      BY <1>2, ComparedCells
    <2> QED BY <1>1, <1>2, <2>1, <2>2 DEF CellAt
  <1>3. CASE i \notin DOMAIN Compared(notebook)
    BY <1>3, ComparedCells DEF ReadAt, CellAt
  <1> QED BY <1>2, <1>3

\* Cells that compare as the same have the same lines.
LEMMA SameLines ==
  ASSUME NEW b, NEW a, ComparisonKey(b) = ComparisonKey(a)
  PROVE  a.source = b.source /\ OutputsLines(b.outputs) = OutputsLines(a.outputs)
  <1>1. /\ a.source = b.source
        /\ [i \in DOMAIN b.outputs |-> OutputKey(b.outputs[i])]
             = [i \in DOMAIN a.outputs |-> OutputKey(a.outputs[i])]
    BY DEF ComparisonKey
  <1>2. /\ DOMAIN b.outputs = DOMAIN a.outputs
        /\ \A i \in DOMAIN b.outputs : OutputKey(b.outputs[i]) = OutputKey(a.outputs[i])
    <2> DEFINE was == [i \in DOMAIN b.outputs |-> OutputKey(b.outputs[i])]
               is  == [i \in DOMAIN a.outputs |-> OutputKey(a.outputs[i])]
    <2>1. DOMAIN was = DOMAIN b.outputs /\ \A i \in DOMAIN b.outputs : was[i] = OutputKey(b.outputs[i])
      OBVIOUS
    <2>2. DOMAIN is = DOMAIN a.outputs /\ \A i \in DOMAIN a.outputs : is[i] = OutputKey(a.outputs[i])
      OBVIOUS
    <2>3. was = is
      BY <1>1
    <2> HIDE DEF was, is
    <2> QED BY <2>1, <2>2, <2>3
  <1>3. ASSUME NEW i \in DOMAIN b.outputs
        PROVE  OutputLines(b.outputs[i]) = OutputLines(a.outputs[i])
    BY <1>2 DEF OutputKey, OutputLines
  <1>4. [i \in DOMAIN b.outputs |-> OutputLines(b.outputs[i])]
          = [i \in DOMAIN a.outputs |-> OutputLines(a.outputs[i])]
    BY <1>2, <1>3
  <1> QED BY <1>1, <1>4 DEF OutputsLines

\* The entries of the diff, cell by cell.
LEMMA DiffEntries ==
  ASSUME NothingIsNoValue, NEW before \in SampleNotebooks, NEW after \in SampleNotebooks,
         NEW diff, diff = RenderNotebookDiff(before, after), NEW i \in Nat \ {0}
  PROVE  /\ diff = Nothing <=> Alike(before, after)
         /\ diff # Nothing =>
              /\ Len(diff) \in Nat /\ DOMAIN diff = 1 .. Len(diff)
              /\ i \in DOMAIN diff <=> ReadAt(before, i) # Nothing \/ ReadAt(after, i) # Nothing
              /\ i \in DOMAIN diff => diff[i] = Entry(ReadAt(before, i), ReadAt(after, i))
  <1> DEFINE was == Compared(before)
             is  == Compared(after)
             entries == [k \in DOMAIN LongerOf(was, is) |-> Entry(CellAt(was, k), CellAt(is, k))]
  <1>1. /\ Len(was) \in Nat /\ DOMAIN was = 1 .. Len(was)
        /\ Len(is) \in Nat /\ DOMAIN is = 1 .. Len(is)
    BY ComparedCells
  <1>2. \E n \in Nat : /\ DOMAIN LongerOf(was, is) = 1 .. n
                       /\ 1 .. n = DOMAIN was \union DOMAIN is
    <2> HIDE DEF was, is
    <2> QED BY <1>1 DEF LongerOf
  <1>3. PICK n \in Nat : DOMAIN entries = 1 .. n /\ 1 .. n = DOMAIN was \union DOMAIN is
    BY <1>2
  <1>4. entries # Nothing
    BY DEF NothingIsNoValue
  <1>5. Len(entries) = n
    BY <1>3
  <1>6. ASSUME NEW k \in Nat \ {0}
        PROVE  /\ k \in DOMAIN entries <=> ReadAt(before, k) # Nothing \/ ReadAt(after, k) # Nothing
               /\ k \in DOMAIN entries => entries[k] = Entry(ReadAt(before, k), ReadAt(after, k))
    <2>1. /\ CellAt(was, k) = ReadAt(before, k) /\ CellAt(is, k) = ReadAt(after, k)
          /\ k \in DOMAIN was <=> ReadAt(before, k) # Nothing
          /\ k \in DOMAIN is <=> ReadAt(after, k) # Nothing
      BY ReadIsCompared
    <2> HIDE DEF was, is
    <2> QED BY <1>3, <2>1
  <1>7. diff = IF \A k \in DOMAIN entries : entries[k].status = "unchanged" THEN Nothing ELSE entries
    BY DEF RenderNotebookDiff
  <1> HIDE DEF entries, was, is
  <1>8. diff = Nothing <=> \A k \in 1 .. n : entries[k].status = "unchanged"
    BY <1>3, <1>4, <1>7
  <1>9. ASSUME NEW k \in 1 .. n
        PROVE  entries[k].status = "unchanged" <=> SameAt(before, after, k)
    <2>1. PICK b : b = ReadAt(before, k)
      OBVIOUS
    <2>2. PICK a : a = ReadAt(after, k)
      OBVIOUS
    <2>3. b # Nothing \/ a # Nothing
      BY <1>3, <1>6, <2>1, <2>2
    <2>4. entries[k].status = CellStatus(b, a)
      <3>1. k \in Nat \ {0} /\ k \in DOMAIN entries
        BY <1>3
      <3>2. entries[k] = Entry(b, a)
        BY <1>6, <2>1, <2>2, <3>1
      <3> QED BY <3>2 DEF Entry
    <2>5. SameAt(before, after, k)
            <=> IF b = Nothing \/ a = Nothing THEN b = a ELSE ComparisonKey(b) = ComparisonKey(a)
      BY <2>1, <2>2 DEF SameAt
    <2> QED BY <2>3, <2>4, <2>5 DEF CellStatus
  <1>10. ASSUME NEW k \in Nat \ {0}, k \notin 1 .. n
         PROVE  SameAt(before, after, k)
    BY <1>3, <1>6, <1>10 DEF SameAt
  <1>11. Alike(before, after) <=> \A k \in 1 .. n : SameAt(before, after, k)
    <2>1. PICK N \in Nat, M \in Nat : DOMAIN before = 1 .. N /\ DOMAIN after = 1 .. M
      BY ComparedCells
    <2>2. 1 .. n \subseteq DOMAIN before \union DOMAIN after
      <3>1. ASSUME NEW k \in 1 .. n PROVE k \in DOMAIN before \union DOMAIN after
        <4>1. k \in Nat \ {0} /\ (k \in DOMAIN was \/ k \in DOMAIN is)
          BY <1>3
        <4>2. k \in DOMAIN was => k \in DOMAIN before
          BY <4>1, ReadIsCompared DEF was
        <4>3. k \in DOMAIN is => k \in DOMAIN after
          BY <4>1, ReadIsCompared DEF is
        <4> QED BY <4>1, <4>2, <4>3
      <3> QED BY <3>1
    <2>3. \A k \in DOMAIN before \union DOMAIN after : k \in Nat \ {0}
      BY <2>1
    <2> QED BY <1>10, <2>2, <2>3 DEF Alike
  <1>12. diff = Nothing <=> Alike(before, after)
    BY <1>8, <1>9, <1>11
  <1>13. diff # Nothing => diff = entries
    BY <1>7
  <1> QED BY <1>3, <1>5, <1>6, <1>12, <1>13

\* The section of a cell, on the page or in the diff that stands alone.
LEMMA Sections ==
  ASSUME NothingIsNoValue, NEW before \in SampleNotebooks, NEW after \in SampleNotebooks,
         NEW diff, diff = RenderNotebookDiff(before, after), diff # Nothing,
         NEW i \in DOMAIN before \union DOMAIN after,
         NEW b, b = ReadAt(before, i), NEW a, a = ReadAt(after, i),
         NEW page, page = RenderNotebookHtml(after, diff),
         NEW alone, alone = [k \in DOMAIN diff |-> diff[k].html],
         b # Nothing \/ a # Nothing
  PROVE  /\ alone[i] = Entry(b, a).html
         /\ \/ page[i] = Entry(b, a).html
            \/ page[i] = RenderCell(after[i], Entry(b, a)) /\ a # Nothing /\ a = NormalizedCell(after[i])
  <1>1. PICK N \in Nat, M \in Nat : /\ DOMAIN before = 1 .. N /\ DOMAIN after = 1 .. M /\ Len(after) = M
    BY ComparedCells
  <1>2. i \in Nat \ {0}
    BY <1>1
  <1>3. i \in DOMAIN diff /\ diff[i] = Entry(b, a) /\ Len(diff) \in Nat /\ DOMAIN diff = 1 .. Len(diff)
    BY <1>2, DiffEntries
  <1>4. PICK entry : entry = Entry(b, a)
    OBVIOUS
  <1>5. entry # Nothing
    BY <1>4 DEF Entry, NothingIsNoValue
  <1>6. CellAt(diff, i) = entry
    BY <1>3, <1>4 DEF CellAt
  <1>7. i \in DOMAIN LongerOf(after, diff)
    BY <1>1, <1>2, <1>3 DEF LongerOf
  <1>8. page[i] =
          IF i \notin DOMAIN after \/ entry.status = "removed"
          THEN entry.html ELSE RenderCell(after[i], entry)
    BY <1>5, <1>6, <1>7 DEF RenderNotebookHtml
  <1>9. alone[i] = entry.html
    BY <1>3, <1>4
  <1>10. a = Nothing => entry.status = "removed"
    BY <1>4 DEF Entry, CellStatus
  <1>11. a # Nothing => a = NormalizedCell(after[i]) /\ i \in DOMAIN after
    BY <1>2, ReadIsCompared
  <1> QED BY <1>3, <1>4, <1>8, <1>9, <1>10, <1>11

\* Wherever the lines of a cell or of its outputs differ, its section has their diff.
LEMMA ChangesAreShown ==
  ASSUME NothingIsNoValue, NEW before \in SampleNotebooks, NEW after \in SampleNotebooks,
         NEW include \in BOOLEAN,
         NEW diff, diff = RenderNotebookDiff(before, after), diff # Nothing,
         NEW shown, shown = IF include THEN RenderNotebookHtml(after, diff)
                            ELSE [k \in DOMAIN diff |-> diff[k].html]
  PROVE  ChangesShown(before, after, shown, include)
  <1> SUFFICES ASSUME NEW i \in DOMAIN before \union DOMAIN after,
                      NEW b, b = ReadAt(before, i), NEW a, a = ReadAt(after, i)
               PROVE  /\ SourceLines(b) # SourceLines(a) =>
                           shown[i].source = LineDiff(SourceLines(b), SourceLines(a))
                      /\ b # Nothing /\ SameAt(before, after, i) => shown[i].source = a.source
                      /\ b # Nothing /\ a # Nothing =>
                           LET old == OutputsLines(b.outputs)
                               new == OutputsLines(a.outputs) IN
                           old # new /\ (include => a.cell_type = "code") =>
                             shown[i].output_diff = LineDiff(old, new)
    BY DEF ChangesShown
  <1>1. b # Nothing \/ a # Nothing =>
          \/ shown[i] = Entry(b, a).html
          \/ /\ include /\ shown[i] = RenderCell(after[i], Entry(b, a))
             /\ a # Nothing /\ a = NormalizedCell(after[i])
    <2> SUFFICES ASSUME b # Nothing \/ a # Nothing
                 PROVE  \/ shown[i] = Entry(b, a).html
                        \/ /\ include /\ shown[i] = RenderCell(after[i], Entry(b, a))
                           /\ a # Nothing /\ a = NormalizedCell(after[i])
      OBVIOUS
    <2>1. PICK page : page = RenderNotebookHtml(after, diff)
      OBVIOUS
    <2>2. PICK alone : alone = [k \in DOMAIN diff |-> diff[k].html]
      OBVIOUS
    <2>3. /\ alone[i] = Entry(b, a).html
          /\ \/ page[i] = Entry(b, a).html
             \/ page[i] = RenderCell(after[i], Entry(b, a)) /\ a # Nothing /\ a = NormalizedCell(after[i])
      BY <2>1, <2>2, Sections
    <2>4. shown = IF include THEN page ELSE alone
      BY <2>1, <2>2
    <2> QED BY <2>3, <2>4
  <1>2. PICK entry : entry = Entry(b, a)
    OBVIOUS
  <1>3. PICK was : was = SourceLines(b)
    OBVIOUS
  <1>4. PICK is : is = SourceLines(a)
    OBVIOUS
  <1>5. /\ entry.status = CellStatus(b, a)
        /\ entry.status # "unchanged" => entry.source_diff = LineDiff(was, is)
        /\ entry.status = "changed" => entry.output_diff = OutputDiff(b, a)
        /\ entry.html.source = IF entry.status = "unchanged"
                               THEN (IF a # Nothing THEN a ELSE b).source ELSE LineDiff(was, is)
        /\ entry.html.output_diff = entry.output_diff
    BY <1>2, <1>3, <1>4 DEF Entry
  <1>6. ASSUME b # Nothing, a # Nothing
        PROVE  /\ entry.status = IF ComparisonKey(b) # ComparisonKey(a) THEN "changed" ELSE "unchanged"
               /\ SameAt(before, after, i) <=> ComparisonKey(b) = ComparisonKey(a)
    BY <1>5, <1>6 DEF CellStatus, SameAt
  <1>7. ASSUME b = Nothing, a # Nothing PROVE entry.status = "added"
    BY <1>5, <1>7 DEF CellStatus
  <1>8. ASSUME b # Nothing, a = Nothing PROVE entry.status = "removed" /\ ~SameAt(before, after, i)
    BY <1>5, <1>8 DEF CellStatus, SameAt
  <1>9. ASSUME was # is
        PROVE  shown[i].source = LineDiff(was, is)
    <2>1. b # Nothing \/ a # Nothing
      BY <1>3, <1>4, <1>9
    <2>2. entry.status # "unchanged"
      <3>1. ASSUME b # Nothing, a # Nothing, ComparisonKey(b) = ComparisonKey(a) PROVE FALSE
        <4>1. a.source = b.source
          BY <3>1, SameLines
        <4> QED BY <1>3, <1>4, <1>9, <3>1, <4>1 DEF SourceLines
      <3> QED BY <1>6, <1>7, <1>8, <2>1, <3>1
    <2>3. CASE shown[i] = entry.html
      BY <1>5, <2>2, <2>3
    <2>4. CASE shown[i] = RenderCell(after[i], entry) /\ a # Nothing
      <3>1. entry.status \in {"added", "changed"}
        BY <1>6, <1>7, <2>2, <2>4
      <3>2. entry # Nothing
        BY <1>2 DEF Entry, NothingIsNoValue
      <3>3. shown[i].source = entry.source_diff
        BY <2>4, <3>1, <3>2 DEF RenderCell, SourceShown
      <3> QED BY <1>5, <2>2, <3>3
    <2> QED BY <1>1, <1>2, <2>1, <2>3, <2>4
  <1>10. ASSUME b # Nothing, SameAt(before, after, i)
         PROVE  shown[i].source = a.source
    <2>1. a # Nothing /\ entry.status = "unchanged"
      BY <1>6, <1>8, <1>10
    <2>2. CASE shown[i] = entry.html
      BY <1>5, <2>1, <2>2
    <2>3. CASE shown[i] = RenderCell(after[i], entry) /\ a = NormalizedCell(after[i])
      <3>1. shown[i].source = after[i].source
        BY <2>1, <2>3 DEF RenderCell, SourceShown
      <3> QED BY <2>3, <3>1 DEF NormalizedCell
    <2> QED BY <1>1, <1>2, <2>1, <2>2, <2>3
  <1>11. ASSUME b # Nothing, a # Nothing, NEW old, old = OutputsLines(b.outputs),
                NEW new, new = OutputsLines(a.outputs), old # new, include => a.cell_type = "code"
         PROVE  shown[i].output_diff = LineDiff(old, new)
    <2>1. entry.status = "changed"
      BY <1>6, <1>11, SameLines
    <2>2. entry.output_diff = LineDiff(old, new)
      BY <1>5, <1>11, <2>1 DEF OutputDiff
    <2>3. CASE shown[i] = entry.html
      BY <1>5, <2>2, <2>3
    <2>4. CASE include /\ shown[i] = RenderCell(after[i], entry) /\ a = NormalizedCell(after[i])
      <3>1. after[i].cell_type = "code"
        BY <1>11, <2>4 DEF NormalizedCell
      <3>2. entry # Nothing
        BY <1>2 DEF Entry, NothingIsNoValue
      <3>3. shown[i].output_diff = entry.output_diff
        BY <2>1, <2>4, <3>1, <3>2 DEF RenderCell, OutputDiffShown
      <3> QED BY <2>2, <3>3
    <2> QED BY <1>1, <1>2, <1>11, <2>3, <2>4
  <1> QED BY <1>3, <1>4, <1>9, <1>10, <1>11

\* A cell with a known output is not empty.
LEMMA KnownOutputStays ==
  ASSUME NEW outputs, IsFiniteSet(DOMAIN outputs), NEW i \in DOMAIN outputs,
         outputs[i].output_type \in KnownOutputs
  PROVE  NormalizedOutputs(outputs) # <<>>
  <1> DEFINE known == {k \in DOMAIN outputs : outputs[k].output_type \in KnownOutputs}
  <1>1. IsFiniteSet(known) /\ i \in known
    BY FS_Subset
  <1>2. DOMAIN NormalizedOutputs(outputs) = 1 .. Cardinality(known)
    BY DEF NormalizedOutputs
  <1> HIDE DEF known
  <1>3. Cardinality(known) \in Nat /\ Cardinality(known) # 0
    BY <1>1, FS_CardinalityType, FS_EmptySet
  <1>4. 1 \in DOMAIN NormalizedOutputs(outputs)
    BY <1>2, <1>3
  <1> QED BY <1>4

\* No picture of the snapshot is lost to the diff.
LEMMA FiguresAreShown ==
  ASSUME NothingIsNoValue, NEW head \in SampleNotebooks \union {Nothing},
         NEW after \in SampleNotebooks, NEW include \in BOOLEAN,
         NEW diff, diff = NotebookDiff(head, after)
  PROVE  FiguresShown(after, SnapshotPages(after, diff, include))
  <1> SUFFICES ASSUME NEW c \in DOMAIN after, NEW i \in DOMAIN after[c].outputs,
                      NEW o, o = after[c].outputs[i],
                      o.output_type \in RichOutputs, after[c].cell_type = "code", FigureOf(o) # Nothing,
                      NEW snapshot, snapshot = SnapshotPages(after, diff, include)
               PROVE  IF snapshot.notebook # Nothing
                      THEN snapshot.notebook[c].outputs[i].images = o.images
                      ELSE [cell |-> c, output |-> i, figure |-> FigureOf(o)] \in snapshot.figures
    BY DEF FiguresShown
  <1>1. CASE ~include
    <2>1. snapshot.notebook = Nothing /\ snapshot.figures = ExtractFigures(after)
      BY <1>1 DEF SnapshotPages
    <2>2. [cell |-> c, output |-> i, figure |-> FigureOf(o)] \in ExtractFigures(after)
      BY DEF ExtractFigures
    <2> QED BY <2>1, <2>2
  <1>2. CASE include
    <2>1. snapshot.notebook = RenderNotebookHtml(after, diff)
      BY <1>2 DEF SnapshotPages
    <2>2. RenderNotebookHtml(after, diff) # Nothing
      BY DEF RenderNotebookHtml, NothingIsNoValue
    <2>3. \A entry : RenderCell(after[c], entry).outputs[i].images = o.images
      BY DEF RenderCell, NormalizedOutput, RichOutputs
    <2>4. CASE diff = Nothing
      BY <2>1, <2>2, <2>3, <2>4 DEF RenderNotebookHtml
    <2>5. CASE diff # Nothing
      <3>1. head \in SampleNotebooks /\ diff = RenderNotebookDiff(head, after)
        BY <2>5 DEF NotebookDiff
      <3>2. after[c] \in SampleCells /\ c \in Nat \ {0} /\ c \in c .. Len(after)
        BY ComparedCells
      <3>3. ~IsEmptyCell(NormalizedCell(after[c]))
        BY <3>2, PageAssumption, KnownOutputStays DEF IsEmptyCell, NormalizedCell, RichOutputs, KnownOutputs
      <3>4. PICK a : a = ReadAt(after, c)
        OBVIOUS
      <3>5. PICK b : b = ReadAt(head, c)
        OBVIOUS
      <3>6. a # Nothing
        <4>1. a = NormalizedCell(after[c])
          BY <3>2, <3>3, <3>4 DEF ReadAt
        <4> QED BY <4>1 DEF NormalizedCell, NothingIsNoValue
      <3>7. PICK entry : entry = Entry(b, a)
        OBVIOUS
      <3>8. entry.status # "removed"
        BY <3>6, <3>7 DEF Entry, CellStatus
      <3>9. /\ Len(diff) \in Nat /\ DOMAIN diff = 1 .. Len(diff) /\ c \in DOMAIN diff /\ diff[c] = entry
        BY <3>1, <3>2, <3>4, <3>5, <3>6, <3>7, <2>5, DiffEntries
      <3>10. CellAt(diff, c) = entry
        BY <3>9 DEF CellAt
      <3>11. c \in DOMAIN LongerOf(after, diff)
        BY <3>2, <3>9, ComparedCells DEF LongerOf
      <3>12. RenderNotebookHtml(after, diff)[c] = RenderCell(after[c], entry)
        BY <2>5, <3>8, <3>10, <3>11 DEF RenderNotebookHtml
      <3> QED BY <2>1, <2>2, <2>3, <3>12
    <2> QED BY <2>4, <2>5
  <1> QED BY <1>1, <1>2

LEMMA PagesTell ==
  ASSUME NothingIsNoValue
  PROVE  EveryPageTells
  <1> SUFFICES ASSUME NEW head \in SampleNotebooks \union {Nothing}, NEW after \in SampleNotebooks,
                      NEW include \in BOOLEAN
               PROVE  TellsChanges(head, after, include)
    BY DEF EveryPageTells
  <1>1. PICK diff : diff = NotebookDiff(head, after)
    OBVIOUS
  <1>2. PICK snapshot : snapshot = SnapshotPages(after, diff, include)
    OBVIOUS
  <1>3. FiguresShown(after, snapshot)
    BY <1>1, <1>2, FiguresAreShown
  <1>4. include => snapshot.diff = Nothing
    BY <1>2 DEF SnapshotPages
  <1>5. (diff = Nothing) = (head = Nothing \/ Alike(head, after))
    <2>1. CASE head = Nothing
      BY <1>1, <2>1 DEF NotebookDiff
    <2>2. CASE head # Nothing
      <3>1. diff = RenderNotebookDiff(head, after) /\ head \in SampleNotebooks
        BY <1>1, <2>2 DEF NotebookDiff
      <3>2. 1 \in Nat \ {0}
        OBVIOUS
      <3> QED BY <2>2, <3>1, <3>2, DiffEntries
    <2> QED BY <2>1, <2>2
  <1>6. PICK shown : shown = IF include THEN snapshot.notebook ELSE snapshot.diff
    OBVIOUS
  <1>7. ASSUME diff # Nothing PROVE ChangesShown(head, after, shown, include)
    <2>1. diff = RenderNotebookDiff(head, after) /\ head \in SampleNotebooks
      BY <1>1, <1>7 DEF NotebookDiff
    <2>2. shown = IF include THEN RenderNotebookHtml(after, diff) ELSE [k \in DOMAIN diff |-> diff[k].html]
      BY <1>2, <1>6, <1>7 DEF SnapshotPages
    <2> QED BY <1>7, <2>1, <2>2, ChangesAreShown
  <1> QED BY <1>1, <1>2, <1>3, <1>4, <1>5, <1>6, <1>7 DEF TellsChanges

\* The pages a job writes say what changed since HEAD and only that: for notebooks of any
\* length, with any cells, outputs and pictures, with the notebook's file or without it.
THEOREM PagesAlwaysTell ==
  ASSUME NothingIsNoValue
  PROVE  Spec => []PagesTellChanges
  <1>1. PagesTellChanges
    BY PagesTell DEF PagesTellChanges
  <1> QED BY <1>1, PTL
=============================================================================
