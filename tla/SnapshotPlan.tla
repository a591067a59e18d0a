----------------------------- MODULE SnapshotPlan -----------------------------
(***************************************************************************)
(* What a snapshot holds: from the form of the panel (src/plugin.ts,       *)
(* src/panel/controller.ts) through the request body, the merge of the     *)
(* configuration layers and the capture plan to the bundle, and the review *)
(* the panel shows beforehand, which is computed by the same resolver.     *)
(*                                                                         *)
(* A label, a tag or a target is the place it comes from: the directives   *)
(* of a notebook (its name), "typed" by the user, "pref"erences, "kernel"  *)
(* (smj_run, smj_tags), the "cell" that triggered, "repo" config.  A       *)
(* notebook is what the plan reads of it, its trigger cell never blank.  A *)
(* path is the sequence of its segments, with "/" in front when absolute;  *)
(* segments "cache" and "secret" stand for the ignored and the credential  *)
(* names.  Patterns with * are left out.                                   *)
(* The world is what the server reads: the git repository, the repo config *)
(* file and the files on disk; age counts its changes.                     *)
(*                                                                         *)
(* Left out: login (the panel is connected), notes and metadata fields, a  *)
(* refresh that repeats the one before it with nothing changed,            *)
(* the templates of the path and the commit message, the queue (module     *)
(* SnapshotCoordinator) and what happens within an execution (module       *)
(* SnapshotPipeline): one snapshot is under way at a time here, and its    *)
(* execution is one step.                                                  *)
(***************************************************************************)
EXTENDS Naturals, FiniteSets, Sequences, SequencesExt

CONSTANTS
  Notebooks,     (* names of the open notebooks                             *)
  Docs,          (* contents: [run, tagged, target, figures : BOOLEAN,
                    watch : set of paths]                                   *)
  Entries,       (* the paths the user may enter as tracked                 *)
  Worlds,        (* what the server may read: [repo, config, disk], the disk
                    a set of files [path, inside, large]                    *)
  Preferences,   (* what the settings may say: [mode, remember, label, tags] *)
  MaxSteps,      (* bound: what the user does                               *)
  MaxChanges,    (* bound: how often the world changes by itself            *)
  MaxPreviews,   (* bound: previews asked for and not answered              *)
  Failed,        (* the end of a snapshot that saved nothing                *)
  None

Modes == {"ask", "always", "never"}
Repos == {"none", "clean", "dirty"}

\* A notebook's content; no tracked path of it is the mark of a refused one.
IsContent(d) ==
  /\ d \in [run : BOOLEAN, tagged : BOOLEAN, target : BOOLEAN, figures : BOOLEAN, watch : {d.watch}]
  /\ None \notin d.watch

ASSUME PlanAssumption ==
  /\ {MaxSteps, MaxChanges, MaxPreviews} \subseteq Nat
  /\ None \notin Notebooks \cup Modes \cup {"typed", "pref", "kernel"}
  /\ None \notin {{}, {"typed"}}
  /\ \A d \in Docs : IsContent(d)
  /\ Preferences \subseteq [mode : Modes, remember : BOOLEAN, label : {"pref", None},
                           tags : SUBSET {"pref"}]
  /\ \A w \in Worlds : w.repo \in Repos

VARIABLES
  (* The browser. *)
  current,   (* the notebook in front, or None                              *)
  doc,       (* notebook -> its content in memory                           *)
  prefs, loaded,  (* the settings, and whether the store has read them      *)
  form,      (* the snapshot options of the panel                           *)
  previews,  (* the requests not answered yet: [newest, body]               *)
  review,    (* "What will be saved": [newest, body, plan, age], or None    *)
  asked,     (* a snapshot between its click or trigger and its request     *)
  (* The server. *)
  world,     (* [repo, config, disk, age]                                   *)
  request,   (* the accepted request, or None                               *)
  receipt,   (* what the last snapshot saved, Failed, or None               *)
  (* For the properties. *)
  typed,     (* what the user last typed: [label, tags], None when untouched *)
  steps

panel == <<current, doc, prefs, loaded, form, previews, review>>
ghost == <<typed, steps>>
vars  == <<panel, asked, world, request, receipt, ghost>>

----------------------------------------------------------------------------
(* The layers (resolve.py) and the plan (plan.py).                         *)

From(value, layer) == [value |-> value, layer |-> layer]

\* The first candidate that is set; the last one always is.
First(candidates) ==
  LET set == {i \in DOMAIN candidates : candidates[i].value # None}
  IN candidates[CHOOSE i \in set : \A j \in set : i <= j]

OrNone(set) == IF set = {} THEN None ELSE set

\* The settings the server has: build_services passes empty ones.
UserSettings == [mode |-> None, label |-> None, tags |-> {}]

\* A tracked path without its empty segments, or None when it is refused: empty,
\* absolute, or leaving the root.
ValidateWatchedPath(raw) ==
  LET segments == SelectSeq(raw, LAMBDA s : s # ".") IN
  IF segments = <<>> \/ segments[1] = "/" \/ ".." \in Range(segments) THEN None ELSE segments

\* The config file is missing, or an entry of its watch list is refused.
Absent == [mode |-> None, target |-> None, watch |-> {}, notebook |-> None, diff |-> None,
           stage |-> None, stageWatched |-> None, tags |-> {}]
Unreadable(config) == \E w \in config.watch : ValidateWatchedPath(w) = None
RepoPaths(config) == {ValidateWatchedPath(w) : w \in config.watch}

\* The tracked paths of a notebook: what its metadata lists, without the refused.
MetadataPaths(content) == {ValidateWatchedPath(w) : w \in content.watch} \ {None}

Resolve(body, config) == [
  mode     |-> First(<<From(body.mode, "request"), From(UserSettings.mode, "user"),
                       From(config.mode, "repo"), From("ask", "fallback")>>),
  watched  |-> First(<<From(body.watch, "request"),
                       From(OrNone(MetadataPaths(body.content)), "notebook"),
                       From(OrNone(RepoPaths(config)), "repo"), From({}, "fallback")>>),
  notebook |-> First(<<From(config.notebook, "repo"), From(TRUE, "fallback")>>),
  diff     |-> First(<<From(config.diff, "repo"), From(TRUE, "fallback")>>),
  target   |-> First(<<From(IF body.content.target THEN body.notebook ELSE None, "notebook"),
                       From(config.target, "repo"), From("inferred", "inferred")>>),
  stage    |-> First(<<From(config.stage, "repo"), From(TRUE, "fallback")>>),
  stageWatched |-> First(<<From(config.stageWatched, "repo"), From(TRUE, "fallback")>>)]

Directive(notebook, content) ==
  [label |-> IF content.run THEN notebook ELSE None,
   tags  |-> IF content.tagged THEN {notebook} ELSE {}]

DefaultTags(config) == config.tags \cup UserSettings.tags

ResolveRunLabel(body, cell) ==
  First(<<From(body.label, "request"),
          From(Directive(body.notebook, body.content).label, "notebook"),
          From(UserSettings.label, "user"),
          From(IF body.source = "trigger_cell" THEN cell ELSE None, "inferred"),
          From("", "none")>>)

\* The kinds of artifacts, the tracked patterns, and the resolved metadata.
PlanCapture(e, body, config, dirty, willCommit, cell) == [
  kinds  |-> {k \in {"notebook", "figure", "diff"} :
                CASE k = "notebook" -> e.notebook.value
                  [] k = "figure"   -> body.content.figures /\ ~e.notebook.value
                  [] k = "diff"     -> e.diff.value /\ dirty /\ ~willCommit},
  patterns |-> e.watched.value,
  target |-> e.target,
  mode   |-> e.mode,
  tags   |-> Directive(body.notebook, body.content).tags \cup body.tags \cup DefaultTags(config),
  label  |-> ResolveRunLabel(body, cell)]

\* build_preview: it knows no triggering cell.
Preview(body, w) ==
  LET e == Resolve(body, w.config) IN
  PlanCapture(e, body, w.config, w.repo = "dirty", e.mode.value = "always" /\ w.repo = "dirty", None)

----------------------------------------------------------------------------
(* The form.                                                               *)

\* Mutant: a change of the settings replaces what was typed.
SetPreferences_Overwrites(p, f) ==
  [f EXCEPT !.mode = p.mode,
            !.decision = IF p.mode = "ask" THEN f.decision ELSE p.mode,
            !.remember = p.remember,
            !.label = p.label,
            !.tags = p.tags]

SetPreferences(p, f) ==
  [f EXCEPT !.mode = p.mode,
            !.decision = IF p.mode = "ask" THEN f.decision ELSE p.mode,
            !.remember = p.remember,
            !.label = IF f.labelEdited THEN f.label ELSE p.label,
            !.tags = IF f.tagsEdited THEN f.tags ELSE p.tags]

\* Mutant: the tags of the directives are added to those in the form.
SetDirectiveDefaults_Merges(d, f) ==
  [f EXCEPT !.label = IF f.labelEdited \/ d.label = None THEN f.label ELSE d.label,
            !.tags = IF f.tagsEdited THEN f.tags ELSE f.tags \cup d.tags]

\* The label stays when the notebook has none; the tags do not.
SetDirectiveDefaults(d, f) ==
  [f EXCEPT !.label = IF f.labelEdited \/ d.label = None THEN f.label ELSE d.label,
            !.tags = IF f.tagsEdited THEN f.tags ELSE d.tags]

\* snapshotRequestOptions.  A "never" is sent when the question was not answered.
Options(f) ==
  [mode |-> IF f.mode = "ask" THEN f.decision ELSE f.mode,
   remember |-> f.mode = "ask" /\ f.remember,
   label |-> f.label, labelEdited |-> f.labelEdited, tags |-> f.tags]

NoKernel == [label |-> None, tags |-> {}]

ManualRunLabel(options, kernel, directive) ==
  IF options.labelEdited /\ options.label # None THEN options.label
  ELSE First(<<From(kernel.label, "kernel"), From(options.label, "form"),
               From(directive.label, "notebook"), From("", "none")>>).value

TriggerRunLabel(kernel, directive, cell) ==
  First(<<From(kernel.label, "kernel"), From(directive.label, "notebook"),
          From(cell, "cell")>>).value

\* The browser parses directives and validates paths itself, by the same rules
\* (application/directives.ts and watchedPaths.ts mirror the Python modules).
ParseDirectives(n, content) == Directive(n, content)
ReadWatchedPaths(content) == {ValidateWatchedPath(w) : w \in content.watch} \ {None}

\* An empty list of tracked paths is left out.
BuildSnapshotRequestBody(source, n, content, mode, label, tags) ==
  [source |-> source, notebook |-> n, content |-> content, mode |-> mode,
   label |-> IF label = "" THEN None ELSE label, tags |-> tags,
   watch |-> OrNone(ReadWatchedPaths(content))]

ManualBody(n, content, options, kernel) ==
  LET directives == ParseDirectives(n, content) IN
  BuildSnapshotRequestBody("manual", n, content, options.mode,
    ManualRunLabel(options, kernel, directives),
    directives.tags \cup kernel.tags \cup options.tags)

TriggerBody(n, content, options, kernel) ==
  LET directives == ParseDirectives(n, content) IN
  BuildSnapshotRequestBody("trigger_cell", n, content, options.mode,
    TriggerRunLabel(kernel, directives, "cell"),
    directives.tags \cup kernel.tags \cup options.tags)

----------------------------------------------------------------------------
ReadAt(w, age) == [repo |-> w.repo, config |-> w.config, disk |-> w.disk, age |-> age]

Defaults == [mode |-> "ask", decision |-> "never", remember |-> FALSE,
             label |-> None, labelEdited |-> FALSE, tags |-> {}, tagsEdited |-> FALSE]

\* The plugin has been activated, a notebook in front or not.
Init ==
  /\ current \in Notebooks \cup {None}
  /\ doc \in [Notebooks -> Docs]
  /\ prefs \in Preferences /\ loaded = FALSE
  /\ IF current = None THEN form = Defaults /\ previews = {}
     ELSE /\ form = SetDirectiveDefaults(ParseDirectives(current, doc[current]), Defaults)
          /\ previews = {[newest |-> TRUE,
                          body |-> ManualBody(current, doc[current], Options(form), NoKernel)]}
  /\ review = None
  /\ asked = None /\ request = None /\ receipt = None
  /\ \E w \in Worlds : world = ReadAt(w, 0)
  /\ typed = [label |-> None, tags |-> None]
  /\ steps = 0

\* Bound: from the capture of its options to its end a snapshot depends on nothing
\* in the panel, which rests, nor on a notebook once its body is built.
Rest == request # None \/ (asked # None /\ asked.options # None)
UserStep == steps < MaxSteps /\ steps' = steps + 1
Step == ~Rest /\ UserStep

AskPreview(body) ==
  /\ Cardinality(previews) < MaxPreviews
  /\ previews' = {[p EXCEPT !.newest = FALSE] : p \in previews}
                  \cup {[newest |-> TRUE, body |-> body]}
  /\ review' = IF review = None THEN None ELSE [review EXCEPT !.newest = FALSE]

\* Mutant: the preview is asked for before the directives are in the form.
Refresh_PreviewFirst(n, docs, f) ==
  /\ current' = n /\ doc' = docs
  /\ IF n = None
     THEN form' = f /\ review' = None /\ UNCHANGED previews
     ELSE /\ form' = SetDirectiveDefaults(ParseDirectives(n, docs[n]), f)
          /\ AskPreview(ManualBody(n, docs[n], Options(f), NoKernel))

\* refreshTriggerUi, with the notebook in front, the contents and the form so far.
Refresh(n, docs, f) ==
  /\ current' = n /\ doc' = docs
  /\ IF n = None
     THEN form' = f /\ review' = None /\ UNCHANGED previews
     ELSE /\ form' = SetDirectiveDefaults(ParseDirectives(n, docs[n]), f)
          /\ AskPreview(ManualBody(n, docs[n], Options(form'), NoKernel))

\* currentChanged, activeCellChanged, selectionChanged, Update panel.
SwitchTo(n) ==
  /\ Step /\ Refresh(n, doc, form)
  /\ UNCHANGED <<prefs, loaded, asked, world, request, receipt, typed>>

\* A notebook's content changes: modelContentChanged refreshes the panel, whichever
\* notebook is in front.
ContentChanged(n, content) ==
  /\ UserStep /\ request = None
  /\ Refresh(current, [doc EXCEPT ![n] = content], form)
  /\ UNCHANGED <<prefs, loaded, asked, world, request, receipt, typed>>

EditCells(n) ==
  \E c \in Docs \ {doc[n]} :
    ContentChanged(n, [c EXCEPT !.target = doc[n].target, !.watch = doc[n].watch])

\* The rest is edited in the panel, for the notebook in front.  Adding a path drops
\* the entries that are refused.
AddWatchedPath ==
  /\ current # None
  /\ \E raw \in Entries :
       LET path == ValidateWatchedPath(raw)
           paths == ReadWatchedPaths(doc[current]) IN
       /\ path \notin paths \cup {None}
       /\ ContentChanged(current, [doc[current] EXCEPT !.watch = paths \cup {path}])

RemoveWatchedPath ==
  /\ current # None
  /\ \E path \in ReadWatchedPaths(doc[current]) :
       ContentChanged(current,
         [doc[current] EXCEPT !.watch = ReadWatchedPaths(doc[current]) \ {path}])

UpdateTargetOptions ==
  /\ current # None
  /\ ContentChanged(current, [doc[current] EXCEPT !.target = ~@])

\* updateSnapshotOptions, then refreshTriggerUi.
TypeLabel ==
  /\ Step /\ \E l \in {"typed", None} :
       /\ Refresh(current, doc, [form EXCEPT !.label = l, !.labelEdited = TRUE])
       /\ typed' = [typed EXCEPT !.label = l]
  /\ UNCHANGED <<prefs, loaded, asked, world, request, receipt>>

TypeTags ==
  /\ Step /\ \E t \in {{"typed"}, {}} :
       /\ Refresh(current, doc, [form EXCEPT !.tags = t, !.tagsEdited = TRUE])
       /\ typed' = [typed EXCEPT !.tags = t]
  /\ UNCHANGED <<prefs, loaded, asked, world, request, receipt>>

ChooseMode ==
  /\ Step /\ form.mode = "ask"
  /\ \/ \E d \in {"always", "never"} \ {form.decision} :
          Refresh(current, doc, [form EXCEPT !.decision = d])
     \/ Refresh(current, doc, [form EXCEPT !.remember = ~@])
  /\ UNCHANGED <<prefs, loaded, asked, world, request, receipt, typed>>

\* preferences.load resolves.
LoadPreferences ==
  /\ ~loaded /\ ~Rest /\ loaded' = TRUE
  /\ Refresh(current, doc, SetPreferences(prefs, form))
  /\ UNCHANGED <<prefs, asked, world, request, receipt, typed, steps>>

\* The settings signal a change; before they are loaded nothing listens.
ChangePreferences ==
  /\ Step /\ prefs' \in Preferences \ {prefs}
  /\ IF loaded THEN Refresh(current, doc, SetPreferences(prefs', form))
     ELSE UNCHANGED <<current, doc, form, previews, review>>
  /\ UNCHANGED <<loaded, asked, world, request, receipt, typed>>

\* refreshPreview: replies are shown in the order they arrive; a failed one leaves
\* the review as it is.  A reply that is lost is one that has not arrived.
PreviewReply ==
  ~Rest /\ \E p \in previews :
    /\ previews' = previews \ {p}
    /\ IF Unreadable(world.config) THEN UNCHANGED review
       ELSE review' = [newest |-> p.newest, body |-> p.body, plan |-> Preview(p.body, world),
                       age |-> world.age]
    /\ UNCHANGED <<current, doc, prefs, loaded, form, asked, world, request, receipt, ghost>>

----------------------------------------------------------------------------
(* A snapshot.                                                             *)

Kernels == {NoKernel, [label |-> "kernel", tags |-> {"kernel"}]}
Idle == asked = None /\ request = None

\* snapshotPanel up to the save of the notebook.
Click ==
  /\ Idle /\ current # None
  /\ asked' = [source |-> "manual", notebook |-> current, options |-> None, kernel |-> NoKernel,
               shown |-> review, typed |-> typed]
  /\ UNCHANGED <<panel, world, request, receipt, ghost>>

\* A settled run: its notebook need not be the one in front.
Trigger(n) ==
  /\ Idle
  /\ asked' = [source |-> "trigger_cell", notebook |-> n, options |-> None, kernel |-> NoKernel,
               shown |-> None, typed |-> typed]
  /\ UNCHANGED <<panel, world, request, receipt, ghost>>

\* rememberCommitChoice, once the settings are loaded, which signal the change.
Remember(o) ==
  IF asked.source = "manual" /\ o.remember /\ loaded
  THEN /\ prefs' = [prefs EXCEPT !.mode = o.mode, !.remember = TRUE]
       /\ Refresh(current, doc, SetPreferences(prefs', form))
  ELSE UNCHANGED <<current, doc, prefs, form, previews, review>>

\* triggerRunTags: the tags of a trigger are merged when its run is prepared, and
\* once more in its body.
Captured(o, n, kernel) ==
  IF asked.source = "manual" THEN o
  ELSE [o EXCEPT !.tags = ParseDirectives(n, doc[n]).tags \cup kernel.tags \cup @]

\* The rest of snapshotPanel, and prepareTriggerRun: the options are those of the
\* form by now.
Prepare ==
  /\ asked # None /\ asked.options = None
  /\ \E kernel \in Kernels :
       asked' = [asked EXCEPT !.options = Captured(Options(form), asked.notebook, kernel),
                              !.kernel = kernel, !.typed = typed]
  /\ Remember(Options(form))
  /\ UNCHANGED <<loaded, world, request, receipt, typed, steps>>

\* saveNotebookForSnapshot fails: before the options for a click, after them for
\* a trigger.
SaveFails ==
  /\ asked # None /\ (asked.source = "manual") = (asked.options = None)
  /\ asked' = None
  /\ UNCHANGED <<panel, world, request, receipt, ghost>>

\* The body is built from the notebook as it is now.
Submit ==
  /\ asked # None /\ asked.options # None
  /\ LET n == asked.notebook
         body == IF asked.source = "manual"
                 THEN ManualBody(n, doc[n], asked.options, asked.kernel)
                 ELSE TriggerBody(n, doc[n], asked.options, asked.kernel) IN
     request' = [body |-> body, kernel |-> asked.kernel, typed |-> asked.typed,
                 shown |-> IF asked.shown # None /\ asked.shown.body = body THEN asked.shown
                           ELSE None]
  /\ asked' = None
  /\ UNCHANGED <<panel, world, receipt, ghost>>

----------------------------------------------------------------------------
(* run_snapshot_pipeline.                                                  *)

\* The guards.
IsWithinRoot(f) == f.inside
IsIgnoredPath(path) == "cache" \in Range(path)
IsSensitiveFile(path) == "secret" \in Range(path)
MatchesWatchPattern(path, pattern) == IsPrefix(pattern, path)
TooLarge(f) == f.large

GatherWatchedFiles(patterns, disk) ==
  {f \in disk : /\ IsWithinRoot(f) /\ ~IsIgnoredPath(f.path) /\ ~IsSensitiveFile(f.path)
                /\ \E p \in patterns : MatchesWatchPattern(f.path, p)}

\* The paths a commit stages: the config file too, when there is one.
CommitPaths(e, files, config) ==
  (IF e.stage.value THEN {<<"notebook">>} ELSE {})
    \cup (IF e.stageWatched.value THEN {f.path : f \in files} ELSE {})
    \cup (IF config # Absent THEN {<<"config">>} ELSE {})

\* The patch leaves out the notebook and the images.
FilterDiff(sections) == sections \ {"notebook", "image"}

\* Mutant: the working-tree patch is made although a commit was created.
WorkingTreeDiff_Always(e, repo, created, sections) ==
  repo = "dirty" /\ e.diff.value /\ FilterDiff(sections) # {}

WorkingTreeDiff(e, repo, created, sections) ==
  repo = "dirty" /\ e.diff.value /\ ~created /\ FilterDiff(sections) # {}

\* build_snapshot_bundle: the kinds of pages beside the tracked files.
BundleKinds(e, content, diff) ==
  (IF e.notebook.value THEN {"notebook"} ELSE IF content.figures THEN {"figure"} ELSE {})
    \cup (IF diff THEN {"diff"} ELSE {})

\* Whether there is something to commit, and what the raw patch is made of, is up to
\* the files.
Execute ==
  /\ request # None /\ ~Unreadable(world.config)
  /\ LET b == request.body
         e == Resolve(b, world.config)
         files == GatherWatchedFiles(e.watched.value, world.disk)
         willCommit == e.mode.value = "always" /\ world.repo = "dirty"
         plan == PlanCapture(e, b, world.config, world.repo = "dirty", willCommit, "cell")
     IN /\ ~\E f \in files : TooLarge(f)
        /\ \E something \in BOOLEAN, sections \in SUBSET {"notebook", "other"} :
             LET created == willCommit /\ CommitPaths(e, files, world.config) # {} /\ something IN
             /\ receipt' = [
                  source |-> b.source, notebook |-> b.notebook,
                  label |-> plan.label.value, tags |-> plan.tags, target |-> e.target, mode |-> e.mode,
                  kinds |-> BundleKinds(e, b.content, WorkingTreeDiff(e, world.repo, created, sections)),
                  files |-> files, willCommit |-> willCommit, created |-> created,
                  smj_run |-> request.kernel.label,
                  own |-> Directive(b.notebook, b.content).tags \cup request.kernel.tags
                            \cup world.config.tags,
                  typed |-> request.typed,
                  announced |-> IF request.shown # None /\ request.shown.age = world.age
                                THEN request.shown.plan ELSE None]
             /\ world' = [world EXCEPT !.repo = IF created THEN "clean" ELSE @,
                                       !.age = IF created THEN @ + 1 ELSE @]
  /\ request' = None
  /\ UNCHANGED <<panel, asked, ghost>>

\* Any step of the pipeline or the delivery may raise.
Fail ==
  /\ request # None /\ request' = None /\ receipt' = Failed
  /\ UNCHANGED <<panel, asked, world, ghost>>

\* The repository, the config file or the files change by other hands.
WorldChanges ==
  /\ world.age < MaxChanges
  /\ \E w \in Worlds :
       /\ ReadAt(w, world.age) # world
       /\ (w.repo = "none") = (world.repo = "none")
       /\ world' = ReadAt(w, world.age + 1)
  /\ UNCHANGED <<panel, asked, request, receipt, ghost>>

Next ==
  \/ \E n \in Notebooks \cup {None} : SwitchTo(n)
  \/ \E n \in Notebooks : EditCells(n) \/ Trigger(n)
  \/ AddWatchedPath \/ RemoveWatchedPath \/ UpdateTargetOptions
  \/ TypeLabel \/ TypeTags \/ ChooseMode
  \/ LoadPreferences \/ ChangePreferences \/ PreviewReply
  \/ Click \/ Prepare \/ SaveFails \/ Submit \/ Execute \/ Fail
  \/ WorldChanges

Spec == Init /\ [][Next]_vars

----------------------------------------------------------------------------
(* Properties.                                                             *)

Saved == receipt \notin {None, Failed}

\* The types, and: tags nobody typed are the directives' of the notebook in front
\* and of nothing else (controller.ts:284-296).
TypeOK ==
  /\ current \in Notebooks \cup {None} /\ \A n \in Notebooks : IsContent(doc[n])
  /\ prefs.mode \in Modes /\ loaded \in BOOLEAN
  /\ form.mode \in Modes /\ form.decision \in {"always", "never"}
  /\ form.label \in Notebooks \cup {"typed", "pref", None}
  /\ form.tags \subseteq Notebooks \cup {"typed", "pref"}
  /\ ~form.tagsEdited /\ current # None =>
       form.tags = Directive(current, doc[current]).tags
  /\ \A p \in previews : p.newest \in BOOLEAN /\ p.body.source = "manual"
  /\ review # None => review.newest \in BOOLEAN /\ review.age <= world.age
  /\ world.repo \in Repos

\* What the user has typed reaches the snapshot: a typed label wins, else smj_run
\* does; typed tags are saved with those of the notebook as submitted, the kernel
\* and the repo config, whatever notebook came to the front, however the settings
\* changed (controller.ts:263-322, snapshotRequestBodies.ts; C-CONTENT-08,
\* C-DIRECTIVE-04).
TypedIsSaved ==
  Saved =>
    LET r == receipt
        labelled == r.source = "manual" /\ r.typed.label = "typed"
    IN /\ labelled => r.label = "typed"
       /\ ~labelled /\ r.smj_run # None => r.label = r.smj_run
       /\ r.typed.tags # None =>
            IF r.source = "manual" THEN r.tags = r.typed.tags \cup r.own
            ELSE r.typed.tags \cup r.own \subseteq r.tags

\* When the review is the answer to the newest request, it is about what a snapshot
\* would send now (plugin.ts:209-238; C-CONFIG-02).
ReviewIsCurrent ==
  review # None /\ review.newest /\ current # None =>
    review.body = ManualBody(current, doc[current], Options(form), NoKernel)

\* A snapshot whose request is the one that was reviewed, in a world that has not
\* changed since, saves what the review announced; only a commit that turned out
\* to have nothing in it adds a patch (render.py:87-99 and pipeline.py:125-173
\* decide apart; C-CONFIG-10).
SavedAsAnnounced ==
  Saved /\ receipt.announced # None =>
    LET r == receipt
        a == r.announced
    IN /\ <<r.label, r.tags, r.target, r.mode>> = <<a.label.value, a.tags, a.target, a.mode>>
       /\ r.kinds \ {"diff"} = a.kinds \ {"diff"}
       /\ \A f \in r.files : \E p \in a.patterns : MatchesWatchPattern(f.path, p)
       /\ "diff" \in r.kinds => "diff" \in a.kinds \/ (r.willCommit /\ ~r.created)

\* The label and the tags of a snapshot are never another notebook's directives:
\* "Directives are scoped to the whole notebook" (contracts.md:209).
DirectivesStay ==
  Saved =>
    LET others == Notebooks \ {receipt.notebook} IN
    receipt.label \notin others /\ receipt.tags \cap others = {}
=============================================================================
