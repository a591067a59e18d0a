---------------------------- MODULE MCSnapshotPlan ----------------------------
EXTENDS SnapshotPlan, TLC

Marked == [run |-> TRUE, tagged |-> TRUE, target |-> FALSE, figures |-> TRUE, watch |-> {}]
Bound  == [run |-> FALSE, tagged |-> FALSE, target |-> TRUE, figures |-> FALSE,
           watch |-> {<<".", "data">>, <<"..", "data">>}]
MCDocs == {Marked, Bound}
MCEntries == {<<"data", "in">>, <<"/", "data">>}

\* A config that sets everything, none, and one that is refused.
Full == [mode |-> "always", target |-> "repo", watch |-> {<<"data">>}, notebook |-> FALSE,
         diff |-> TRUE, stage |-> TRUE, stageWatched |-> FALSE, tags |-> {"repo"}]
File(path) == [path |-> path, inside |-> TRUE, large |-> FALSE]
World(repo, config, disk) == [repo |-> repo, config |-> config, disk |-> disk]
MCWorlds == {
  World("dirty", Full, {File(<<"data", "in">>), File(<<"data", "secret">>)}),
  World("dirty", Absent, {File(<<"data", "out">>)}),
  World("clean", [Absent EXCEPT !.watch = {<<"..">>}],
        {[File(<<"data", "in">>) EXCEPT !.large = TRUE]})}

MCPreferences == {
  [mode |-> "ask", remember |-> FALSE, label |-> None, tags |-> {}],
  [mode |-> "always", remember |-> FALSE, label |-> "pref", tags |-> {"pref"}]}

Symmetry == Permutations(Notebooks)

\* One snapshot to the end.
OneSnapshot == receipt = None

\* What becomes of a snapshot depends, once it has begun, on no review, at rest on
\* nothing in the panel, and once its body is built on no notebook.  One that ends
\* because the notebook cannot be saved leaves what is reached without it.
WhatMatters ==
  IF request # None \/ receipt # None THEN <<world, request, receipt>>
  ELSE IF Rest THEN <<current, doc, steps, Cardinality(previews), asked, world>>
  ELSE IF asked # None THEN <<current, doc, prefs, loaded, form, typed, steps,
                              Cardinality(previews), asked, world>>
  ELSE vars
===============================================================================
