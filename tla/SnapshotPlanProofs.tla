------------------------- MODULE SnapshotPlanProofs -------------------------
(***************************************************************************)
(* Proofs about the review of the panel, for any notebooks, contents,      *)
(* settings, configurations and files, and any number of steps.            *)
(***************************************************************************)
EXTENDS SnapshotPlan, TLAPS

\* What a snapshot would send now.
Now == ManualBody(current, doc[current], Options(form), NoKernel)

\* The requests and the review are records.
Shaped ==
  /\ \A p \in previews : p = [newest |-> p.newest, body |-> p.body]
  /\ review # None => review = [newest |-> review.newest, body |-> review.body,
                                plan |-> review.plan, age |-> review.age]

\* The newest request that is not answered yet is about now, and so is its answer.
PreviewsAreCurrent ==
  current # None => \A p \in previews : p.newest => p.body = Now

Reviewed == Shaped /\ PreviewsAreCurrent /\ ReviewIsCurrent

----------------------------------------------------------------------------
\* After a new request, it alone is the newest, and no answer is.
LEMMA AskPreviewIsNewest ==
  ASSUME Shaped, NEW body, AskPreview(body)
  PROVE  /\ Shaped'
         /\ \A p \in previews' : p.newest => p.body = body
         /\ review' # None => ~review'.newest
  <1>1. ASSUME NEW p \in previews'
        PROVE  p = [newest |-> p.newest, body |-> p.body] /\ (p.newest => p.body = body)
    <2>1. CASE p = [newest |-> TRUE, body |-> body]
      BY <2>1
    <2>2. ASSUME NEW q \in previews, p = [q EXCEPT !.newest = FALSE]
          PROVE  p = [newest |-> FALSE, body |-> q.body]
      <3>1. q = [newest |-> q.newest, body |-> q.body]
        BY DEF Shaped
      <3> QED BY <2>2, <3>1
    <2>3. \/ p = [newest |-> TRUE, body |-> body]
          \/ \E q \in previews : p = [q EXCEPT !.newest = FALSE]
      BY <1>1 DEF AskPreview
    <2> QED BY <2>1, <2>2, <2>3
  <1>2. ASSUME review' # None
        PROVE  /\ review' = [newest |-> FALSE, body |-> review.body,
                             plan |-> review.plan, age |-> review.age]
    <2>1. review # None /\ review' = [review EXCEPT !.newest = FALSE]
      BY <1>2 DEF AskPreview
    <2>2. review = [newest |-> review.newest, body |-> review.body,
                    plan |-> review.plan, age |-> review.age]
      BY <2>1 DEF Shaped
    <2> QED BY <2>1, <2>2
  <1>3. review' # None => /\ ~review'.newest
                          /\ review' = [newest |-> review'.newest, body |-> review'.body,
                                        plan |-> review'.plan, age |-> review'.age]
    BY <1>2
  <1> QED BY <1>1, <1>3 DEF Shaped

\* Whatever changes the notebook in front, a content or the form asks for a new
\* preview, of what it has become.
LEMMA RefreshKeepsReviewed ==
  ASSUME Reviewed, NEW n, NEW docs, NEW f, Refresh(n, docs, f)
  PROVE  Reviewed'
  <1>1. CASE n = None
    BY <1>1 DEF Refresh, Reviewed, Shaped, PreviewsAreCurrent, ReviewIsCurrent
  <1>2. CASE n # None
    <2> DEFINE body == ManualBody(n, docs[n], Options(form'), NoKernel)
    <2>1. current' = n /\ doc' = docs /\ AskPreview(body)
      BY <1>2 DEF Refresh
    <2>2. Now' = body
      BY <2>1 DEF Now
    <2> HIDE DEF body
    <2>3. /\ Shaped'
          /\ \A p \in previews' : p.newest => p.body = body
          /\ review' # None => ~review'.newest
      BY <2>1, AskPreviewIsNewest DEF Reviewed
    <2> QED BY <2>2, <2>3 DEF Reviewed, PreviewsAreCurrent, ReviewIsCurrent
  <1> QED BY <1>1, <1>2

\* Nothing else touches what the review is about.
LEMMA StillReviewed ==
  ASSUME Reviewed, UNCHANGED <<current, doc, form, previews, review>>
  PROVE  Reviewed'
  <1>1. Now' = Now
    BY DEF Now
  <1>2. Shaped' /\ PreviewsAreCurrent'
    BY <1>1 DEF Reviewed, Shaped, PreviewsAreCurrent
  <1>3. ReviewIsCurrent'
    BY <1>1 DEF Reviewed, ReviewIsCurrent, Now
  <1> QED BY <1>2, <1>3 DEF Reviewed

\* An answer is about what its request was about.
LEMMA ReplyKeepsReviewed ==
  ASSUME Reviewed, PreviewReply
  PROVE  Reviewed'
  <1>1. PICK p \in previews :
          /\ previews' = previews \ {p}
          /\ \/ UNCHANGED review
             \/ review' = [newest |-> p.newest, body |-> p.body,
                           plan |-> Preview(p.body, world), age |-> world.age]
          /\ UNCHANGED <<current, doc, form>>
    BY Zenon DEF PreviewReply
  <1>2. Now' = Now
    BY <1>1 DEF Now
  <1>3. PreviewsAreCurrent'
    BY <1>1, <1>2 DEF Reviewed, PreviewsAreCurrent
  <1>4. \A q \in previews' : q = [newest |-> q.newest, body |-> q.body]
    BY <1>1 DEF Reviewed, Shaped
  <1>5. CASE UNCHANGED review
    BY <1>1, <1>2, <1>3, <1>4, <1>5 DEF Reviewed, Shaped, ReviewIsCurrent, Now
  <1>6. CASE review' = [newest |-> p.newest, body |-> p.body,
                        plan |-> Preview(p.body, world), age |-> world.age]
    <2> DEFINE plan == Preview(p.body, world)
    <2> HIDE DEF plan
    <2>1. review' = [newest |-> p.newest, body |-> p.body, plan |-> plan, age |-> world.age]
      BY <1>6 DEF plan
    <2>2. review'.newest = p.newest /\ review'.body = p.body
      BY <2>1
    <2>3. current # None /\ p.newest => p.body = Now
      BY DEF Reviewed, PreviewsAreCurrent
    <2>4. review' # None /\ review'.newest /\ current' # None => review'.body = Now'
      BY <1>1, <1>2, <2>2, <2>3
    <2>5. ReviewIsCurrent'
      BY <2>4 DEF ReviewIsCurrent, Now
    <2>6. Shaped'
      BY <1>4, <2>1 DEF Shaped
    <2> QED BY <1>3, <2>5, <2>6 DEF Reviewed
  <1> QED BY <1>1, <1>5, <1>6

LEMMA InitReviewed == Init => Reviewed
  <1> SUFFICES ASSUME Init PROVE Reviewed
    OBVIOUS
  <1>1. review = None
    BY DEF Init
  <1>2. \/ current = None /\ previews = {}
        \/ previews = {[newest |-> TRUE, body |-> Now]}
    BY DEF Init, Now
  <1> HIDE DEF Now
  <1> QED BY <1>1, <1>2 DEF Reviewed, Shaped, PreviewsAreCurrent, ReviewIsCurrent

LEMMA ContentKeepsReviewed ==
  ASSUME Reviewed, NEW n, NEW content, ContentChanged(n, content)
  PROVE  Reviewed'
  BY RefreshKeepsReviewed DEF ContentChanged

LEMMA NextKeepsReviewed == Reviewed /\ [Next]_vars => Reviewed'
  <1> SUFFICES ASSUME Reviewed, [Next]_vars PROVE Reviewed'
    OBVIOUS
  <1>1. ASSUME NEW n \in Notebooks \cup {None}, SwitchTo(n) PROVE Reviewed'
    BY <1>1, RefreshKeepsReviewed DEF SwitchTo
  <1>2. ASSUME NEW n \in Notebooks, EditCells(n) PROVE Reviewed'
    BY <1>2, ContentKeepsReviewed DEF EditCells
  <1>3. CASE AddWatchedPath
    BY <1>3, ContentKeepsReviewed DEF AddWatchedPath
  <1>4. CASE RemoveWatchedPath
    BY <1>4, ContentKeepsReviewed DEF RemoveWatchedPath
  <1>5. CASE UpdateTargetOptions
    BY <1>5, ContentKeepsReviewed DEF UpdateTargetOptions
  <1>6. CASE TypeLabel
    BY <1>6, RefreshKeepsReviewed DEF TypeLabel
  <1>7. CASE TypeTags
    BY <1>7, RefreshKeepsReviewed DEF TypeTags
  <1>8. CASE ChooseMode
    BY <1>8, RefreshKeepsReviewed DEF ChooseMode
  <1>9. CASE LoadPreferences
    BY <1>9, RefreshKeepsReviewed DEF LoadPreferences
  <1>10. CASE ChangePreferences
    <2>1. \/ Refresh(current, doc, SetPreferences(prefs', form))
          \/ UNCHANGED <<current, doc, form, previews, review>>
      BY <1>10 DEF ChangePreferences
    <2> QED BY <2>1, RefreshKeepsReviewed, StillReviewed
  <1>11. CASE PreviewReply
    BY <1>11, ReplyKeepsReviewed
  <1>12. CASE Prepare
    <2>1. \/ Refresh(current, doc, SetPreferences(prefs', form))
          \/ UNCHANGED <<current, doc, form, previews, review>>
      BY <1>12 DEF Prepare, Remember
    <2> QED BY <2>1, RefreshKeepsReviewed, StillReviewed
  <1>13. CASE UNCHANGED panel
    BY <1>13, StillReviewed DEF panel
  <1>14. \/ \E n \in Notebooks : Trigger(n)
         \/ Click \/ SaveFails \/ Submit \/ Execute \/ Fail \/ WorldChanges
         \/ UNCHANGED vars
         => UNCHANGED panel
    BY DEF Trigger, Click, SaveFails, Submit, Execute, Fail, WorldChanges, vars
  <1> QED
    BY <1>1, <1>2, <1>3, <1>4, <1>5, <1>6, <1>7, <1>8, <1>9, <1>10, <1>11, <1>12, <1>13,
       <1>14 DEF Next

\* Whatever the user, the settings and the answers do, in any order: the answer to
\* the newest request shows what a snapshot would send now (plugin.ts:209-238).
THEOREM ReviewStaysCurrent == Spec => []ReviewIsCurrent
  <1>1. Reviewed => ReviewIsCurrent
    BY DEF Reviewed
  <1> QED BY <1>1, InitReviewed, NextKeepsReviewed, PTL DEF Spec

----------------------------------------------------------------------------
(* The form and what the user has typed.                                   *)

Labels   == Notebooks \cup {"typed", "pref", None}
TagNames == Notebooks \cup {"typed", "pref"}
Forms == [mode : Modes, decision : {"always", "never"}, remember : BOOLEAN, label : Labels,
          labelEdited : BOOLEAN, tags : SUBSET TagNames, tagsEdited : BOOLEAN]
Typings == [label : {"typed", None}, tags : {{"typed"}, {}, None}]

\* The form still has what the user last typed.
Keeps(f, t) ==
  /\ f.labelEdited => f.label = t.label
  /\ t.label = "typed" => f.labelEdited
  /\ t.tags # None => f.tagsEdited /\ f.tags = t.tags

\* Tags nobody typed are the directives' of the notebook in front.
OwnTags(n, docs, f) == ~f.tagsEdited /\ n # None => f.tags = Directive(n, docs[n]).tags

Settings == [mode : Modes, remember : BOOLEAN, label : {"pref", None}, tags : SUBSET {"pref"}]
HasContents(docs) ==
  docs = [n \in Notebooks |-> docs[n]] /\ \A n \in Notebooks : IsContent(docs[n])

FormTyped ==
  /\ form \in Forms /\ typed \in Typings
  /\ Keeps(form, typed)
  /\ OwnTags(current, doc, form)
  /\ current \in Notebooks \cup {None}
  /\ prefs \in Settings /\ loaded \in BOOLEAN
  /\ HasContents(doc)

LEMMA NoneIsNone ==
  /\ None \notin Notebooks /\ None \notin Modes
  /\ None # "typed" /\ None # "pref" /\ None # "kernel" /\ None # {} /\ None # {"typed"}
  BY PlanAssumption DEF Modes

LEMMA DirectiveNames ==
  ASSUME NEW n \in Notebooks, NEW c
  PROVE  /\ Directive(n, c).label \in {n, None}
         /\ Directive(n, c).tags \subseteq {n}
  BY DEF Directive

\* New settings replace only what has not been typed.
LEMMA SetPreferencesKeeps ==
  ASSUME NEW f \in Forms, NEW t, Keeps(f, t),
         NEW p \in Settings
  PROVE  SetPreferences(p, f) \in Forms /\ Keeps(SetPreferences(p, f), t)
  <1> DEFINE g == SetPreferences(p, f)
  <1> DEFINE decision == IF p.mode = "ask" THEN f.decision ELSE p.mode
             label == IF f.labelEdited THEN f.label ELSE p.label
             tags == IF f.tagsEdited THEN f.tags ELSE p.tags
  <1>0. g = [f EXCEPT !.mode = p.mode, !.decision = decision, !.remember = p.remember,
                      !.label = label, !.tags = tags]
    BY DEF SetPreferences
  <1>3. /\ p.mode \in Modes /\ decision \in {"always", "never"} /\ p.remember \in BOOLEAN
        /\ label \in Labels /\ tags \in SUBSET TagNames
    BY DEF Forms, Modes, Labels, TagNames, Settings
  <1>6. /\ f.labelEdited => label = f.label
        /\ f.tagsEdited => tags = f.tags
    OBVIOUS
  <1> HIDE DEF g, decision, label, tags
  <1>1. /\ g.labelEdited = f.labelEdited /\ g.tagsEdited = f.tagsEdited
        /\ g.label = label /\ g.tags = tags
    BY <1>0 DEF Forms
  <1>4. g \in Forms
    BY <1>0, <1>3 DEF Forms
  <1>5. Keeps(g, t)
    BY <1>1, <1>6 DEF Keeps
  <1> QED BY <1>4, <1>5 DEF g

\* So do the directives of a notebook that comes to the front.
LEMMA SetDirectiveDefaultsKeeps ==
  ASSUME NEW f \in Forms, NEW t, Keeps(f, t), NEW n \in Notebooks, NEW c
  PROVE  LET g == SetDirectiveDefaults(ParseDirectives(n, c), f) IN
         /\ g \in Forms /\ Keeps(g, t)
         /\ ~g.tagsEdited => g.tags = Directive(n, c).tags
  <1> DEFINE d == Directive(n, c)
             g == SetDirectiveDefaults(ParseDirectives(n, c), f)
  <1>0. d.label \in Labels /\ d.tags \in SUBSET TagNames
    BY DirectiveNames DEF Labels, TagNames
  <1> HIDE DEF d
  <1>1. g = [f EXCEPT !.label = IF f.labelEdited \/ d.label = None THEN f.label ELSE d.label,
                      !.tags = IF f.tagsEdited THEN f.tags ELSE d.tags]
    BY DEF SetDirectiveDefaults, ParseDirectives, d
  <1> HIDE DEF g
  <1>2. /\ g.labelEdited = f.labelEdited /\ g.tagsEdited = f.tagsEdited
        /\ g.label = IF f.labelEdited \/ d.label = None THEN f.label ELSE d.label
        /\ g.tags = IF f.tagsEdited THEN f.tags ELSE d.tags
    BY <1>1 DEF Forms
  <1>3. g = [mode |-> f.mode, decision |-> f.decision, remember |-> f.remember,
             label |-> g.label, labelEdited |-> f.labelEdited, tags |-> g.tags,
             tagsEdited |-> f.tagsEdited]
    BY <1>1 DEF Forms
  <1>4. g.label \in Labels /\ g.tags \in SUBSET TagNames
    BY <1>0, <1>2 DEF Forms
  <1>5. g \in Forms
    BY <1>3, <1>4 DEF Forms
  <1>6. Keeps(g, t)
    BY <1>2 DEF Keeps
  <1>7. ~g.tagsEdited => g.tags = d.tags
    BY <1>2
  <1> QED BY <1>5, <1>6, <1>7 DEF d, g

LEMMA RefreshKeepsForm ==
  ASSUME NEW n \in Notebooks \cup {None}, NEW docs, NEW f \in Forms, NEW t, Keeps(f, t),
         Refresh(n, docs, f)
  PROVE  form' \in Forms /\ Keeps(form', t) /\ OwnTags(n, docs, form')
  <1>1. CASE n = None
    BY <1>1 DEF Refresh, OwnTags
  <1>2. CASE n # None
    <2>1. n \in Notebooks /\ form' = SetDirectiveDefaults(ParseDirectives(n, docs[n]), f)
      BY <1>2 DEF Refresh
    <2> QED BY <2>1, SetDirectiveDefaultsKeeps DEF OwnTags
  <1> QED BY <1>1, <1>2

LEMMA RefreshKeepsFormTyped ==
  ASSUME FormTyped, NEW n \in Notebooks \cup {None}, NEW docs, HasContents(docs),
         NEW f \in Forms, Keeps(f, typed'), Refresh(n, docs, f),
         typed' \in Typings, prefs' \in Settings, loaded' \in BOOLEAN
  PROVE  FormTyped'
  <1>1. current' = n /\ doc' = docs
    BY DEF Refresh
  <1>2. form' \in Forms /\ Keeps(form', typed') /\ OwnTags(n, docs, form')
    BY RefreshKeepsForm
  <1> QED BY <1>1, <1>2 DEF FormTyped, HasContents, OwnTags, Keeps

LEMMA SameFormTyped ==
  ASSUME FormTyped, UNCHANGED <<current, doc, form, typed>>,
         prefs' \in Settings, loaded' \in BOOLEAN
  PROVE  FormTyped'
  BY DEF FormTyped, HasContents, OwnTags, Keeps

LEMMA ContentKeepsFormTyped ==
  ASSUME FormTyped, NEW n \in Notebooks, NEW content, IsContent(content),
         ContentChanged(n, content)
  PROVE  FormTyped'
  <1> DEFINE docs == [doc EXCEPT ![n] = content]
  <1>1. HasContents(docs)
    BY DEF FormTyped, HasContents
  <1>2. Refresh(current, docs, form) /\ UNCHANGED <<prefs, loaded, typed>>
    BY DEF ContentChanged
  <1> HIDE DEF docs
  <1>3. Keeps(form, typed')
    BY <1>2 DEF FormTyped
  <1> QED BY <1>1, <1>2, <1>3, RefreshKeepsFormTyped DEF FormTyped

\* The tracked paths of a content are changed to others that are not refused.
LEMMA NewPaths ==
  ASSUME NEW c, IsContent(c), NEW paths, None \notin paths
  PROVE  IsContent([c EXCEPT !.watch = paths])
  <1> DEFINE d == [c EXCEPT !.watch = paths]
  <1>1. d.watch = paths /\ d \in [run : BOOLEAN, tagged : BOOLEAN, target : BOOLEAN,
                                 figures : BOOLEAN, watch : {paths}]
    BY DEF IsContent
  <1> HIDE DEF d
  <1>2. IsContent(d)
    BY <1>1 DEF IsContent
  <1> QED BY <1>2 DEF d

LEMMA NextKeepsFormTyped == FormTyped /\ [Next]_vars => FormTyped'
  <1> SUFFICES ASSUME FormTyped, [Next]_vars PROVE FormTyped'
    OBVIOUS
  <1>a. ASSUME NEW n \in Notebooks \cup {None}, NEW f \in Forms, Keeps(f, typed'), Refresh(n, doc, f),
               typed' \in Typings, prefs' \in Settings, loaded' \in BOOLEAN
        PROVE  FormTyped'
    BY <1>a, RefreshKeepsFormTyped DEF FormTyped
  <1>b. /\ form \in Forms /\ typed \in Typings /\ Keeps(form, typed) /\ prefs \in Settings
        /\ loaded \in BOOLEAN /\ current \in Notebooks \cup {None}
        /\ \A n \in Notebooks : IsContent(doc[n])
    BY DEF FormTyped, HasContents
  <1>1. ASSUME NEW n \in Notebooks \cup {None}, SwitchTo(n) PROVE FormTyped'
    BY <1>1, <1>a, <1>b DEF SwitchTo
  <1>2. ASSUME NEW n \in Notebooks, EditCells(n) PROVE FormTyped'
    <2>1. PICK c \in Docs : ContentChanged(n, [c EXCEPT !.target = doc[n].target,
                                                      !.watch = doc[n].watch])
      BY <1>2 DEF EditCells
    <2>2. IsContent(c) /\ IsContent(doc[n])
      BY <1>b, PlanAssumption
    <2>3. IsContent([c EXCEPT !.target = doc[n].target, !.watch = doc[n].watch])
      <3> DEFINE d == [c EXCEPT !.target = doc[n].target, !.watch = doc[n].watch]
      <3>1. d.watch = doc[n].watch /\ d \in [run : BOOLEAN, tagged : BOOLEAN, target : BOOLEAN,
                                            figures : BOOLEAN, watch : {doc[n].watch}]
        BY <2>2 DEF IsContent
      <3>2. None \notin doc[n].watch
        BY <2>2 DEF IsContent
      <3> HIDE DEF d
      <3>3. IsContent(d)
        BY <3>1, <3>2 DEF IsContent
      <3> QED BY <3>3 DEF d
    <2> QED BY <2>1, <2>3, ContentKeepsFormTyped
  <1>c. ASSUME current # None PROVE current \in Notebooks /\ IsContent(doc[current])
    BY <1>b, <1>c
  <1>3. CASE AddWatchedPath
    <2>1. PICK path : /\ path # None
                      /\ ContentChanged(current, [doc[current] EXCEPT !.watch =
                                                    ReadWatchedPaths(doc[current]) \cup {path}])
      BY <1>3 DEF AddWatchedPath
    <2>2. None \notin ReadWatchedPaths(doc[current]) \cup {path}
      BY <2>1 DEF ReadWatchedPaths
    <2>3. current # None
      BY <1>3 DEF AddWatchedPath
    <2> QED BY <1>c, <2>1, <2>2, <2>3, NewPaths, ContentKeepsFormTyped
  <1>4. CASE RemoveWatchedPath
    <2>1. PICK path : ContentChanged(current, [doc[current] EXCEPT !.watch =
                                                 ReadWatchedPaths(doc[current]) \ {path}])
      BY <1>4 DEF RemoveWatchedPath
    <2>2. None \notin ReadWatchedPaths(doc[current]) \ {path}
      BY DEF ReadWatchedPaths
    <2>3. current # None
      BY <1>4 DEF RemoveWatchedPath
    <2> QED BY <1>c, <2>1, <2>2, <2>3, NewPaths, ContentKeepsFormTyped
  <1>5. CASE UpdateTargetOptions
    <2>1. current # None /\ ContentChanged(current, [doc[current] EXCEPT !.target = ~@])
      BY <1>5 DEF UpdateTargetOptions
    <2> DEFINE d == [doc[current] EXCEPT !.target = ~@]
    <2>2. current \in Notebooks /\ IsContent(doc[current])
      BY <1>c, <2>1
    <2>3. d.watch = doc[current].watch /\ d \in [run : BOOLEAN, tagged : BOOLEAN, target : BOOLEAN,
                                                figures : BOOLEAN, watch : {doc[current].watch}]
      BY <2>2 DEF IsContent
    <2>4. ContentChanged(current, d)
      BY <2>1
    <2> HIDE DEF d
    <2>5. IsContent(d)
      BY <2>2, <2>3 DEF IsContent
    <2> QED BY <2>2, <2>4, <2>5, ContentKeepsFormTyped
  <1>6. CASE TypeLabel
    <2>1. PICK l \in {"typed", None} :
            /\ Refresh(current, doc, [form EXCEPT !.label = l, !.labelEdited = TRUE])
            /\ typed' = [typed EXCEPT !.label = l]
      BY <1>6 DEF TypeLabel
    <2> DEFINE f == [form EXCEPT !.label = l, !.labelEdited = TRUE]
    <2>2. /\ f \in Forms /\ f.label = l /\ f.labelEdited /\ f.tags = form.tags
          /\ f.tagsEdited = form.tagsEdited
      BY <1>b DEF Forms, Labels
    <2>3. typed' \in Typings /\ typed'.label = l /\ typed'.tags = typed.tags
      BY <1>b, <2>1 DEF Typings
    <2>4. Refresh(current, doc, f)
      BY <2>1
    <2> HIDE DEF f
    <2>5. Keeps(f, typed')
      BY <1>b, <2>2, <2>3 DEF Keeps
    <2>6. UNCHANGED <<prefs, loaded>>
      BY <1>6 DEF TypeLabel
    <2> QED BY <1>a, <1>b, <2>2, <2>3, <2>4, <2>5, <2>6
  <1>7. CASE TypeTags
    <2>1. PICK t \in {{"typed"}, {}} :
            /\ Refresh(current, doc, [form EXCEPT !.tags = t, !.tagsEdited = TRUE])
            /\ typed' = [typed EXCEPT !.tags = t]
      BY <1>7 DEF TypeTags
    <2> DEFINE f == [form EXCEPT !.tags = t, !.tagsEdited = TRUE]
    <2>2. /\ f \in Forms /\ f.tags = t /\ f.tagsEdited /\ f.label = form.label
          /\ f.labelEdited = form.labelEdited
      BY <1>b DEF Forms, TagNames
    <2>3. typed' \in Typings /\ typed'.tags = t /\ typed'.label = typed.label
      BY <1>b, <2>1 DEF Typings
    <2>4. Refresh(current, doc, f)
      BY <2>1
    <2> HIDE DEF f
    <2>5. Keeps(f, typed')
      BY <1>b, <2>2, <2>3 DEF Keeps
    <2>6. UNCHANGED <<prefs, loaded>>
      BY <1>7 DEF TypeTags
    <2> QED BY <1>a, <1>b, <2>2, <2>3, <2>4, <2>5, <2>6
  <1>8. CASE ChooseMode
    <2>1. PICK f : /\ f \in {[form EXCEPT !.decision = d] : d \in {"always", "never"}}
                            \cup {[form EXCEPT !.remember = ~@]}
                   /\ Refresh(current, doc, f)
      BY <1>8 DEF ChooseMode
    <2>2. /\ f \in Forms /\ f.label = form.label /\ f.labelEdited = form.labelEdited
          /\ f.tags = form.tags /\ f.tagsEdited = form.tagsEdited
      BY <1>b, <2>1 DEF Forms
    <2>3. UNCHANGED <<prefs, loaded, typed>>
      BY <1>8 DEF ChooseMode
    <2>4. Keeps(f, typed')
      BY <1>b, <2>2, <2>3 DEF Keeps
    <2> QED BY <1>a, <1>b, <2>1, <2>2, <2>3, <2>4
  <1>d. ASSUME NEW p \in Settings, Refresh(current, doc, SetPreferences(p, form)), typed' = typed,
               prefs' \in Settings, loaded' \in BOOLEAN
        PROVE  FormTyped'
    <2>1. SetPreferences(p, form) \in Forms /\ Keeps(SetPreferences(p, form), typed)
      BY <1>b, SetPreferencesKeeps
    <2> QED BY <1>a, <1>b, <1>d, <2>1
  <1>9. CASE LoadPreferences
    BY <1>9, <1>b, <1>d DEF LoadPreferences
  <1>10. CASE ChangePreferences
    <2>1. prefs' \in Settings /\ UNCHANGED <<loaded, typed>>
      BY <1>10, PlanAssumption DEF ChangePreferences, Settings
    <2>2. \/ Refresh(current, doc, SetPreferences(prefs', form))
          \/ UNCHANGED <<current, doc, form>>
      BY <1>10 DEF ChangePreferences
    <2> QED BY <1>b, <1>d, <2>1, <2>2, SameFormTyped
  <1>11. CASE Prepare
    <2>1. UNCHANGED <<loaded, typed>> /\ Remember(Options(form))
      BY <1>11 DEF Prepare
    <2>2. CASE UNCHANGED <<current, doc, prefs, form>>
      BY <1>b, <2>1, <2>2, SameFormTyped
    <2>3. CASE /\ prefs' = [prefs EXCEPT !.mode = Options(form).mode, !.remember = TRUE]
               /\ Refresh(current, doc, SetPreferences(prefs', form))
      <3>1. Options(form).mode \in Modes
        BY <1>b DEF Options, Forms, Modes
      <3>2. prefs' \in Settings
        BY <1>b, <2>3, <3>1 DEF Settings
      <3> QED BY <1>b, <1>d, <2>1, <2>3, <3>2
    <2> QED BY <2>1, <2>2, <2>3 DEF Remember
  <1>12. CASE UNCHANGED <<current, doc, prefs, loaded, form, typed>>
    BY <1>b, <1>12, SameFormTyped
  <1>13. \/ \E n \in Notebooks : Trigger(n)
         \/ Click \/ SaveFails \/ Submit \/ Execute \/ Fail \/ WorldChanges \/ PreviewReply
         \/ UNCHANGED vars
         => UNCHANGED <<current, doc, prefs, loaded, form, typed>>
    BY DEF Trigger, Click, SaveFails, Submit, Execute, Fail, WorldChanges, PreviewReply, vars, panel,
           ghost
  <1> QED
    BY <1>1, <1>2, <1>3, <1>4, <1>5, <1>6, <1>7, <1>8, <1>9, <1>10, <1>11, <1>12, <1>13 DEF Next

----------------------------------------------------------------------------
(* What the user typed, from the form to what is saved.                    *)

\* The options captured for a snapshot have what had been typed by then; a trigger
\* has added tags.
Carries(source, o, t) ==
  /\ o.labelEdited => o.label = t.label
  /\ t.label = "typed" => o.labelEdited
  /\ t.tags # None => t.tags \subseteq o.tags
  /\ t.tags # None /\ source = "manual" => o.tags = t.tags

AskedTyped ==
  asked # None =>
    /\ asked = [source |-> asked.source, notebook |-> asked.notebook, options |-> asked.options,
                kernel |-> asked.kernel, shown |-> asked.shown, typed |-> asked.typed]
    /\ asked.source \in {"manual", "trigger_cell"} /\ asked.notebook \in Notebooks
    /\ asked.kernel \in Kernels /\ asked.typed \in Typings
    /\ asked.options # None => Carries(asked.source, asked.options, asked.typed)

\* A request has it too: the typed label, else the kernel's; the typed tags with the
\* notebook's and the kernel's.
Labelled(b, t) == b.source = "manual" /\ t.label = "typed"
Added(b, k) == Directive(b.notebook, b.content).tags \cup k.tags
Sends(b, k, t) ==
  /\ Labelled(b, t) => b.label = "typed"
  /\ ~Labelled(b, t) /\ k.label # None => b.label = k.label
  /\ t.tags # None => t.tags \cup Added(b, k) \subseteq b.tags
  /\ t.tags # None /\ b.source = "manual" => b.tags = t.tags \cup Added(b, k)

RequestTyped ==
  request # None => Sends(request.body, request.kernel, request.typed) /\ request.kernel \in Kernels

\* The first layer wins when it is set.
LEMMA FirstIsFirst ==
  ASSUME NEW S, NEW c \in Seq(S), Len(c) > 0, c[1].value # None
  PROVE  First(c) = c[1]
  <1> DEFINE set == {i \in DOMAIN c : c[i].value # None}
  <1>1. DOMAIN c \subseteq Nat \ {0} /\ 1 \in set
    OBVIOUS
  <1>2. \A i \in set : (\A j \in set : i <= j) => i = 1
    BY <1>1
  <1>3. \A j \in set : 1 <= j
    BY <1>1
  <1>4. First(c) = c[CHOOSE i \in set : \A j \in set : i <= j]
    BY DEF First
  <1> HIDE DEF set
  <1>5. (CHOOSE i \in set : \A j \in set : i <= j) = 1
    BY <1>1, <1>2, <1>3
  <1> QED BY <1>4, <1>5

LEMMA FirstOfThree ==
  ASSUME NEW a, NEW b, NEW c, a.value # None
  PROVE  First(<<a, b, c>>) = a
  <1> DEFINE q == <<a, b, c>>
  <1>1. q \in Seq({a, b, c}) /\ Len(q) > 0 /\ q[1] = a
    OBVIOUS
  <1> HIDE DEF q
  <1>2. First(q) = q[1]
    BY <1>1, FirstIsFirst
  <1> QED BY <1>1, <1>2 DEF q

LEMMA FirstOfFour ==
  ASSUME NEW a, NEW b, NEW c, NEW d, a.value # None
  PROVE  First(<<a, b, c, d>>) = a
  <1> DEFINE q == <<a, b, c, d>>
  <1>1. q \in Seq({a, b, c, d}) /\ Len(q) > 0 /\ q[1] = a
    OBVIOUS
  <1> HIDE DEF q
  <1>2. First(q) = q[1]
    BY <1>1, FirstIsFirst
  <1> QED BY <1>1, <1>2 DEF q

LEMMA FirstOfFive ==
  ASSUME NEW a, NEW b, NEW c, NEW d, NEW e, a.value # None
  PROVE  First(<<a, b, c, d, e>>) = a
  <1> DEFINE q == <<a, b, c, d, e>>
  <1>1. q \in Seq({a, b, c, d, e}) /\ Len(q) > 0 /\ q[1] = a
    OBVIOUS
  <1> HIDE DEF q
  <1>2. First(q) = q[1]
    BY <1>1, FirstIsFirst
  <1> QED BY <1>1, <1>2 DEF q

LEMMA KernelNames ==
  ASSUME NEW k \in Kernels
  PROVE  /\ k = [label |-> k.label, tags |-> k.tags]
         /\ k.label # None => k.label = "kernel"
  BY DEF Kernels, NoKernel

\* A body is what was captured, with the notebook's own and the kernel's.
LEMMA ManualBodySends ==
  ASSUME NEW n, NEW c, NEW o, NEW k \in Kernels, NEW t \in Typings, Carries("manual", o, t)
  PROVE  Sends(ManualBody(n, c, o, k), k, t)
  <1> DEFINE d == Directive(n, c)
             l == ManualRunLabel(o, k, d)
             b == ManualBody(n, c, o, k)
  <1>1. /\ b.source = "manual" /\ b.notebook = n /\ b.content = c
        /\ b.label = (IF l = "" THEN None ELSE l)
        /\ b.tags = d.tags \cup k.tags \cup o.tags
    BY DEF ManualBody, BuildSnapshotRequestBody, ParseDirectives
  <1>2. t.label = "typed" => l = "typed"
    BY NoneIsNone DEF Carries, ManualRunLabel
  <1>3. (t.label # "typed" /\ k.label # None) => l = k.label
    <2> SUFFICES ASSUME t.label # "typed", k.label # None PROVE l = k.label
      OBVIOUS
    <2>1. ~(o.labelEdited /\ o.label # None)
      BY DEF Carries, Typings
    <2> DEFINE a == From(k.label, "kernel")
    <2>2. a.value = k.label
      BY DEF From
    <2> HIDE DEF a
    <2>3. First(<<a, From(o.label, "form"), From(d.label, "notebook"), From("", "none")>>) = a
      BY <2>2, FirstOfFour
    <2>4. l = First(<<a, From(o.label, "form"), From(d.label, "notebook"), From("", "none")>>).value
      BY <2>1 DEF ManualRunLabel, a
    <2> QED BY <2>2, <2>3, <2>4
  <1> HIDE DEF l, b, d
  <1>4. Labelled(b, t) => b.label = "typed"
    BY <1>1, <1>2 DEF Labelled
  <1>5. ~Labelled(b, t) /\ k.label # None => b.label = k.label
    BY <1>1, <1>3, KernelNames DEF Labelled
  <1>6. Added(b, k) = d.tags \cup k.tags
    BY <1>1 DEF Added, d
  <1>7. Sends(b, k, t)
    BY <1>1, <1>4, <1>5, <1>6 DEF Sends, Carries
  <1> QED BY <1>7 DEF b

LEMMA TriggerBodySends ==
  ASSUME NEW n, NEW c, NEW o, NEW k \in Kernels, NEW t \in Typings, Carries("trigger_cell", o, t)
  PROVE  Sends(TriggerBody(n, c, o, k), k, t)
  <1> DEFINE d == Directive(n, c)
             l == TriggerRunLabel(k, d, "cell")
             b == TriggerBody(n, c, o, k)
  <1>1. /\ b.source = "trigger_cell" /\ b.notebook = n /\ b.content = c
        /\ b.label = (IF l = "" THEN None ELSE l)
        /\ b.tags = d.tags \cup k.tags \cup o.tags
    BY DEF TriggerBody, BuildSnapshotRequestBody, ParseDirectives
  <1>3. k.label # None => l = k.label
    <2> SUFFICES ASSUME k.label # None PROVE l = k.label
      OBVIOUS
    <2> DEFINE a == From(k.label, "kernel")
    <2>2. a.value = k.label
      BY DEF From
    <2> HIDE DEF a
    <2>3. First(<<a, From(d.label, "notebook"), From("cell", "cell")>>) = a
      BY <2>2, FirstOfThree
    <2>4. l = First(<<a, From(d.label, "notebook"), From("cell", "cell")>>).value
      BY DEF TriggerRunLabel, a
    <2> QED BY <2>2, <2>3, <2>4
  <1> HIDE DEF l, b, d
  <1>4. ~Labelled(b, t)
    BY <1>1 DEF Labelled
  <1>5. k.label # None => b.label = k.label
    BY <1>1, <1>3, KernelNames
  <1>6. Added(b, k) = d.tags \cup k.tags
    BY <1>1 DEF Added, d
  <1>7. Sends(b, k, t)
    BY <1>1, <1>4, <1>5, <1>6 DEF Sends, Carries
  <1> QED BY <1>7 DEF b

\* The options of the form, and those of a trigger, carry what was typed.
LEMMA OptionsCarry ==
  ASSUME FormTyped, asked # None, AskedTyped, NEW k \in Kernels
  PROVE  Carries(asked.source, Captured(Options(form), asked.notebook, k), typed)
  <1> DEFINE o == Options(form)
             p == Captured(o, asked.notebook, k)
  <1>1. /\ o.label = form.label /\ o.labelEdited = form.labelEdited /\ o.tags = form.tags
        /\ o = [mode |-> o.mode, remember |-> o.remember, label |-> o.label,
                labelEdited |-> o.labelEdited, tags |-> o.tags]
    BY DEF Options
  <1>2. Keeps(form, typed)
    BY DEF FormTyped
  <1> HIDE DEF o
  <1>3. p.label = o.label /\ p.labelEdited = o.labelEdited /\ o.tags \subseteq p.tags
        /\ (asked.source = "manual" => p.tags = o.tags)
    BY <1>1 DEF Captured
  <1> HIDE DEF p
  <1>4. Carries(asked.source, p, typed)
    BY <1>1, <1>2, <1>3 DEF Carries, Keeps
  <1> QED BY <1>4 DEF o, p

Carried == FormTyped /\ AskedTyped /\ RequestTyped

LEMMA PrepareKeepsAsked ==
  ASSUME Carried, Prepare
  PROVE  AskedTyped'
  <1>1. PICK k \in Kernels :
          asked' = [asked EXCEPT !.options = Captured(Options(form), asked.notebook, k),
                                 !.kernel = k, !.typed = typed]
    BY DEF Prepare
  <1>2. asked # None
    BY DEF Prepare
  <1> DEFINE o == Captured(Options(form), asked.notebook, k)
  <1>3. Carries(asked.source, o, typed)
    BY <1>2, OptionsCarry DEF Carried
  <1>4. asked' = [asked EXCEPT !.options = o, !.kernel = k, !.typed = typed]
    BY <1>1
  <1>5. typed \in Typings
    BY DEF Carried, FormTyped
  <1> HIDE DEF o
  <1>6. asked = [source |-> asked.source, notebook |-> asked.notebook, options |-> asked.options,
                 kernel |-> asked.kernel, shown |-> asked.shown, typed |-> asked.typed]
    BY <1>2 DEF Carried, AskedTyped
  <1>7. asked' = [source |-> asked.source, notebook |-> asked.notebook, options |-> o,
                  kernel |-> k, shown |-> asked.shown, typed |-> typed]
    BY <1>4, <1>6
  <1> QED BY <1>2, <1>3, <1>5, <1>7 DEF Carried, AskedTyped

LEMMA SubmitKeepsRequest ==
  ASSUME Carried, Submit
  PROVE  RequestTyped'
  <1>1. /\ asked.source \in {"manual", "trigger_cell"} /\ asked.kernel \in Kernels
        /\ asked.typed \in Typings /\ Carries(asked.source, asked.options, asked.typed)
    BY DEF Submit, Carried, AskedTyped
  <1> DEFINE n == asked.notebook
             body == IF asked.source = "manual"
                     THEN ManualBody(n, doc[n], asked.options, asked.kernel)
                     ELSE TriggerBody(n, doc[n], asked.options, asked.kernel)
  <1>2. request'.body = body /\ request'.kernel = asked.kernel /\ request'.typed = asked.typed
    BY DEF Submit
  <1>3. Sends(body, asked.kernel, asked.typed)
    BY <1>1, ManualBodySends, TriggerBodySends
  <1> HIDE DEF body
  <1> QED BY <1>1, <1>2, <1>3 DEF RequestTyped

LEMMA NextKeepsCarried == Carried /\ [Next]_vars => Carried'
  <1> SUFFICES ASSUME Carried, [Next]_vars PROVE Carried'
    OBVIOUS
  <1>1. FormTyped'
    BY NextKeepsFormTyped DEF Carried
  <1>2. CASE UNCHANGED <<asked, request>>
    BY <1>1, <1>2 DEF Carried, AskedTyped, RequestTyped
  <1>3. ASSUME asked' = None, UNCHANGED request PROVE Carried'
    BY <1>1, <1>3 DEF Carried, AskedTyped, RequestTyped
  <1>4. ASSUME request' = None, UNCHANGED asked PROVE Carried'
    BY <1>1, <1>4 DEF Carried, AskedTyped, RequestTyped
  <1>5. CASE SaveFails
    BY <1>3, <1>5 DEF SaveFails
  <1>6. CASE Execute \/ Fail
    BY <1>4, <1>6 DEF Execute, Fail
  <1>7. ASSUME NEW src \in {"manual", "trigger_cell"}, NEW n \in Notebooks, NEW shown,
               asked' = [source |-> src, notebook |-> n, options |-> None, kernel |-> NoKernel,
                         shown |-> shown, typed |-> typed],
               UNCHANGED request
        PROVE  Carried'
    <2>1. typed \in Typings /\ NoKernel \in Kernels
      BY DEF Carried, FormTyped, Kernels
    <2>2. AskedTyped'
      BY <1>7, <2>1 DEF AskedTyped
    <2> QED BY <1>1, <1>7, <2>2 DEF Carried, RequestTyped
  <1>8. CASE Click
    <2>1. current \in Notebooks
      BY <1>8 DEF Click, Carried, FormTyped
    <2> QED BY <1>7, <1>8, <2>1 DEF Click
  <1>9. ASSUME NEW n \in Notebooks, Trigger(n) PROVE Carried'
    BY <1>7, <1>9 DEF Trigger
  <1>10. CASE Prepare
    <2>1. AskedTyped' /\ UNCHANGED request
      BY <1>10, PrepareKeepsAsked DEF Prepare
    <2> QED BY <1>1, <2>1 DEF Carried, RequestTyped
  <1>11. CASE Submit
    <2>1. RequestTyped' /\ asked' = None
      BY <1>11, SubmitKeepsRequest DEF Submit
    <2> QED BY <1>1, <2>1 DEF Carried, AskedTyped
  <1>12. \/ \E n \in Notebooks \cup {None} : SwitchTo(n)
         \/ \E n \in Notebooks : EditCells(n)
         \/ AddWatchedPath \/ RemoveWatchedPath \/ UpdateTargetOptions
         \/ TypeLabel \/ TypeTags \/ ChooseMode
         \/ LoadPreferences \/ ChangePreferences \/ PreviewReply \/ WorldChanges \/ UNCHANGED vars
         => UNCHANGED <<asked, request>>
    BY DEF SwitchTo, EditCells, AddWatchedPath, RemoveWatchedPath, UpdateTargetOptions, TypeLabel,
           TypeTags, ChooseMode, LoadPreferences, ChangePreferences, PreviewReply, WorldChanges,
           ContentChanged, vars
  <1> QED BY <1>2, <1>5, <1>6, <1>8, <1>9, <1>10, <1>11, <1>12 DEF Next

LEMMA InitCarried == Init => Carried
  <1> SUFFICES ASSUME Init PROVE Carried
    OBVIOUS
  <1>1. current \in Notebooks \cup {None} /\ doc \in [Notebooks -> Docs]
    BY DEF Init
  <1>2. HasContents(doc)
    BY <1>1, PlanAssumption DEF HasContents
  <1>3. Defaults \in Forms
    BY DEF Defaults, Forms, Modes, Labels, TagNames
  <1>4. Keeps(Defaults, typed) /\ typed \in Typings
    BY NoneIsNone DEF Init, Defaults, Keeps, Typings
  <1>5. form \in Forms /\ Keeps(form, typed) /\ OwnTags(current, doc, form)
    <2>1. CASE current = None
      BY <1>3, <1>4, <2>1 DEF Init, OwnTags
    <2>2. CASE current # None
      <3>1. /\ current \in Notebooks
            /\ form = SetDirectiveDefaults(ParseDirectives(current, doc[current]), Defaults)
        BY <1>1, <2>2 DEF Init
      <3> QED BY <1>3, <1>4, <3>1, SetDirectiveDefaultsKeeps DEF OwnTags
    <2> QED BY <2>1, <2>2
  <1>6. prefs \in Settings /\ loaded \in BOOLEAN
    BY PlanAssumption DEF Init, Settings
  <1>7. asked = None /\ request = None
    BY DEF Init
  <1> QED BY <1>1, <1>2, <1>4, <1>5, <1>6, <1>7 DEF Carried, FormTyped, AskedTyped, RequestTyped

WillCommit(b) == Resolve(b, world.config).mode.value = "always" /\ world.repo = "dirty"
PlanNow(b) == PlanCapture(Resolve(b, world.config), b, world.config, world.repo = "dirty",
                          WillCommit(b), "cell")
Gathered(b) == GatherWatchedFiles(Resolve(b, world.config).watched.value, world.disk)
Announced == IF request.shown # None /\ request.shown.age = world.age
             THEN request.shown.plan ELSE None
KindsNow(b, diff) == BundleKinds(Resolve(b, world.config), b.content, diff)
DiffNow(b, created, sections) ==
  WorkingTreeDiff(Resolve(b, world.config), world.repo, created, sections)

\* What an execution saves of its request.
Saves(b, created, sections) ==
  /\ created => WillCommit(b)
  /\ receipt'.source = b.source /\ receipt'.notebook = b.notebook
  /\ receipt'.label = PlanNow(b).label.value /\ receipt'.tags = PlanNow(b).tags
  /\ receipt'.target = Resolve(b, world.config).target
  /\ receipt'.mode = Resolve(b, world.config).mode
  /\ receipt'.kinds = KindsNow(b, DiffNow(b, created, sections))
  /\ receipt'.files = Gathered(b)
  /\ receipt'.willCommit = WillCommit(b) /\ receipt'.created = created
  /\ receipt'.smj_run = request.kernel.label /\ receipt'.typed = request.typed
  /\ receipt'.own = Added(b, request.kernel) \cup world.config.tags
  /\ receipt'.announced = Announced
  /\ world' = [world EXCEPT !.repo = IF created THEN "clean" ELSE @,
                            !.age = IF created THEN @ + 1 ELSE @]

LEMMA ExecuteSaves ==
  ASSUME Execute
  PROVE  \E created \in BOOLEAN : \E sections : Saves(request.body, created, sections)
  <1> DEFINE b == request.body
             e == Resolve(b, world.config)
             files == GatherWatchedFiles(e.watched.value, world.disk)
             willCommit == e.mode.value = "always" /\ world.repo = "dirty"
             plan == PlanCapture(e, b, world.config, world.repo = "dirty", willCommit, "cell")
             cr(something) == willCommit /\ CommitPaths(e, files, world.config) # {} /\ something
             diff(c, sections) == WorkingTreeDiff(e, world.repo, c, sections)
             own == Directive(b.notebook, b.content).tags \cup request.kernel.tags
                      \cup world.config.tags
             announced == IF request.shown # None /\ request.shown.age = world.age
                          THEN request.shown.plan ELSE None
  <1>1. PICK something \in BOOLEAN, sections \in SUBSET {"notebook", "other"} :
          /\ receipt' = [
               source |-> b.source, notebook |-> b.notebook,
               label |-> plan.label.value, tags |-> plan.tags, target |-> e.target, mode |-> e.mode,
               kinds |-> BundleKinds(e, b.content, diff(cr(something), sections)),
               files |-> files, willCommit |-> willCommit, created |-> cr(something),
               smj_run |-> request.kernel.label, own |-> own, typed |-> request.typed,
               announced |-> announced]
          /\ world' = [world EXCEPT !.repo = IF cr(something) THEN "clean" ELSE @,
                                    !.age = IF cr(something) THEN @ + 1 ELSE @]
    BY Zenon DEF Execute
  <1>2. PICK created \in BOOLEAN : created = cr(something)
    OBVIOUS
  <1>3. created => willCommit
    BY <1>2
  <1>4. own = Added(b, request.kernel) \cup world.config.tags
    BY DEF Added
  <1>5. plan = PlanNow(b) /\ files = Gathered(b) /\ willCommit = WillCommit(b) /\ announced = Announced
    BY DEF PlanNow, Gathered, WillCommit, Announced
  <1>6. BundleKinds(e, b.content, diff(created, sections)) = KindsNow(b, DiffNow(b, created, sections))
    BY DEF KindsNow, DiffNow
  <1>7. e = Resolve(b, world.config) /\ b = request.body
    OBVIOUS
  <1> HIDE DEF e, plan, files, willCommit, cr, diff, own, announced, b
  <1>8. receipt' = [
               source |-> b.source, notebook |-> b.notebook,
               label |-> plan.label.value, tags |-> plan.tags, target |-> e.target, mode |-> e.mode,
               kinds |-> BundleKinds(e, b.content, diff(created, sections)),
               files |-> files, willCommit |-> willCommit, created |-> created,
               smj_run |-> request.kernel.label, own |-> own, typed |-> request.typed,
               announced |-> announced]
    BY <1>1, <1>2
  <1>9. world' = [world EXCEPT !.repo = IF created THEN "clean" ELSE @,
                              !.age = IF created THEN @ + 1 ELSE @]
    BY <1>1, <1>2
  <1>10. Saves(b, created, sections)
    BY <1>3, <1>4, <1>5, <1>6, <1>7, <1>8, <1>9 DEF Saves
  <1> QED BY <1>7, <1>10

LEMMA PlannedLabel ==
  ASSUME NEW b, NEW cell, b.label # None
  PROVE  ResolveRunLabel(b, cell).value = b.label
  <1> DEFINE a == From(b.label, "request")
  <1>1. a.value = b.label
    BY DEF From
  <1> HIDE DEF a
  <1>2. First(<<a, From(Directive(b.notebook, b.content).label, "notebook"),
                From(UserSettings.label, "user"),
                From(IF b.source = "trigger_cell" THEN cell ELSE None, "inferred"),
                From("", "none")>>) = a
    BY <1>1, FirstOfFive
  <1> QED BY <1>1, <1>2 DEF ResolveRunLabel, a

LEMMA ExecuteKeepsTyped ==
  ASSUME Carried, Execute
  PROVE  TypedIsSaved'
  <1> DEFINE b == request.body
             k == request.kernel
             t == request.typed
             plan == PlanNow(b)
  <1>1. /\ receipt'.source = b.source
        /\ receipt'.label = plan.label.value /\ receipt'.tags = plan.tags
        /\ receipt'.smj_run = k.label /\ receipt'.typed = t
        /\ receipt'.own = Added(b, k) \cup world.config.tags
    BY ExecuteSaves DEF Saves
  <1>2. Sends(b, k, t)
    BY DEF Execute, Carried, RequestTyped
  <1>3. b.label # None => plan.label.value = b.label
    <2>1. plan.label = ResolveRunLabel(b, "cell")
      BY DEF PlanNow, PlanCapture
    <2> QED BY <2>1, PlannedLabel
  <1>4. plan.tags = Directive(b.notebook, b.content).tags \cup b.tags \cup world.config.tags
    BY DEF PlanNow, PlanCapture, DefaultTags, UserSettings
  <1> HIDE DEF plan, b, k, t
  <1>5. Labelled(b, t) => receipt'.label = "typed"
    BY <1>1, <1>2, <1>3, NoneIsNone DEF Sends
  <1>6. ~Labelled(b, t) /\ k.label # None => receipt'.label = k.label
    BY <1>1, <1>2, <1>3 DEF Sends
  <1>7. t.tags # None => t.tags \cup receipt'.own \subseteq receipt'.tags
    BY <1>1, <1>2, <1>4 DEF Sends
  <1>8. t.tags # None /\ b.source = "manual" => receipt'.tags = t.tags \cup receipt'.own
    BY <1>1, <1>2, <1>4 DEF Sends, Added
  <1> QED BY <1>1, <1>5, <1>6, <1>7, <1>8 DEF TypedIsSaved, Labelled

\* What the user has typed reaches the snapshot, whatever notebook came to the front and
\* however the settings changed in between (controller.ts:263-322,
\* snapshotRequestBodies.ts:20-117, resolve.py, plan.py).
THEOREM WhatIsTypedIsSaved == Spec => []TypedIsSaved
  <1>1. Init => TypedIsSaved
    BY DEF Init, TypedIsSaved, Saved
  <1>2. TypedIsSaved /\ Carried /\ [Next]_vars => TypedIsSaved'
    <2> SUFFICES ASSUME TypedIsSaved, Carried, [Next]_vars PROVE TypedIsSaved'
      OBVIOUS
    <2>1. CASE Execute
      BY <2>1, ExecuteKeepsTyped
    <2>2. CASE Fail
      BY <2>2 DEF Fail, TypedIsSaved, Saved
    <2>3. CASE UNCHANGED receipt
      BY <2>3 DEF TypedIsSaved, Saved
    <2>4. Execute \/ Fail \/ UNCHANGED receipt
      BY DEF Next, SwitchTo, EditCells, Trigger, AddWatchedPath, RemoveWatchedPath,
         UpdateTargetOptions, TypeLabel, TypeTags, ChooseMode, LoadPreferences, ChangePreferences,
         PreviewReply, Click, Prepare, SaveFails, Submit, WorldChanges, ContentChanged, vars
    <2> QED BY <2>1, <2>2, <2>3, <2>4
  <1> QED BY <1>1, <1>2, InitCarried, NextKeepsCarried, PTL DEF Spec

----------------------------------------------------------------------------
(* The review and what is saved.                                           *)

WorldTyped ==
  /\ world = [repo |-> world.repo, config |-> world.config, disk |-> world.disk, age |-> world.age]
  /\ world.repo \in Repos /\ world.age \in Nat

\* A review is of the world of its time: while that is as it was, the review shows
\* what the server would answer now.
ShownAt(r, w) ==
  r # None =>
    /\ r.age \in Nat /\ r.age <= w.age
    /\ r.age = w.age => r.plan = Preview(r.body, w)
    /\ r.body.source = "manual"

PreviewsTyped ==
  /\ \A p \in previews : p.newest \in BOOLEAN /\ p.body.source = "manual"
  /\ review # None => review.newest \in BOOLEAN

Announcing ==
  /\ WorldTyped /\ Shaped /\ PreviewsTyped
  /\ ShownAt(review, world)
  /\ asked # None => ShownAt(asked.shown, world)
  /\ request # None =>
       /\ ShownAt(request.shown, world)
       /\ request.shown # None => request.shown.body = request.body

LEMMA ShownLater ==
  ASSUME NEW r, NEW w, NEW v, ShownAt(r, w), w.age \in Nat, v = w \/ v.age = w.age + 1
  PROVE  ShownAt(r, v)
  BY DEF ShownAt

\* The review is replaced by nothing or grows old.
LEMMA RefreshKeepsShown ==
  ASSUME Announcing, NEW n, NEW docs, NEW f, Refresh(n, docs, f)
  PROVE  PreviewsTyped' /\ ShownAt(review', world)
  <1>1. CASE n = None
    BY <1>1 DEF Refresh, Announcing, PreviewsTyped, ShownAt
  <1>2. CASE n # None
    <2> DEFINE body == ManualBody(n, docs[n], Options(form'), NoKernel)
    <2>1. AskPreview(body)
      BY <1>2 DEF Refresh
    <2>2. body.source = "manual"
      BY DEF ManualBody, BuildSnapshotRequestBody
    <2> HIDE DEF body
    <2>3. PICK b : b = body
      OBVIOUS
    <2>4. ASSUME NEW p \in previews' PROVE p.newest \in BOOLEAN /\ p.body.source = "manual"
      <3>1. \/ p = [newest |-> TRUE, body |-> b]
            \/ \E q \in previews : p = [q EXCEPT !.newest = FALSE]
        BY <2>1, <2>3, <2>4 DEF AskPreview
      <3>2. ASSUME NEW q \in previews, p = [q EXCEPT !.newest = FALSE]
            PROVE  p = [newest |-> FALSE, body |-> q.body] /\ q.body.source = "manual"
        <4>1. q = [newest |-> q.newest, body |-> q.body]
          BY DEF Announcing, Shaped
        <4>2. q.body.source = "manual"
          BY DEF Announcing, PreviewsTyped
        <4>3. p = [newest |-> FALSE, body |-> q.body]
          BY <3>2, <4>1
        <4> QED BY <4>2, <4>3
      <3>3. CASE p = [newest |-> TRUE, body |-> b]
        BY <2>2, <2>3, <3>3
      <3>4. ASSUME NEW q \in previews, p = [q EXCEPT !.newest = FALSE]
            PROVE  p.newest \in BOOLEAN /\ p.body.source = "manual"
        <4>1. p = [newest |-> FALSE, body |-> q.body] /\ q.body.source = "manual"
          BY <3>2, <3>4
        <4>2. p.newest = FALSE /\ p.body = q.body
          BY <4>1
        <4> QED BY <4>1, <4>2
      <3> QED BY <3>1, <3>3, <3>4
    <2>5. CASE review = None
      <3>1. review' = None
        BY <2>1, <2>5 DEF AskPreview
      <3> QED BY <2>4, <3>1 DEF PreviewsTyped, ShownAt
    <2>6. CASE review # None
      <3>1. review' = [review EXCEPT !.newest = FALSE]
        BY <2>1, <2>6 DEF AskPreview
      <3>2. review = [newest |-> review.newest, body |-> review.body,
                      plan |-> review.plan, age |-> review.age]
        BY <2>6 DEF Announcing, Shaped
      <3>3. review' = [newest |-> FALSE, body |-> review.body,
                       plan |-> review.plan, age |-> review.age]
        BY <3>1, <3>2
      <3>4. /\ ~review'.newest /\ review'.newest \in BOOLEAN /\ review'.body = review.body
            /\ review'.plan = review.plan /\ review'.age = review.age
        BY <3>3
      <3>5. ShownAt(review', world)
        BY <2>6, <3>4 DEF Announcing, ShownAt
      <3> QED BY <2>4, <3>4, <3>5 DEF PreviewsTyped
    <2> QED BY <2>5, <2>6
  <1> QED BY <1>1, <1>2

LEMMA ReplyKeepsShown ==
  ASSUME Announcing, PreviewReply
  PROVE  PreviewsTyped' /\ ShownAt(review', world)
  <1>1. PICK p \in previews :
          /\ previews' = previews \ {p}
          /\ \/ UNCHANGED review
             \/ review' = [newest |-> p.newest, body |-> p.body,
                           plan |-> Preview(p.body, world), age |-> world.age]
    BY Zenon DEF PreviewReply
  <1>2. p.newest \in BOOLEAN /\ p.body.source = "manual" /\ world.age \in Nat
    BY DEF Announcing, PreviewsTyped, WorldTyped
  <1>3. CASE UNCHANGED review
    BY <1>1, <1>3 DEF Announcing, PreviewsTyped, ShownAt
  <1>4. CASE review' = [newest |-> p.newest, body |-> p.body,
                        plan |-> Preview(p.body, world), age |-> world.age]
    <2>1. PICK plan : plan = Preview(p.body, world)
      OBVIOUS
    <2>2. /\ review'.newest = p.newest /\ review'.body = p.body
          /\ review'.plan = plan /\ review'.age = world.age
      BY <1>4, <2>1
    <2>3. ShownAt(review', world)
      BY <1>2, <2>1, <2>2 DEF ShownAt
    <2> QED BY <1>1, <1>2, <2>2, <2>3 DEF Announcing, PreviewsTyped
  <1> QED BY <1>1, <1>3, <1>4

\* The world stays, or is a younger one of the same kind.
LEMMA WorldStep ==
  ASSUME WorldTyped, [Next]_vars
  PROVE  /\ WorldTyped'
         /\ world' = world \/ world'.age = world.age + 1
  <1>1. CASE WorldChanges
    <2>1. PICK w \in Worlds : world' = ReadAt(w, world.age + 1)
      BY <1>1 DEF WorldChanges
    <2>2. w.repo \in Repos /\ world.age + 1 \in Nat
      BY PlanAssumption DEF WorldTyped
    <2>3. world' = [repo |-> w.repo, config |-> w.config, disk |-> w.disk, age |-> world.age + 1]
      BY <2>1 DEF ReadAt
    <2>4. world'.age = world.age + 1
      BY <2>3
    <2>5. /\ world'.repo \in Repos /\ world'.age \in Nat
          /\ world' = [repo |-> world'.repo, config |-> world'.config, disk |-> world'.disk,
                       age |-> world'.age]
      BY <2>2, <2>3
    <2>6. WorldTyped'
      BY <2>5 DEF WorldTyped
    <2> QED BY <2>4, <2>6
  <1>2. CASE Execute
    <2>1. PICK created \in BOOLEAN :
            world' = [world EXCEPT !.repo = IF created THEN "clean" ELSE @,
                                   !.age = IF created THEN @ + 1 ELSE @]
      BY <1>2, ExecuteSaves DEF Saves
    <2> DEFINE repo == IF created THEN "clean" ELSE world.repo
               age == IF created THEN world.age + 1 ELSE world.age
    <2>2. /\ repo \in Repos /\ age \in Nat
          /\ (repo = world.repo /\ age = world.age) \/ age = world.age + 1
      BY DEF WorldTyped, Repos
    <2>3. world' = [world EXCEPT !.repo = repo, !.age = age]
      BY <2>1
    <2> HIDE DEF repo, age
    <2>4. world' = [repo |-> repo, config |-> world.config, disk |-> world.disk, age |-> age]
      BY <2>3 DEF WorldTyped
    <2>5. /\ world'.repo \in Repos /\ world'.age \in Nat /\ world'.age = age
          /\ world' = [repo |-> world'.repo, config |-> world'.config, disk |-> world'.disk,
                       age |-> world'.age]
      BY <2>2, <2>4
    <2>6. WorldTyped'
      BY <2>5 DEF WorldTyped
    <2>7. world' = world \/ world'.age = world.age + 1
      BY <2>2, <2>4 DEF WorldTyped
    <2> QED BY <2>6, <2>7
  <1>3. CASE UNCHANGED world
    BY <1>3 DEF WorldTyped
  <1>4. WorldChanges \/ Execute \/ UNCHANGED world
    BY DEF Next, SwitchTo, EditCells, Trigger, AddWatchedPath, RemoveWatchedPath,
       UpdateTargetOptions, TypeLabel, TypeTags, ChooseMode, LoadPreferences, ChangePreferences,
       PreviewReply, Click, Prepare, SaveFails, Submit, Fail, ContentChanged, vars
  <1> QED BY <1>1, <1>2, <1>3, <1>4

\* The review of a snapshot goes with it as it was at the click.
Followed == Carried /\ Reviewed /\ Announcing

LEMMA NextKeepsPreviewsShown ==
  ASSUME Followed, [Next]_vars
  PROVE  PreviewsTyped' /\ ShownAt(review', world)
  <1>1. CASE PreviewReply
    BY <1>1, ReplyKeepsShown DEF Followed
  <1>2. CASE UNCHANGED <<previews, review>>
    BY <1>2 DEF Followed, Announcing, PreviewsTyped
  <1>3. CASE \E n, docs, f : Refresh(n, docs, f)
    BY <1>3, RefreshKeepsShown DEF Followed
  <1>4. ASSUME NEW n, NEW content, ContentChanged(n, content)
        PROVE  \E m, docs, f : Refresh(m, docs, f)
    BY <1>4 DEF ContentChanged
  <1>5. ASSUME NEW n \in Notebooks, EditCells(n) PROVE \E m, docs, f : Refresh(m, docs, f)
    <2>1. PICK content : ContentChanged(n, content)
      BY <1>5 DEF EditCells
    <2> QED BY <1>4, <2>1
  <1>6. CASE AddWatchedPath \/ RemoveWatchedPath \/ UpdateTargetOptions
    <2>1. PICK content : ContentChanged(current, content)
      BY <1>6 DEF AddWatchedPath, RemoveWatchedPath, UpdateTargetOptions
    <2>2. \E m, docs, f : Refresh(m, docs, f)
      BY <1>4, <2>1
    <2> QED BY <1>3, <2>2
  <1>7. ASSUME NEW n \in Notebooks \cup {None}, SwitchTo(n) PROVE \E m, docs, f : Refresh(m, docs, f)
    BY <1>7 DEF SwitchTo
  <1>8. CASE TypeLabel \/ TypeTags \/ ChooseMode
    BY <1>3, <1>8 DEF TypeLabel, TypeTags, ChooseMode
  <1>9. CASE LoadPreferences \/ ChangePreferences \/ Prepare
    BY <1>2, <1>3, <1>9 DEF LoadPreferences, ChangePreferences, Prepare, Remember
  <1>10. \/ \E n \in Notebooks : Trigger(n)
         \/ Click \/ SaveFails \/ Submit \/ Execute \/ Fail \/ WorldChanges \/ UNCHANGED vars
         => UNCHANGED <<previews, review>>
    BY DEF Trigger, Click, SaveFails, Submit, Execute, Fail, WorldChanges, vars, panel
  <1> QED BY <1>1, <1>2, <1>3, <1>5, <1>6, <1>7, <1>8, <1>9, <1>10 DEF Next

\* The review a snapshot carries is the one at its click, and its request keeps it
\* only if it is about that request.
LEMMA NextKeepsAskedShown ==
  ASSUME Followed, [Next]_vars
  PROVE  /\ asked' # None => ShownAt(asked'.shown, world)
         /\ request' # None =>
              /\ ShownAt(request'.shown, world)
              /\ request'.shown # None => request'.shown.body = request'.body
  <1> DEFINE Goal == /\ asked' # None => ShownAt(asked'.shown, world)
                     /\ request' # None =>
                          /\ ShownAt(request'.shown, world)
                          /\ request'.shown # None => request'.shown.body = request'.body
  <1>0. ShownAt(None, world)
    BY DEF ShownAt
  <1>1. CASE UNCHANGED <<asked, request>>
    BY <1>1 DEF Followed, Announcing
  <1>2. ASSUME NEW src, NEW n, NEW r, ShownAt(r, world),
               asked' = [source |-> src, notebook |-> n, options |-> None, kernel |-> NoKernel,
                         shown |-> r, typed |-> typed],
               UNCHANGED request
        PROVE  Goal
    <2>1. asked'.shown = r
      BY <1>2
    <2> QED BY <1>2, <2>1 DEF Followed, Announcing
  <1>3. CASE Click
    <2>1. ShownAt(review, world)
      BY DEF Followed, Announcing
    <2> QED BY <1>2, <1>3, <2>1 DEF Click
  <1>4. ASSUME NEW n \in Notebooks, Trigger(n) PROVE Goal
    BY <1>0, <1>2, <1>4 DEF Trigger
  <1>5. CASE SaveFails \/ Execute \/ Fail
    BY <1>5 DEF SaveFails, Execute, Fail, Followed, Announcing
  <1>6. CASE Prepare
    <2>1. PICK o, k : asked' = [asked EXCEPT !.options = o, !.kernel = k, !.typed = typed]
      BY <1>6 DEF Prepare
    <2>2. asked # None /\ UNCHANGED request
      BY <1>6 DEF Prepare
    <2>3. asked = [source |-> asked.source, notebook |-> asked.notebook, options |-> asked.options,
                   kernel |-> asked.kernel, shown |-> asked.shown, typed |-> asked.typed]
      BY <2>2 DEF Followed, Carried, AskedTyped
    <2>4. asked' = [source |-> asked.source, notebook |-> asked.notebook, options |-> o,
                    kernel |-> k, shown |-> asked.shown, typed |-> typed]
      BY <2>1, <2>3
    <2>5. asked'.shown = asked.shown
      BY <2>4
    <2> QED BY <2>2, <2>5 DEF Followed, Announcing
  <1>7. CASE Submit
    <2> DEFINE n == asked.notebook
               body == IF asked.source = "manual"
                       THEN ManualBody(n, doc[n], asked.options, asked.kernel)
                       ELSE TriggerBody(n, doc[n], asked.options, asked.kernel)
               r == IF asked.shown # None /\ asked.shown.body = body THEN asked.shown ELSE None
    <2>1. request' = [body |-> body, kernel |-> asked.kernel, typed |-> asked.typed, shown |-> r]
      BY <1>7 DEF Submit
    <2>2. ShownAt(asked.shown, world) /\ asked' = None
      BY <1>7 DEF Submit, Followed, Announcing
    <2>3. ShownAt(r, world) /\ (r # None => r.body = body)
      BY <1>0, <2>2
    <2> HIDE DEF body, r
    <2>4. request'.shown = r /\ request'.body = body
      BY <2>1
    <2> QED BY <2>2, <2>3, <2>4
  <1>8. \/ \E n \in Notebooks \cup {None} : SwitchTo(n)
        \/ \E n \in Notebooks : EditCells(n)
        \/ AddWatchedPath \/ RemoveWatchedPath \/ UpdateTargetOptions
        \/ TypeLabel \/ TypeTags \/ ChooseMode
        \/ LoadPreferences \/ ChangePreferences \/ PreviewReply \/ WorldChanges \/ UNCHANGED vars
        => UNCHANGED <<asked, request>>
    BY DEF SwitchTo, EditCells, AddWatchedPath, RemoveWatchedPath, UpdateTargetOptions, TypeLabel,
           TypeTags, ChooseMode, LoadPreferences, ChangePreferences, PreviewReply, WorldChanges,
           ContentChanged, vars
  <1> QED BY <1>1, <1>3, <1>4, <1>5, <1>6, <1>7, <1>8 DEF Next

LEMMA NextKeepsFollowed == Followed /\ [Next]_vars => Followed'
  <1> SUFFICES ASSUME Followed, [Next]_vars PROVE Followed'
    OBVIOUS
  <1>1. Carried' /\ Reviewed' /\ Shaped'
    BY NextKeepsCarried, NextKeepsReviewed DEF Followed, Reviewed
  <1>2. /\ WorldTyped' /\ world.age \in Nat
        /\ world' = world \/ world'.age = world.age + 1
    BY WorldStep DEF Followed, Announcing, WorldTyped
  <1>3. PreviewsTyped' /\ ShownAt(review', world)
    BY NextKeepsPreviewsShown
  <1>4. /\ asked' # None => ShownAt(asked'.shown, world)
        /\ request' # None =>
             /\ ShownAt(request'.shown, world)
             /\ request'.shown # None => request'.shown.body = request'.body
    BY NextKeepsAskedShown
  <1>5. ASSUME NEW r, ShownAt(r, world) PROVE ShownAt(r, world')
    BY <1>2, <1>5, ShownLater
  <1>6. /\ ShownAt(review', world')
        /\ asked' # None => ShownAt(asked'.shown, world')
        /\ request' # None => ShownAt(request'.shown, world')
    BY <1>3, <1>4, <1>5
  <1>7. Announcing'
    BY <1>1, <1>2, <1>3, <1>4, <1>6 DEF Announcing, ShownAt
  <1> QED BY <1>1, <1>7 DEF Followed

LEMMA InitFollowed == Init => Followed
  <1> SUFFICES ASSUME Init PROVE Followed
    OBVIOUS
  <1>1. Carried /\ Reviewed /\ Shaped
    BY InitCarried, InitReviewed DEF Reviewed
  <1>2. review = None /\ asked = None /\ request = None
    BY DEF Init
  <1>3. WorldTyped
    <2>1. PICK w \in Worlds : world = ReadAt(w, 0)
      BY DEF Init
    <2>2. world = [repo |-> w.repo, config |-> w.config, disk |-> w.disk, age |-> 0]
      BY <2>1 DEF ReadAt
    <2>3. world.repo \in Repos /\ world.age \in Nat
      BY <2>2, PlanAssumption
    <2> QED BY <2>2, <2>3 DEF WorldTyped
  <1>4. PreviewsTyped
    <2> DEFINE body == ManualBody(current, doc[current], Options(form), NoKernel)
    <2>1. previews = {} \/ previews = {[newest |-> TRUE, body |-> body]}
      BY DEF Init
    <2>2. body.source = "manual"
      BY DEF ManualBody, BuildSnapshotRequestBody
    <2> HIDE DEF body
    <2>3. ASSUME NEW p \in previews PROVE p.newest \in BOOLEAN /\ p.body.source = "manual"
      <3>1. p = [newest |-> TRUE, body |-> body]
        BY <2>1
      <3>2. p.newest = TRUE /\ p.body = body
        BY <3>1
      <3> QED BY <2>2, <3>2
    <2> QED BY <1>2, <2>3 DEF PreviewsTyped
  <1> QED BY <1>1, <1>2, <1>3, <1>4 DEF Followed, Announcing, ShownAt

----------------------------------------------------------------------------
\* The plan of the review and the plan of the execution, for a click: only the label
\* could tell which cell was run.
LEMMA AnnouncedIsPlanned ==
  ASSUME Followed, Execute, Announced # None
  PROVE  LET b == request.body IN
         /\ b.source = "manual"
         /\ Announced = PlanCapture(Resolve(b, world.config), b, world.config, world.repo = "dirty",
                                    WillCommit(b), None)
  <1> DEFINE b == request.body
             r == request.shown
  <1>1. request # None
    BY DEF Execute
  <1>2. r # None /\ r.age = world.age /\ Announced = r.plan
    BY DEF Announced
  <1>3. r.body = b /\ ShownAt(r, world)
    BY <1>1, <1>2 DEF Followed, Announcing
  <1>4. r.body.source = "manual" /\ r.plan = Preview(r.body, world)
    BY <1>2, <1>3 DEF ShownAt
  <1>5. Preview(b, world) = PlanCapture(Resolve(b, world.config), b, world.config,
                                        world.repo = "dirty", WillCommit(b), None)
    BY DEF Preview, WillCommit
  <1> QED BY <1>2, <1>3, <1>4, <1>5

\* The label of a click does not depend on the cell.
LEMMA ManualLabel ==
  ASSUME NEW b, b.source = "manual", NEW c, NEW d
  PROVE  ResolveRunLabel(b, c) = ResolveRunLabel(b, d)
  BY DEF ResolveRunLabel

\* The kinds of pages of the bundle are those of the plan, but for the patch.
LEMMA KindsAgree ==
  ASSUME NEW b, NEW created \in BOOLEAN, NEW sections, created => WillCommit(b), NEW cell
  PROVE  LET planned == PlanCapture(Resolve(b, world.config), b, world.config, world.repo = "dirty",
                                    WillCommit(b), cell).kinds
             saved == KindsNow(b, DiffNow(b, created, sections))
         IN /\ saved \ {"diff"} = planned \ {"diff"}
            /\ "diff" \in saved => "diff" \in planned \/ (WillCommit(b) /\ ~created)
  <1> DEFINE e == Resolve(b, world.config)
             notebook == e.notebook.value
             figures == b.content.figures
             diff == e.diff.value
             dirty == world.repo = "dirty"
             patch == DiffNow(b, created, sections)
             planned == PlanCapture(e, b, world.config, dirty, WillCommit(b), cell).kinds
             saved == KindsNow(b, patch)
  <1>1. planned = {k \in {"notebook", "figure", "diff"} :
                     CASE k = "notebook" -> notebook
                       [] k = "figure"   -> figures /\ ~notebook
                       [] k = "diff"     -> diff /\ dirty /\ ~WillCommit(b)}
    BY DEF PlanCapture
  <1>2. saved = (IF notebook THEN {"notebook"} ELSE IF figures THEN {"figure"} ELSE {})
                  \cup (IF patch THEN {"diff"} ELSE {})
    BY DEF KindsNow, BundleKinds
  <1>3. patch => dirty /\ diff /\ ~created
    BY DEF DiffNow, WorkingTreeDiff
  <1> HIDE DEF notebook, figures, diff, dirty, patch, planned, saved
  <1>4. /\ "notebook" \in planned <=> notebook
        /\ "figure" \in planned <=> figures /\ ~notebook
        /\ "diff" \in planned <=> diff /\ dirty /\ ~WillCommit(b)
        /\ planned \subseteq {"notebook", "figure", "diff"}
    BY <1>1
  <1>5. /\ "notebook" \in saved <=> notebook
        /\ "figure" \in saved <=> figures /\ ~notebook
        /\ "diff" \in saved <=> patch
        /\ saved \subseteq {"notebook", "figure", "diff"}
    BY <1>2
  <1>6. saved \ {"diff"} = planned \ {"diff"}
    BY <1>4, <1>5
  <1>7. "diff" \in saved => "diff" \in planned \/ (WillCommit(b) /\ ~created)
    BY <1>3, <1>4, <1>5
  <1> QED BY <1>6, <1>7 DEF planned, saved, patch, dirty, e

LEMMA ExecuteAsAnnounced ==
  ASSUME Followed, Execute
  PROVE  SavedAsAnnounced'
  <1> DEFINE b == request.body
             e == Resolve(b, world.config)
             plan == PlanNow(b)
  <1>0. PICK created \in BOOLEAN : \E sections : Saves(b, created, sections)
    BY ExecuteSaves
  <1>a. PICK sections : Saves(b, created, sections)
    BY <1>0
  <1>1. /\ created => WillCommit(b)
        /\ receipt'.label = plan.label.value /\ receipt'.tags = plan.tags
        /\ receipt'.target = e.target /\ receipt'.mode = e.mode
        /\ receipt'.kinds = KindsNow(b, DiffNow(b, created, sections))
        /\ receipt'.files = Gathered(b)
        /\ receipt'.willCommit = WillCommit(b) /\ receipt'.created = created
        /\ receipt'.announced = Announced
    BY <1>a DEF Saves
  <1> SUFFICES ASSUME Announced # None
               PROVE  /\ <<receipt'.label, receipt'.tags, receipt'.target, receipt'.mode>>
                           = <<Announced.label.value, Announced.tags, Announced.target, Announced.mode>>
                      /\ receipt'.kinds \ {"diff"} = Announced.kinds \ {"diff"}
                      /\ \A f \in receipt'.files :
                           \E p \in Announced.patterns : MatchesWatchPattern(f.path, p)
                      /\ "diff" \in receipt'.kinds =>
                           "diff" \in Announced.kinds \/ (receipt'.willCommit /\ ~receipt'.created)
    BY <1>1 DEF SavedAsAnnounced
  <1> DEFINE shown == PlanCapture(e, b, world.config, world.repo = "dirty", WillCommit(b), None)
  <1>2. b.source = "manual" /\ Announced = shown
    BY AnnouncedIsPlanned
  <1>3. plan.label = shown.label
    BY <1>2, ManualLabel DEF PlanNow, PlanCapture
  <1>4. /\ plan.tags = shown.tags /\ shown.target = e.target /\ shown.mode = e.mode
        /\ shown.patterns = e.watched.value
    BY DEF PlanNow, PlanCapture
  <1>5. /\ receipt'.kinds \ {"diff"} = shown.kinds \ {"diff"}
        /\ "diff" \in receipt'.kinds => "diff" \in shown.kinds \/ (WillCommit(b) /\ ~created)
    BY <1>1, KindsAgree
  <1>6. \A f \in Gathered(b) : \E p \in e.watched.value : MatchesWatchPattern(f.path, p)
    BY DEF Gathered, GatherWatchedFiles
  <1> HIDE DEF plan, shown, e, b
  <1> QED BY <1>1, <1>2, <1>3, <1>4, <1>5, <1>6

\* A snapshot whose request is the reviewed one, in a world that has not changed since,
\* saves what the review announced, whatever is configured (render.py:87-99,
\* pipeline.py:125-173, plan.py, resolve.py).
THEOREM SavedIsAnnounced == Spec => []SavedAsAnnounced
  <1>1. Init => SavedAsAnnounced
    BY DEF Init, SavedAsAnnounced, Saved
  <1>2. SavedAsAnnounced /\ Followed /\ [Next]_vars => SavedAsAnnounced'
    <2> SUFFICES ASSUME SavedAsAnnounced, Followed, [Next]_vars PROVE SavedAsAnnounced'
      OBVIOUS
    <2>1. CASE Execute
      BY <2>1, ExecuteAsAnnounced
    <2>2. CASE Fail
      BY <2>2 DEF Fail, SavedAsAnnounced, Saved
    <2>3. CASE UNCHANGED receipt
      BY <2>3 DEF SavedAsAnnounced, Saved
    <2>4. Execute \/ Fail \/ UNCHANGED receipt
      BY DEF Next, SwitchTo, EditCells, Trigger, AddWatchedPath, RemoveWatchedPath,
         UpdateTargetOptions, TypeLabel, TypeTags, ChooseMode, LoadPreferences, ChangePreferences,
         PreviewReply, Click, Prepare, SaveFails, Submit, WorldChanges, ContentChanged, vars
    <2> QED BY <2>1, <2>2, <2>3, <2>4
  <1> QED BY <1>1, <1>2, InitFollowed, NextKeepsFollowed, PTL DEF Spec

\* The types, and: tags nobody typed are the directives' of the notebook in front,
\* after any sequence of edits, settings and switches (controller.ts:284-296).
THEOREM PlanTypeCorrect == Spec => []TypeOK
  <1>1. Followed => TypeOK
    <2> SUFFICES ASSUME Followed PROVE TypeOK
      OBVIOUS
    <2>1. FormTyped /\ PreviewsTyped /\ WorldTyped /\ ShownAt(review, world)
      BY DEF Followed, Carried, Announcing
    <2>2. /\ current \in Notebooks \cup {None} /\ \A n \in Notebooks : IsContent(doc[n])
          /\ prefs.mode \in Modes /\ loaded \in BOOLEAN
      BY <2>1 DEF FormTyped, HasContents, Settings
    <2>3. /\ form.mode \in Modes /\ form.decision \in {"always", "never"}
          /\ form.label \in Notebooks \cup {"typed", "pref", None}
          /\ form.tags \subseteq Notebooks \cup {"typed", "pref"}
      BY <2>1 DEF FormTyped, Forms, Labels, TagNames
    <2>4. ~form.tagsEdited /\ current # None => form.tags = Directive(current, doc[current]).tags
      BY <2>1 DEF FormTyped, OwnTags
    <2>5. review # None => review.newest \in BOOLEAN /\ review.age <= world.age
      BY <2>1 DEF PreviewsTyped, ShownAt
    <2> QED BY <2>1, <2>2, <2>3, <2>4, <2>5 DEF TypeOK, PreviewsTyped, WorldTyped
  <1> QED BY <1>1, InitFollowed, NextKeepsFollowed, PTL DEF Spec

=============================================================================
