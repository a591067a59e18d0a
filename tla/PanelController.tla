--------------------------- MODULE PanelController ---------------------------
(***************************************************************************)
(* The snapshot panel (src/panel/controller.ts, and snapshotPanel of       *)
(* src/plugin.ts): the state it shows and the asynchronous calls that      *)
(* change it.  Nothing but an await interrupts a function of the browser,  *)
(* so a step here is what runs between two awaits; replies arrive in any   *)
(* order, and any request may fail.                                        *)
(*                                                                         *)
(* A flow is one call of an async method that has not returned: it waits   *)
(* for the reply to its call, or for the delay between two polls.  The     *)
(* server is the part of Auth and of the coordinator that a reply can tell *)
(* of: the login state and, for each flow, the job it submitted.  A login  *)
(* state has a version, so that replies can be told apart.                 *)
(*                                                                         *)
(* Left out: the contents of the activity list and of the review, which    *)
(* are whatever reply arrived last, and the form's own fields.             *)
(***************************************************************************)
EXTENDS Naturals, FiniteSets

CONSTANTS
  Flows,          (* names for the calls in progress                        *)
  MaxPolls,       (* how often pollJob asks before it gives up              *)
  MaxCommands,    (* bound: what the user does in the panel                 *)
  MaxChanges,     (* bound: how often the login state changes by itself     *)
  Nothing,        (* no reply yet                                           *)
  Failure         (* the reply of a request that failed                     *)

LoginStates == {"unauthenticated", "pending", "authenticated"}

\* Active: queued or running.  Ended: persisted, failed or abandoned, but for a
\* failure because there was no session, which the record calls expired.
JobStates   == {"none", "active", "ended", "expired"}

\* The replies that carry no login state.
Words == JobStates \union {"ok", "accepted", "rejected", "expired"}

ASSUME PanelAssumption ==
  /\ IsFiniteSet(Flows)
  /\ {MaxPolls, MaxCommands, MaxChanges} \subseteq Nat /\ MaxPolls > 0
  /\ Nothing # Failure
  /\ {Nothing, Failure} \intersect [status : LoginStates, version : Nat] = {}
  /\ {Nothing, Failure} \intersect Words = {}

VARIABLES
  auth,        (* the login state shown: status and version                 *)
  authSeq,     (* the number of the newest refreshAuth                      *)
  authBusy, busy,
  status,      (* what the status line says: an Alarm, or a Notice          *)
  notebookOpen,(* notebookName is not null                                  *)
  timer,       (* the login state the pending timeout was armed for, or 0   *)
  disposed,
  flow,        (* flow -> its locals, Idle when it has returned             *)
  (* The server, the other tab and the user. *)
  server,      (* the server's login state                                  *)
  job,         (* flow -> the state of the job it submitted                 *)
  saves,       (* the notebook saves in progress, each for a click on Snapshot *)
  broadcast,   (* a refresh is due: the panel has started, or the callback
                  page has notified its window                              *)
  commands, changes

panel == <<auth, authSeq, authBusy, busy, status, notebookOpen, timer, disposed>>
world == <<server, job, saves, broadcast, commands, changes>>
vars  == <<panel, flow, world>>

Idle == [kind |-> "none", call |-> "none", reply |-> Nothing, seq |-> 0, polls |-> 0,
         ended |-> FALSE]

\* The messages that tell the user that something failed or timed out.
Alarm  == "alarm"
Notice == "notice"

Init ==
  /\ \E s \in {"unauthenticated", "authenticated"} : server = [status |-> s, version |-> 1]
  /\ auth = [status |-> "unauthenticated", version |-> 0]
  /\ authSeq = 0 /\ authBusy = FALSE /\ busy = FALSE
  /\ status = Notice
  /\ job = [f \in Flows |-> "none"]
  /\ notebookOpen \in BOOLEAN
  /\ timer = 0 /\ disposed = FALSE
  /\ flow = [f \in Flows |-> Idle]
  /\ saves = 0 /\ broadcast = TRUE /\ commands = 0 /\ changes = 0

----------------------------------------------------------------------------
Free(f) == flow[f] = Idle
Call(f, l, call) == flow' = [flow EXCEPT ![f] = [l EXCEPT !.call = call, !.reply = Nothing]]
Replied(f, call) == flow[f].call = call /\ flow[f].reply # Nothing
CanSnapshot == auth.status = "authenticated"

\* The finally blocks of snapshot and toggleAuth.
Finish(f) ==
  /\ flow' = [flow EXCEPT ![f] = Idle]
  /\ busy' = (busy /\ flow[f].kind # "snapshot")
  /\ authBusy' = (authBusy /\ flow[f].kind # "toggle")

Say(what) == status' = what
Command == commands < MaxCommands /\ commands' = commands + 1

----------------------------------------------------------------------------
(* refreshAuth and the pending timeout.                                    *)

\* The first half of refreshAuth, in a call of its own or within another one.
AskAuth(f, l) ==
  /\ authSeq' = authSeq + 1
  /\ Call(f, [l EXCEPT !.seq = authSeq + 1], "authStatus")

SchedulePendingAuthTimeout(a) ==
  timer' = IF a.status = "pending" THEN a.version ELSE 0

\* What follows the refresh: for a sign-out and a timeout, one more message.
AfterRefresh(f, statusNow, authNow) ==
  Say(CASE flow[f].kind = "toggle" /\ flow[f].ended -> Notice
        [] flow[f].kind = "timeout" /\ authNow.status # "authenticated" -> Alarm
        [] OTHER -> statusNow)

\* Mutant: replies are applied in the order they arrive.
AuthReply_AnyOrder(f) ==
  LET l == flow[f] IN
  /\ Replied(f, "authStatus")
  /\ IF l.reply # Failure /\ ~disposed
     THEN /\ auth' = l.reply
          /\ SchedulePendingAuthTimeout(l.reply)
          /\ AfterRefresh(f, status, l.reply)
     ELSE /\ AfterRefresh(f, IF l.reply = Failure THEN Alarm ELSE status, auth)
          /\ UNCHANGED <<auth, timer>>
  /\ Finish(f)
  /\ UNCHANGED <<authSeq, notebookOpen, disposed, world>>

\* Only the reply to the newest request is applied; its failure is reported.
AuthReply(f) ==
  LET l == flow[f] IN
  /\ Replied(f, "authStatus")
  /\ IF l.seq = authSeq /\ l.reply # Failure /\ ~disposed
     THEN /\ auth' = l.reply
          /\ SchedulePendingAuthTimeout(l.reply)
          /\ AfterRefresh(f, status, l.reply)
     ELSE /\ AfterRefresh(f, IF l.seq = authSeq /\ l.reply = Failure THEN Alarm ELSE status, auth)
          /\ UNCHANGED <<auth, timer>>
  /\ Finish(f)
  /\ UNCHANGED <<authSeq, notebookOpen, disposed, world>>

\* Mutant: a notification is taken for answered by a request already under way.
RefreshAuth_Merged(f) ==
  /\ Free(f)
  /\ \/ Command /\ UNCHANGED broadcast
     \/ broadcast /\ ~disposed /\ broadcast' = FALSE /\ UNCHANGED commands
  /\ IF \E g \in Flows : flow[g].call = "authStatus" THEN UNCHANGED <<authSeq, flow>>
     ELSE AskAuth(f, [Idle EXCEPT !.kind = "refresh"])
  /\ UNCHANGED <<auth, authBusy, busy, status, notebookOpen, timer, disposed, server, job, saves,
                 changes>>

\* At start, on Update panel, and when the callback page notifies the window.
RefreshAuth(f) ==
  /\ Free(f)
  /\ \/ Command /\ UNCHANGED broadcast
     \/ broadcast /\ ~disposed /\ broadcast' = FALSE /\ UNCHANGED commands
  /\ AskAuth(f, [Idle EXCEPT !.kind = "refresh"])
  /\ UNCHANGED <<auth, authBusy, busy, status, notebookOpen, timer, disposed,
                 server, job, saves, changes>>

\* Mutant: nothing is asked when the timeout fires.
HandlePendingAuthTimeout_Silent(f) ==
  /\ timer # 0 /\ ~disposed /\ Free(f)
  /\ timer' = 0
  /\ UNCHANGED <<auth, authBusy, busy, status, notebookOpen, disposed, authSeq,
                 flow, server, job, saves, broadcast, commands, changes>>

\* The timeout is as long as the server's, and began later: by now the request
\* it was armed for is no longer pending there.
HandlePendingAuthTimeout(f) ==
  /\ timer # 0 /\ ~disposed /\ Free(f)
  /\ timer' = 0
  /\ AskAuth(f, [Idle EXCEPT !.kind = "timeout"])
  /\ server' = IF server.status = "pending" /\ server.version <= timer
               THEN [status |-> "unauthenticated", version |-> server.version + 1] ELSE server
  /\ UNCHANGED <<auth, authBusy, busy, status, notebookOpen, disposed,
                 job, saves, broadcast, commands, changes>>

----------------------------------------------------------------------------
(* toggleAuth and signOut.                                                 *)

\* Mutant: a second click is not ignored.
ToggleAuth_Unguarded(f) ==
  /\ Free(f) /\ Command
  /\ authBusy' = TRUE
  /\ Call(f, [Idle EXCEPT !.kind = "toggle", !.ended = CanSnapshot],
          IF CanSnapshot THEN "signOut" ELSE "startAuth")
  /\ Say(IF CanSnapshot THEN Notice ELSE status)
  /\ UNCHANGED <<auth, authSeq, busy, notebookOpen, timer, disposed,
                 server, job, saves, broadcast, changes>>

ToggleAuth(f) ==
  /\ Free(f) /\ Command
  /\ ~authBusy /\ authBusy' = TRUE
  /\ Call(f, [Idle EXCEPT !.kind = "toggle", !.ended = CanSnapshot],
          IF CanSnapshot THEN "signOut" ELSE "startAuth")
  /\ Say(IF CanSnapshot THEN Notice ELSE status)
  /\ UNCHANGED <<auth, authSeq, busy, notebookOpen, timer, disposed,
                 server, job, saves, broadcast, changes>>

\* The new tab is opened; either way the state is asked for again.
ToggleReply(f) ==
  /\ Replied(f, "signOut") \/ Replied(f, "startAuth")
  /\ IF flow[f].reply = Failure
     THEN Say(Alarm) /\ Finish(f) /\ UNCHANGED authSeq
     ELSE AskAuth(f, flow[f]) /\ UNCHANGED <<status, busy, authBusy>>
  /\ UNCHANGED <<auth, notebookOpen, timer, disposed, world>>

----------------------------------------------------------------------------
(* Snapshots: snapshotPanel, snapshot and pollJob.                         *)

\* Without a login the panel only says so; with one the notebook is saved first.
SnapshotPanel ==
  /\ Command
  /\ notebookOpen
  /\ IF CanSnapshot THEN saves' = saves + 1 /\ UNCHANGED status
                    ELSE Say(Notice) /\ UNCHANGED saves
  /\ UNCHANGED <<auth, authSeq, authBusy, busy, notebookOpen, timer, disposed, flow,
                 server, job, broadcast, changes>>

\* The save, the settings and the kernel have answered, which may never happen: the
\* save asks the user about a file changed on disk.  A notebook that cannot be
\* saved is not snapshot.
Snapshot(f) ==
  /\ Free(f)
  /\ saves > 0 /\ saves' = saves - 1
  /\ \/ /\ busy' = TRUE /\ Say(Notice)
        /\ Call(f, [Idle EXCEPT !.kind = "snapshot"], "submit")
     \/ UNCHANGED <<busy, status, flow>>
  /\ UNCHANGED <<auth, authSeq, authBusy, notebookOpen, timer, disposed,
                 server, job, broadcast, commands, changes>>

\* Mutant: the polls are not counted.
Poll_Forever(f, l) ==
  IF disposed
  THEN Finish(f)
  ELSE Call(f, l, "list") /\ UNCHANGED <<busy, authBusy>>

\* pollJob's loop head.
Poll(f, l) ==
  IF disposed \/ l.polls = MaxPolls
  THEN Finish(f)
  ELSE Call(f, [l EXCEPT !.polls = @ + 1], "list") /\ UNCHANGED <<busy, authBusy>>

\* A request that came too late for the login is told so in words.
SubmitReply(f) ==
  LET l == flow[f] IN
  /\ Replied(f, "submit")
  /\ \/ l.reply = "rejected" /\ Say(Notice) /\ Finish(f) /\ UNCHANGED authSeq
     \/ l.reply = Failure /\ Say(Alarm) /\ Finish(f) /\ UNCHANGED authSeq
     \/ l.reply = "expired" /\ Say(Alarm) /\ AskAuth(f, l) /\ UNCHANGED <<busy, authBusy>>
     \/ /\ l.reply = "accepted"
        /\ Poll(f, l)
        /\ UNCHANGED <<status, authSeq>>
  /\ UNCHANGED <<auth, notebookOpen, timer, disposed, world>>

\* The job's own message replaces the status: an error for one that failed.
\* The job may also have dropped off the end of the list.
PollReply(f) ==
  LET l == flow[f]  s == l.reply IN
  /\ Replied(f, "list")
  /\ \/ s = Failure /\ Say(Notice) /\ Finish(f) /\ UNCHANGED authSeq
     \/ s = "expired" /\ Say(Alarm) /\ AskAuth(f, l) /\ UNCHANGED <<busy, authBusy>>
     \/ s = "ended" /\ status' \in {Notice, Alarm} /\ Finish(f) /\ UNCHANGED authSeq
     \/ s = "active" /\ Say(Notice) /\ Call(f, l, "delay") /\ UNCHANGED <<busy, authBusy, authSeq>>
     \/ s # Failure /\ Call(f, l, "delay") /\ UNCHANGED <<status, busy, authBusy, authSeq>>
  /\ UNCHANGED <<auth, notebookOpen, timer, disposed, world>>

Delay(f) ==
  /\ flow[f].call = "delay"
  /\ Poll(f, flow[f])
  /\ UNCHANGED <<auth, authSeq, status, notebookOpen, timer, disposed, world>>

----------------------------------------------------------------------------
(* The activity list and the review, the notebook, the end.                *)

\* refreshActivity, and the preview that refreshTriggerUi asks for when a
\* notebook is current.
AskToShow(f) ==
  /\ Free(f) /\ Command
  /\ \/ Call(f, [Idle EXCEPT !.kind = "activity"], "show") /\ UNCHANGED notebookOpen
     \/ Call(f, [Idle EXCEPT !.kind = "preview"], "show") /\ notebookOpen' = TRUE
     \/ notebookOpen' = FALSE /\ UNCHANGED flow
  /\ UNCHANGED <<auth, authSeq, authBusy, busy, status, timer, disposed, server, job, saves,
                 broadcast, changes>>

\* A preview that fails is a warning.
Shown(f) ==
  /\ Replied(f, "show")
  /\ Say(CASE flow[f].reply # Failure -> status
            [] flow[f].kind = "activity" -> Alarm
            [] OTHER -> IF busy THEN status ELSE Notice)
  /\ Finish(f)
  /\ UNCHANGED <<auth, authSeq, notebookOpen, timer, disposed, world>>

Dispose ==
  /\ ~disposed /\ Command
  /\ disposed' = TRUE /\ timer' = 0 /\ broadcast' = FALSE
  /\ UNCHANGED <<auth, authSeq, authBusy, busy, status, notebookOpen, flow,
                 server, job, saves, changes>>

----------------------------------------------------------------------------
(* The server.                                                             *)

Becomes(s) == server' = [status |-> s, version |-> server.version + 1]

\* What each request does there, and what it is told.
Effect(f) ==
  LET call == flow[f].call IN
  \/ call = "authStatus" /\ flow' = [flow EXCEPT ![f].reply = server] /\ UNCHANGED <<server, job>>
  \/ /\ call = "signOut" /\ Becomes("unauthenticated")
     /\ flow' = [flow EXCEPT ![f].reply = "ok"] /\ UNCHANGED job
  \/ /\ call = "startAuth"
     /\ IF server.status = "authenticated" THEN UNCHANGED server ELSE Becomes("pending")
     /\ flow' = [flow EXCEPT ![f].reply = "ok"] /\ UNCHANGED job
  \/ /\ call = "submit" /\ UNCHANGED server
     /\ \/ /\ server.status = "authenticated"
           /\ flow' = [flow EXCEPT ![f].reply = "accepted"] /\ job' = [job EXCEPT ![f] = "active"]
        \/ flow' = [flow EXCEPT ![f].reply = "rejected"] /\ UNCHANGED job
        \/ /\ server.status # "authenticated"
           /\ flow' = [flow EXCEPT ![f].reply = "expired"] /\ UNCHANGED job
  \/ call = "list" /\ flow' = [flow EXCEPT ![f].reply = job[f]] /\ UNCHANGED <<server, job>>
  \/ call = "show" /\ flow' = [flow EXCEPT ![f].reply = "ok"] /\ UNCHANGED <<server, job>>

\* A request is served, or fails on the way there or back.
Serve(f) ==
  /\ flow[f].call \notin {"none", "delay"} /\ flow[f].reply = Nothing
  /\ \/ Effect(f)
     \/ flow' = [flow EXCEPT ![f].reply = Failure] /\ UNCHANGED <<server, job>>
  /\ UNCHANGED <<panel, saves, broadcast, commands, changes>>

\* The browser tab completes the login, and notifies this window.
Callback ==
  /\ server.status = "pending" /\ changes < MaxChanges /\ changes' = changes + 1
  /\ Becomes("authenticated")
  /\ broadcast' = ~disposed
  /\ UNCHANGED <<panel, flow, job, saves, commands>>

\* The request is given up or runs out, or the user signs out in another window.
LoginLost ==
  /\ server.status # "unauthenticated" /\ changes < MaxChanges /\ changes' = changes + 1
  /\ Becomes("unauthenticated")
  /\ UNCHANGED <<panel, flow, job, saves, broadcast, commands>>

\* A job ends as SnapshotCoordinator has it; one that finds no session says that
\* it has expired.
JobStep(f) ==
  /\ job[f] = "active"
  /\ \/ job' = [job EXCEPT ![f] = "ended"]
     \/ server.status # "authenticated" /\ job' = [job EXCEPT ![f] = "expired"]
  /\ UNCHANGED <<panel, flow, server, saves, broadcast, commands, changes>>

FlowStep(f) ==
  \/ AuthReply(f) \/ ToggleReply(f) \/ SubmitReply(f) \/ PollReply(f) \/ Delay(f) \/ Shown(f)

Next ==
  \/ \E f \in Flows :
       \/ RefreshAuth(f) \/ HandlePendingAuthTimeout(f) \/ ToggleAuth(f) \/ Snapshot(f)
       \/ AskToShow(f) \/ FlowStep(f) \/ Serve(f) \/ JobStep(f)
  \/ SnapshotPanel \/ Dispose \/ Callback \/ LoginLost

Spec == Init /\ [][Next]_vars

\* A request is answered or fails, a reply is handled, a timer fires and a
\* notification arrives: the browser and the network see to it.  Nobody sees to
\* the end of a save, nor to that of a job.
Fairness ==
  /\ \A f \in Flows : WF_vars(FlowStep(f)) /\ WF_vars(Serve(f))
  /\ WF_vars(\E f \in Flows : HandlePendingAuthTimeout(f))
  /\ WF_vars(\E f \in Flows : broadcast /\ RefreshAuth(f))

FairSpec == Spec /\ Fairness

----------------------------------------------------------------------------
(* Properties.                                                             *)

\* The domains; a flow's sequence number is one that was given out, the busy flags
\* belong to calls that have not returned (toggleAuth, snapshot), and a timeout runs
\* only for a pending login that is on the screen (schedulePendingAuthTimeout).
TypeOK ==
  /\ auth.status \in LoginStates /\ server.status \in LoginStates
  /\ timer # 0 => auth = [status |-> "pending", version |-> timer] /\ ~disposed
  /\ \A f \in Flows :
       /\ flow[f].seq <= authSeq /\ flow[f].polls <= MaxPolls
       /\ flow[f].kind = "none" <=> flow[f] = Idle
       /\ flow[f].call = "list" => job[f] # "none"
  /\ job \in [Flows -> JobStates]
  /\ Cardinality({f \in Flows : flow[f].kind = "toggle"}) = (IF authBusy THEN 1 ELSE 0)
  /\ busy => \E f \in Flows : flow[f].kind = "snapshot"

\* The login shown never goes back to an earlier one of the server, however the
\* replies to overlapping requests arrive (refreshAuth's sequence number).
AuthNeverGoesBack == [][auth'.version >= auth.version]_vars

Told == status = Alarm

\* C-AUTH-06: "Authentication pending" does not stay on the screen, whether or
\* not the user ends the login and whatever else the panel asks meanwhile; at
\* worst an error or the timeout is reported.
PendingEnds == (auth.status = "pending" /\ timer # 0) ~> (auth.status # "pending" \/ Told \/ disposed)

\* C-AUTH-01: when the callback page completes a login, the panel shows it
\* without the user's doing, unless that login is lost first or the request
\* for it fails, which is reported.
LoginIsShown ==
  (server.status = "authenticated" /\ broadcast) ~>
     (auth = server \/ server.status # "authenticated" \/ Told \/ disposed)

\* Every snapshot the panel submitted returns and gives back the busy flag,
\* although the server promises nothing about the job (pollJob's MAX_POLLS).
SnapshotEnds ==
  \A f \in Flows : flow[f].kind = "snapshot" ~> flow[f].kind # "snapshot"
=============================================================================
