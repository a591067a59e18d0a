------------------------ MODULE PanelControllerProofs ------------------------
(***************************************************************************)
(* Proofs about the panel's controller, for any number of calls in         *)
(* progress, any number of polls, and whatever the user, the server and    *)
(* the network do.                                                         *)
(***************************************************************************)
EXTENDS PanelController, FiniteSetTheorems, TLAPS

LoginRecords == [status : LoginStates, version : Nat]
Replies == {Nothing, Failure} \union LoginRecords \union Words
Kinds == {"none", "refresh", "timeout", "toggle", "snapshot", "activity", "preview"}
Calls == {"none", "authStatus", "signOut", "startAuth", "submit", "list", "delay", "show"}
Locals == [kind : Kinds, call : Calls, reply : Replies, seq : Nat, polls : Nat, ended : BOOLEAN]

\* The domains of the variables, and: no call has a sequence number that was not
\* given out.
Typed ==
  /\ auth \in LoginRecords /\ server \in LoginRecords
  /\ authSeq \in Nat
  /\ flow \in [Flows -> Locals]
  /\ job \in [Flows -> JobStates]
  /\ \A f \in Flows : flow[f].seq <= authSeq

Asking(f) == flow[f].call = "authStatus"

\* A call that asks for the login state is answered with one, or fails.
Answered ==
  \A f \in Flows : Asking(f) => flow[f].reply \in {Nothing, Failure} \union LoginRecords

\* Two calls that ask have different numbers.
OneNewest ==
  \A f, g \in Flows : (Asking(f) /\ Asking(g) /\ flow[f].seq = flow[g].seq) => f = g

\* The server is never behind an answer nor behind the panel, and the answer to the
\* newest question is not behind the panel.
AnswersArePast ==
  \A f \in Flows : (Asking(f) /\ flow[f].reply \in LoginRecords)
                     => flow[f].reply.version <= server.version
NotBehind ==
  /\ auth.version <= server.version
  /\ \A f \in Flows :
       (Asking(f) /\ flow[f].seq = authSeq /\ flow[f].reply \in LoginRecords)
         => auth.version <= flow[f].reply.version

Ordered == Typed /\ Answered /\ OneNewest /\ AnswersArePast /\ NotBehind

----------------------------------------------------------------------------
\* Asking again: the new question is the only newest one, and has no answer.
LEMMA AskAuthKeepsOrdered ==
  ASSUME Ordered, NEW f \in Flows, NEW l \in Locals, AskAuth(f, l),
         auth' = auth, server' \in LoginRecords, server.version <= server'.version,
         job' = job
  PROVE  Ordered'
  <1> DEFINE asked == [l EXCEPT !.seq = authSeq + 1]
             new == [asked EXCEPT !.call = "authStatus", !.reply = Nothing]
  <1>0. authSeq + 1 \in Nat /\ Nothing \in Replies /\ "authStatus" \in Calls
    BY DEF Ordered, Typed, Replies, Words, Calls
  <1>1. flow' = [flow EXCEPT ![f] = new]
    BY DEF AskAuth, Call
  <1>a. asked \in Locals /\ asked.seq = authSeq + 1
    BY <1>0 DEF Locals
  <1>b. /\ new \in Locals
        /\ new.seq = authSeq + 1 /\ new.call = "authStatus" /\ new.reply = Nothing
    <2> HIDE DEF asked
    <2> QED BY <1>0, <1>a DEF Locals
  <1> HIDE DEF new
  <1>2. /\ flow'[f] \in Locals
        /\ flow'[f].seq = authSeq + 1 /\ flow'[f].call = "authStatus" /\ flow'[f].reply = Nothing
    BY <1>1, <1>b DEF Ordered, Typed
  <1>3. authSeq' = authSeq + 1
    BY DEF AskAuth
  <1>4. \A g \in Flows \ {f} : flow'[g] = flow[g] /\ flow'[g].seq <= authSeq
    BY <1>1 DEF Ordered, Typed
  <1>c. Nothing \notin LoginRecords
    BY PanelAssumption DEF LoginRecords
  <1>5. Typed'
    <2>1. flow' \in [Flows -> Locals]
      BY <1>1, <1>b DEF Ordered, Typed
    <2>2. authSeq' \in Nat /\ \A g \in Flows : flow'[g].seq <= authSeq'
      BY <1>0, <1>2, <1>3, <1>4, <2>1 DEF Ordered, Typed, Locals
    <2> QED BY <2>1, <2>2 DEF Ordered, Typed
  <1>6. Answered'
    BY <1>2, <1>4 DEF Ordered, Answered, Asking
  <1>7. \A g \in Flows \ {f} : flow'[g].seq # flow'[f].seq
    BY <1>2, <1>4 DEF Ordered, Typed, Locals
  <1>8. OneNewest'
    BY <1>4, <1>7 DEF Ordered, OneNewest, Asking
  <1>9. NotBehind'
    <2>1. auth'.version <= server'.version
      BY DEF Ordered, NotBehind, Typed, LoginRecords
    <2>2. \A g \in Flows : flow'[g].seq = authSeq' => g = f
      BY <1>2, <1>3, <1>7
    <2> QED BY <1>2, <1>c, <2>1, <2>2 DEF NotBehind, Asking
  <1>10. AnswersArePast'
    <2> SUFFICES ASSUME NEW g \in Flows, Asking(g)', flow'[g].reply \in LoginRecords
                 PROVE  flow'[g].reply.version <= server'.version
      BY DEF AnswersArePast
    <2>1. g # f /\ flow'[g] = flow[g]
      BY <1>2, <1>4, <1>c
    <2>2. flow[g].reply.version <= server.version
      BY <2>1 DEF Asking, Ordered, AnswersArePast
    <2> QED BY <2>1, <2>2 DEF Ordered, Typed, LoginRecords
  <1> QED BY <1>5, <1>6, <1>8, <1>9, <1>10 DEF Ordered

\* What a step does that asks nothing and applies no answer: no question is new.
AsksNothing ==
  /\ auth' = auth /\ authSeq' = authSeq
  /\ server' \in LoginRecords /\ server.version <= server'.version
  /\ flow' \in [Flows -> Locals] /\ job' \in [Flows -> JobStates]
  /\ \A f \in Flows : flow'[f].seq <= authSeq
  /\ \A f \in Flows : flow'[f].call = "authStatus" => flow'[f] = flow[f]

LEMMA AsksNothingKeepsOrdered ==
  ASSUME Ordered, AsksNothing
  PROVE  Ordered'
  <1>1. Typed'
    BY DEF Ordered, Typed, AsksNothing
  <1>2. Answered' /\ OneNewest'
    BY DEF Ordered, Answered, OneNewest, Asking, AsksNothing
  <1>3. NotBehind'
    <2>1. auth'.version <= server'.version
      BY DEF Ordered, NotBehind, Typed, LoginRecords, AsksNothing
    <2> QED BY <2>1 DEF Ordered, NotBehind, Asking, AsksNothing
  <1>4. AnswersArePast'
    <2> SUFFICES ASSUME NEW f \in Flows, Asking(f)', flow'[f].reply \in LoginRecords
                 PROVE  flow'[f].reply.version <= server'.version
      BY DEF AnswersArePast
    <2>1. flow'[f] = flow[f]
      BY DEF Asking, AsksNothing
    <2>2. flow[f].reply.version <= server.version
      BY <2>1 DEF Asking, Ordered, AnswersArePast
    <2> QED BY <2>1, <2>2 DEF Ordered, Typed, LoginRecords, AsksNothing
  <1> QED BY <1>1, <1>2, <1>3, <1>4 DEF Ordered

LEMMA UnchangedKeepsOrdered ==
  ASSUME Ordered, auth' = auth, authSeq' = authSeq, flow' = flow, job' = job, server' = server
  PROVE  Ordered'
  BY DEF Ordered, Typed, Answered, OneNewest, AnswersArePast, NotBehind, Asking

\* A call returns, or goes on to another request than one for the login state.
LEMMA FinishKeepsOrdered ==
  ASSUME Ordered, NEW f \in Flows, flow' = [flow EXCEPT ![f] = Idle],
         auth' = auth, authSeq' = authSeq, job' = job, server' = server
  PROVE  Ordered'
  <1>1. Idle \in Locals /\ Idle.seq = 0 /\ Idle.call = "none"
    BY DEF Idle, Locals, Kinds, Calls, Replies, Words
  <1>2. AsksNothing
    BY <1>1 DEF AsksNothing, Ordered, Typed, Locals, LoginRecords
  <1> QED BY <1>2, AsksNothingKeepsOrdered

LEMMA CallKeepsOrdered ==
  ASSUME Ordered, NEW f \in Flows, NEW l \in Locals, l.seq <= authSeq,
         NEW call \in Calls \ {"authStatus"}, Call(f, l, call),
         auth' = auth, authSeq' = authSeq, job' = job, server' = server
  PROVE  Ordered'
  <1> DEFINE new == [l EXCEPT !.call = call, !.reply = Nothing]
  <1>1. flow' = [flow EXCEPT ![f] = new]
    BY DEF Call
  <1>2. new \in Locals /\ new.seq <= authSeq /\ new.call # "authStatus"
    BY DEF Locals, Replies, Words
  <1> HIDE DEF new
  <1>3. AsksNothing
    BY <1>1, <1>2 DEF AsksNothing, Ordered, Typed, LoginRecords
  <1> QED BY <1>3, AsksNothingKeepsOrdered

\* The answer to the newest question is applied, and its call returns.
LEMMA ApplyKeepsOrdered ==
  ASSUME Ordered, NEW f \in Flows, Asking(f), flow[f].seq = authSeq,
         flow[f].reply \in LoginRecords, auth' = flow[f].reply,
         flow' = [flow EXCEPT ![f] = Idle],
         authSeq' = authSeq, job' = job, server' = server
  PROVE  Ordered' /\ auth'.version >= auth.version
  <1>1. Idle \in Locals /\ Idle.seq = 0 /\ Idle.call = "none"
    BY DEF Idle, Locals, Kinds, Calls, Replies, Words
  <1>2. Typed'
    BY <1>1 DEF Ordered, Typed, Locals
  <1>3. ~Asking(f)' /\ \A g \in Flows \ {f} : flow'[g] = flow[g]
    BY <1>1 DEF Ordered, Typed, Asking
  <1>4. Answered' /\ OneNewest' /\ AnswersArePast'
    BY <1>3 DEF Ordered, Answered, OneNewest, AnswersArePast, Asking
  <1>5. \A g \in Flows : Asking(g)' => flow'[g].seq # authSeq'
    BY <1>3 DEF Ordered, OneNewest, Asking
  <1>6. auth'.version <= server'.version
    BY DEF Ordered, AnswersArePast
  <1>7. NotBehind'
    BY <1>5, <1>6 DEF NotBehind, Asking
  <1>8. auth.version <= auth'.version /\ auth.version \in Nat /\ auth'.version \in Nat
    BY DEF Ordered, NotBehind, Typed, LoginRecords
  <1> QED BY <1>2, <1>4, <1>7, <1>8 DEF Ordered

\* The server answers: with its login state only to who asks for it.
LEMMA ServeKeepsOrdered ==
  ASSUME Ordered, NEW f \in Flows, Serve(f)
  PROVE  Ordered'
  <1> DEFINE Reply(r) == flow' = [flow EXCEPT ![f].reply = r]
  <1>1. auth' = auth /\ authSeq' = authSeq
    BY DEF Serve, panel
  <1>2. CASE Asking(f)
    <2>1. server' = server /\ job' = job
      BY <1>2 DEF Serve, Effect, Asking
    <2>2. PICK r \in {server, Failure} : Reply(r)
      BY <1>2 DEF Serve, Effect, Asking
    <2>3. r \in Replies /\ r \in {Failure} \union LoginRecords
      BY DEF Replies, Words, Ordered, Typed
    <2>4. /\ flow' \in [Flows -> Locals]
          /\ flow'[f].reply = r /\ flow'[f].seq = flow[f].seq /\ flow'[f].call = flow[f].call
          /\ \A g \in Flows \ {f} : flow'[g] = flow[g]
      BY <2>2, <2>3 DEF Ordered, Typed, Locals
    <2>5. Typed'
      BY <1>1, <2>1, <2>4 DEF Ordered, Typed
    <2>6. Answered'
      BY <2>3, <2>4 DEF Ordered, Answered, Asking
    <2>7. OneNewest'
      BY <2>4 DEF Ordered, OneNewest, Asking
    <2>8. r \in LoginRecords => auth.version <= r.version /\ r.version <= server.version
      <3>1. CASE r = server
        BY <3>1 DEF Ordered, NotBehind, Typed, LoginRecords
      <3>2. CASE r = Failure
        BY <3>2, PanelAssumption DEF LoginRecords
      <3> QED BY <3>1, <3>2
    <2>9. AnswersArePast' /\ NotBehind'
      BY <1>1, <2>1, <2>4, <2>8 DEF Ordered, AnswersArePast, NotBehind, Asking
    <2> QED BY <2>5, <2>6, <2>7, <2>9 DEF Ordered
  <1>3. CASE ~Asking(f)
    <2>1. /\ server' \in LoginRecords /\ server.version <= server'.version
          /\ job' \in [Flows -> JobStates]
      BY <1>3 DEF Serve, Effect, Becomes, Asking, Ordered, Typed, LoginRecords, LoginStates, JobStates
    <2>2. PICK r \in Replies : Reply(r)
      BY <1>3 DEF Serve, Effect, Asking, Replies, Words, Ordered, Typed
    <2>3. /\ flow' \in [Flows -> Locals]
          /\ flow'[f].seq = flow[f].seq /\ flow'[f].call = flow[f].call
          /\ \A g \in Flows \ {f} : flow'[g] = flow[g]
      BY <2>2 DEF Ordered, Typed, Locals
    <2>4. AsksNothing
      BY <1>1, <1>3, <2>1, <2>3 DEF AsksNothing, Asking, Ordered, Typed
    <2> QED BY <2>4, AsksNothingKeepsOrdered
  <1> QED BY <1>2, <1>3

\* One step of anybody.
LEMMA StepKeepsOrdered ==
  ASSUME Ordered, [Next]_vars
  PROVE  Ordered' /\ auth'.version >= auth.version
  <1> DEFINE Same == auth' = auth /\ server' = server /\ job' = job
             Goal == Ordered' /\ auth'.version >= auth.version
  <1> USE DEF world
  <1>0. auth.version \in Nat /\ (Ordered' /\ auth' = auth => Goal)
    BY DEF Ordered, Typed, LoginRecords
  <1>i. \A k \in Kinds : [Idle EXCEPT !.kind = k] \in Locals /\ [Idle EXCEPT !.kind = k].seq = 0
    BY DEF Idle, Locals, Kinds, Calls, Replies, Words
  <1>j. \A k \in Kinds, e \in BOOLEAN : [Idle EXCEPT !.kind = k, !.ended = e] \in Locals
                                     /\ [Idle EXCEPT !.kind = k, !.ended = e].seq = 0
    BY DEF Idle, Locals, Kinds, Calls, Replies, Words
  <1>k. \A f \in Flows : flow[f] \in Locals /\ flow[f].seq <= authSeq /\ 0 <= authSeq
    BY DEF Ordered, Typed
  <1>s. server \in LoginRecords /\ server.version <= server.version
    BY DEF Ordered, Typed, LoginRecords
  <1>1. ASSUME NEW f \in Flows, RefreshAuth(f) PROVE Goal
    <2>1. Same /\ AskAuth(f, [Idle EXCEPT !.kind = "refresh"])
      BY <1>1 DEF RefreshAuth
    <2> QED BY <1>0, <1>i, <1>s, <2>1, AskAuthKeepsOrdered DEF Kinds
  <1>2. ASSUME NEW f \in Flows, HandlePendingAuthTimeout(f) PROVE Goal
    <2>1. auth' = auth /\ job' = job /\ AskAuth(f, [Idle EXCEPT !.kind = "timeout"])
      BY <1>2 DEF HandlePendingAuthTimeout
    <2>2. server' \in LoginRecords /\ server.version <= server'.version
      BY <1>2, <1>s DEF HandlePendingAuthTimeout, LoginRecords, LoginStates
    <2> QED BY <1>0, <1>i, <2>1, <2>2, AskAuthKeepsOrdered DEF Kinds
  <1>3. ASSUME NEW f \in Flows, ToggleAuth(f) PROVE Goal
    <2>1. Same /\ authSeq' = authSeq
      BY <1>3 DEF ToggleAuth
    <2>2. CanSnapshot \in BOOLEAN
      BY DEF CanSnapshot
    <2>3. PICK call \in {"signOut", "startAuth"} :
            Call(f, [Idle EXCEPT !.kind = "toggle", !.ended = CanSnapshot], call)
      BY <1>3 DEF ToggleAuth
    <2> QED BY <1>0, <1>j, <1>k, <2>1, <2>2, <2>3, CallKeepsOrdered DEF Kinds, Calls
  <1>4. CASE SnapshotPanel
    BY <1>0, <1>4, UnchangedKeepsOrdered DEF SnapshotPanel
  <1>5. ASSUME NEW f \in Flows, AskToShow(f) PROVE Goal
    <2>1. Same /\ authSeq' = authSeq
      BY <1>5 DEF AskToShow
    <2>2. ASSUME NEW k \in {"activity", "preview"}, Call(f, [Idle EXCEPT !.kind = k], "show")
          PROVE  Goal
      BY <1>0, <1>i, <1>k, <2>1, <2>2, CallKeepsOrdered DEF Kinds, Calls
    <2>3. CASE flow' = flow
      BY <1>0, <2>1, <2>3, UnchangedKeepsOrdered
    <2> QED BY <1>5, <2>2, <2>3 DEF AskToShow
  <1>6. ASSUME NEW f \in Flows, AuthReply(f) PROVE Goal
    <2>1. authSeq' = authSeq /\ server' = server /\ job' = job
          /\ flow' = [flow EXCEPT ![f] = Idle] /\ Asking(f) /\ flow[f].reply # Nothing
      BY <1>6 DEF AuthReply, Finish, Replied, Asking
    <2>2. CASE auth' = auth
      BY <1>0, <2>1, <2>2, FinishKeepsOrdered
    <2>3. CASE flow[f].seq = authSeq /\ flow[f].reply # Failure /\ auth' = flow[f].reply
      BY <2>1, <2>3, ApplyKeepsOrdered DEF Ordered, Answered
    <2> QED BY <1>6, <2>2, <2>3 DEF AuthReply
  <1>7. ASSUME NEW f \in Flows, ToggleReply(f) PROVE Goal
    <2>1. Same
      BY <1>7 DEF ToggleReply
    <2>2. CASE Finish(f) /\ UNCHANGED authSeq
      BY <1>0, <2>1, <2>2, FinishKeepsOrdered DEF Finish
    <2>3. CASE AskAuth(f, flow[f])
      BY <1>0, <1>k, <1>s, <2>1, <2>3, AskAuthKeepsOrdered
    <2> QED BY <1>7, <2>2, <2>3 DEF ToggleReply
  <1>8. ASSUME NEW f \in Flows, Snapshot(f) PROVE Goal
    <2>1. Same /\ authSeq' = authSeq
      BY <1>8 DEF Snapshot
    <2>2. CASE Call(f, [Idle EXCEPT !.kind = "snapshot"], "submit")
      BY <1>0, <1>i, <1>k, <2>1, <2>2, CallKeepsOrdered DEF Kinds, Calls
    <2>3. CASE flow' = flow
      BY <1>0, <2>1, <2>3, UnchangedKeepsOrdered
    <2> QED BY <1>8, <2>2, <2>3 DEF Snapshot
  <1>p. ASSUME NEW f \in Flows, Poll(f, flow[f]), Same, authSeq' = authSeq PROVE Goal
    <2>1. CASE Finish(f)
      BY <1>0, <1>p, <2>1, FinishKeepsOrdered DEF Finish
    <2>2. CASE Call(f, [flow[f] EXCEPT !.polls = @ + 1], "list")
      <3>1. [flow[f] EXCEPT !.polls = @ + 1] \in Locals
            /\ [flow[f] EXCEPT !.polls = @ + 1].seq = flow[f].seq
        BY <1>k DEF Locals
      <3> QED BY <1>0, <1>k, <1>p, <2>2, <3>1, CallKeepsOrdered DEF Calls
    <2> QED BY <1>p, <2>1, <2>2 DEF Poll
  <1>9. ASSUME NEW f \in Flows, SubmitReply(f) PROVE Goal
    <2>1. Same
      BY <1>9 DEF SubmitReply
    <2>2. CASE Finish(f) /\ UNCHANGED authSeq
      BY <1>0, <2>1, <2>2, FinishKeepsOrdered DEF Finish
    <2>3. CASE AskAuth(f, flow[f])
      BY <1>0, <1>k, <1>s, <2>1, <2>3, AskAuthKeepsOrdered
    <2>4. CASE Poll(f, flow[f]) /\ UNCHANGED authSeq
      BY <1>p, <2>1, <2>4
    <2> QED BY <1>9, <2>2, <2>3, <2>4 DEF SubmitReply
  <1>10. ASSUME NEW f \in Flows, PollReply(f) PROVE Goal
    <2>1. Same
      BY <1>10 DEF PollReply
    <2>2. CASE Finish(f) /\ UNCHANGED authSeq
      BY <1>0, <2>1, <2>2, FinishKeepsOrdered DEF Finish
    <2>3. CASE AskAuth(f, flow[f])
      BY <1>0, <1>k, <1>s, <2>1, <2>3, AskAuthKeepsOrdered
    <2>4. CASE Call(f, flow[f], "delay") /\ UNCHANGED authSeq
      BY <1>0, <1>k, <2>1, <2>4, CallKeepsOrdered DEF Calls
    <2> QED BY <1>10, <2>2, <2>3, <2>4 DEF PollReply
  <1>11. ASSUME NEW f \in Flows, Delay(f) PROVE Goal
    BY <1>p, <1>11 DEF Delay
  <1>12. ASSUME NEW f \in Flows, Shown(f) PROVE Goal
    BY <1>0, <1>12, FinishKeepsOrdered DEF Shown, Finish
  <1>13. ASSUME NEW f \in Flows, Serve(f) PROVE Goal
    BY <1>0, <1>13, ServeKeepsOrdered DEF Serve, panel
  <1>14. ASSUME auth' = auth, authSeq' = authSeq, flow' = flow, job' \in [Flows -> JobStates],
                server' \in LoginRecords, server.version <= server'.version
         PROVE  Goal
    <2>1. AsksNothing
      BY <1>14 DEF AsksNothing, Ordered, Typed
    <2> QED BY <1>0, <1>14, <2>1, AsksNothingKeepsOrdered
  <1>b. ASSUME NEW st \in LoginStates, Becomes(st)
        PROVE  server' \in LoginRecords /\ server.version <= server'.version
    BY <1>b, <1>s DEF Becomes, LoginRecords
  <1>15. ASSUME NEW f \in Flows, JobStep(f) PROVE Goal
    <2>1. job' \in [Flows -> JobStates]
      BY <1>15 DEF JobStep, JobStates, Ordered, Typed
    <2> QED BY <1>14, <1>15, <1>b, <1>s, <2>1 DEF JobStep, panel, LoginStates
  <1>16. CASE Dispose
    BY <1>14, <1>16, <1>s DEF Dispose, Ordered, Typed
  <1>17. CASE Callback \/ LoginLost
    <2>1. auth' = auth /\ authSeq' = authSeq /\ flow' = flow /\ job' \in [Flows -> JobStates]
      BY <1>17 DEF Callback, LoginLost, panel, Ordered, Typed
    <2>2. server' \in LoginRecords /\ server.version <= server'.version
      BY <1>17, <1>b DEF Callback, LoginLost, LoginStates
    <2> QED BY <1>14, <2>1, <2>2
  <1>18. CASE UNCHANGED vars
    BY <1>14, <1>18, <1>s DEF vars, panel, Ordered, Typed
  <1> QED
    BY <1>1, <1>2, <1>3, <1>4, <1>5, <1>6, <1>7, <1>8, <1>9, <1>10, <1>11, <1>12, <1>13, <1>15,
       <1>16, <1>17, <1>18 DEF Next, FlowStep

\* However many calls overlap and however their replies arrive, the login the panel
\* shows never goes back to an earlier one of the server (refreshAuth's sequence
\* number, controller.ts:382-404).
THEOREM LoginNeverGoesBack == Spec => AuthNeverGoesBack
  <1>1. Init => Ordered
    BY DEF Init, Ordered, Typed, Answered, OneNewest, AnswersArePast, NotBehind, Asking, Idle,
           LoginRecords, LoginStates, Locals, Kinds, Calls, Replies, Words, JobStates
  <1>2. Ordered /\ [Next]_vars => Ordered'
    BY StepKeepsOrdered
  <1>3. Ordered /\ [Next]_vars => [auth'.version >= auth.version]_vars
    BY StepKeepsOrdered
  <1> QED BY <1>1, <1>2, <1>3, PTL DEF Spec, AuthNeverGoesBack

----------------------------------------------------------------------------
(* The locals of the calls, the busy flags and the timeout.                *)

\* A call of the panel in progress, and the job it has submitted: it asks for the job
\* only after the server has accepted it.
Fine(l, j) ==
  /\ l.polls <= MaxPolls
  /\ l.kind = "none" <=> l = Idle
  /\ (l.call \in {"list", "delay"} \/ (l.call = "submit" /\ l.reply = "accepted")) => j # "none"

\* The calls are fine, each busy flag belongs to a call that has not returned, and the
\* timeout to the pending login that is shown.
Tidy     == \A f \in Flows : Fine(flow[f], job[f])
Toggling == {f \in Flows : flow[f].kind = "toggle"}
Snapping == {f \in Flows : flow[f].kind = "snapshot"}
Flags ==
  /\ authBusy <=> Toggling # {}
  /\ \A f, g \in Toggling : f = g
  /\ busy => Snapping # {}
Armed == timer # 0 => auth = [status |-> "pending", version |-> timer] /\ ~disposed

Panel == Ordered /\ Tidy /\ Flags /\ Armed

\* What a call is when it has asked for something.
Asked(l, call) == [l EXCEPT !.call = call, !.reply = Nothing]

\* A request without an answer yet is fine.
LEMMA AskedIsFine ==
  ASSUME NEW l \in Locals, l.polls <= MaxPolls, l.kind # "none", NEW call, NEW j,
         call \in {"list", "delay"} => j # "none"
  PROVE  Fine(Asked(l, call), j)
  <1>1. /\ Asked(l, call).kind = l.kind /\ Asked(l, call).polls = l.polls
        /\ Asked(l, call).call = call /\ Asked(l, call).reply = Nothing
    BY DEF Asked, Locals
  <1>2. Asked(l, call) # Idle
    BY <1>1 DEF Idle
  <1>3. Nothing # "accepted"
    BY PanelAssumption DEF Words
  <1> QED BY <1>1, <1>2, <1>3 DEF Fine

LEMMA IdleIsFine ==
  ASSUME NEW j
  PROVE  Fine(Idle, j) /\ Idle \in Locals /\ Idle.kind = "none" /\ Idle.polls = 0 /\ Idle.call = "none"
  <1>1. Idle \in Locals /\ Idle.kind = "none" /\ Idle.polls = 0 /\ Idle.call = "none"
    BY DEF Idle, Locals, Kinds, Calls, Replies, Words
  <1> QED BY <1>1, PanelAssumption DEF Fine

\* A call that is doing something is not an idle one.
LEMMA CallingIsBusy ==
  ASSUME Panel, NEW f \in Flows, flow[f].call # "none"
  PROVE  flow[f] \in Locals /\ flow[f].kind # "none" /\ flow[f].polls <= MaxPolls
  BY IdleIsFine DEF Panel, Ordered, Typed, Tidy, Fine

\* One call changes, and is fine.
LEMMA OneCallTidy ==
  ASSUME Panel, NEW f \in Flows, NEW new, flow' = [flow EXCEPT ![f] = new],
         Fine(new, job'[f]), \A g \in Flows \ {f} : job'[g] = job[g]
  PROVE  Tidy'
  <1>1. flow'[f] = new /\ \A g \in Flows \ {f} : flow'[g] = flow[g]
    BY DEF Panel, Ordered, Typed
  <1>2. \A g \in Flows : Fine(flow'[g], job'[g])
    BY <1>1 DEF Panel, Tidy
  <1> QED BY <1>2 DEF Tidy

\* A call goes on: the flags stay, or a snapshot's is set.
LEMMA FlagsStay ==
  ASSUME Panel, NEW f \in Flows, NEW new, flow' = [flow EXCEPT ![f] = new],
         new.kind = flow[f].kind, authBusy' = authBusy,
         busy' = busy \/ new.kind = "snapshot"
  PROVE  Flags'
  <1>1. \A g \in Flows : flow'[g].kind = flow[g].kind
    BY DEF Panel, Ordered, Typed
  <1>2. Toggling' = Toggling /\ Snapping' = Snapping
    BY <1>1 DEF Toggling, Snapping
  <1>3. new.kind = "snapshot" => f \in Snapping
    BY DEF Snapping
  <1> QED BY <1>2, <1>3 DEF Panel, Flags

\* Another call begins than a login or a logout; a snapshot may set its flag.
LEMMA FlagsBegin ==
  ASSUME Panel, NEW f \in Flows, NEW new, flow' = [flow EXCEPT ![f] = new],
         Free(f), new.kind # "toggle", authBusy' = authBusy,
         busy' => busy \/ new.kind = "snapshot"
  PROVE  Flags'
  <1>1. flow'[f] = new /\ \A g \in Flows \ {f} : flow'[g] = flow[g]
    BY DEF Panel, Ordered, Typed
  <1>2. flow[f].kind = "none"
    BY IdleIsFine DEF Free
  <1>3. Toggling' = Toggling
    BY <1>1, <1>2 DEF Toggling
  <1>4. Snapping \subseteq Snapping' /\ (new.kind = "snapshot" => f \in Snapping')
    BY <1>1, <1>2 DEF Snapping
  <1> QED BY <1>3, <1>4 DEF Panel, Flags

\* A call returns: the finally blocks of toggleAuth and of snapshot.
LEMMA FlagsEnd ==
  ASSUME Panel, NEW f \in Flows, Finish(f)
  PROVE  Flags'
  <1>1. flow'[f].kind = "none" /\ \A g \in Flows \ {f} : flow'[g] = flow[g]
    BY IdleIsFine DEF Panel, Ordered, Typed, Finish
  <1>2. Toggling' = Toggling \ {f} /\ Snapping' = Snapping \ {f}
    BY <1>1 DEF Toggling, Snapping
  <1>3. /\ (flow[f].kind = "toggle" <=> f \in Toggling)
        /\ (flow[f].kind = "snapshot" <=> f \in Snapping)
    BY DEF Toggling, Snapping
  <1>4. /\ authBusy' <=> (authBusy /\ f \notin Toggling)
        /\ busy' <=> (busy /\ f \notin Snapping)
    BY <1>3 DEF Finish
  <1>5. \A g, h \in Toggling : g = h
    BY DEF Panel, Flags
  <1>6. authBusy' <=> Toggling' # {}
    BY <1>2, <1>4, <1>5 DEF Panel, Flags
  <1>7. busy' => Snapping' # {}
    BY <1>2, <1>4 DEF Panel, Flags
  <1> QED BY <1>2, <1>5, <1>6, <1>7 DEF Flags

\* The timeout follows the login that is shown, and ends with the panel.
LEMMA StepKeepsArmed ==
  ASSUME Panel, [Next]_vars
  PROVE  Armed'
  <1>1. ASSUME NEW f \in Flows, AuthReply(f) PROVE Armed'
    <2>1. CASE UNCHANGED <<auth, timer, disposed>>
      BY <2>1 DEF Panel, Armed
    <2>2. CASE /\ flow[f].reply # Failure /\ ~disposed /\ auth' = flow[f].reply
               /\ SchedulePendingAuthTimeout(flow[f].reply)
      <3>1. flow[f].reply \in LoginRecords
        BY <1>1, <2>2 DEF AuthReply, Replied, Panel, Ordered, Answered, Asking
      <3>2. disposed' = disposed
        BY <1>1 DEF AuthReply
      <3>3. timer' # 0 => auth'.status = "pending" /\ timer' = auth'.version
        BY <2>2 DEF SchedulePendingAuthTimeout
      <3> QED BY <2>2, <3>1, <3>2, <3>3 DEF Armed, LoginRecords
    <2> QED BY <1>1, <2>1, <2>2 DEF AuthReply
  <1>2. ASSUME auth' = auth, timer' \in {timer, 0}, disposed' = disposed PROVE Armed'
    BY <1>2 DEF Panel, Armed
  <1>3. ASSUME NEW f \in Flows, HandlePendingAuthTimeout(f) PROVE Armed'
    BY <1>2, <1>3 DEF HandlePendingAuthTimeout
  <1>4. CASE Dispose
    BY <1>4 DEF Dispose, Armed
  <1>5. ASSUME NEW f \in Flows, \/ RefreshAuth(f) \/ ToggleAuth(f) \/ AskToShow(f)
                                \/ ToggleReply(f) \/ Snapshot(f) \/ SubmitReply(f) \/ PollReply(f)
                                \/ Delay(f) \/ Shown(f)
        PROVE  Armed'
    BY <1>2, <1>5 DEF RefreshAuth, ToggleAuth, AskToShow, ToggleReply, Snapshot, SubmitReply,
       PollReply, Delay, Shown
  <1>6. ASSUME UNCHANGED panel PROVE Armed'
    BY <1>2, <1>6 DEF panel
  <1>7. ASSUME NEW f \in Flows, Serve(f) \/ JobStep(f) PROVE Armed'
    BY <1>6, <1>7 DEF Serve, JobStep
  <1>8. CASE Callback \/ LoginLost \/ UNCHANGED vars
    BY <1>6, <1>8 DEF Callback, LoginLost, vars
  <1>9. CASE SnapshotPanel
    BY <1>2, <1>9 DEF SnapshotPanel
  <1> QED BY <1>1, <1>3, <1>4, <1>5, <1>7, <1>8, <1>9 DEF Next, FlowStep

\* A call returns.
LEMMA FinishKeepsFlags ==
  ASSUME Panel, NEW f \in Flows, Finish(f), job' = job
  PROVE  Tidy' /\ Flags'
  <1>1. flow' = [flow EXCEPT ![f] = Idle]
    BY DEF Finish
  <1> QED BY <1>1, IdleIsFine, OneCallTidy, FlagsEnd

\* A call in progress goes on with another request.
LEMMA CallKeepsFlags ==
  ASSUME Panel, NEW f \in Flows, NEW l \in Locals, NEW call, Call(f, l, call),
         l.polls <= MaxPolls, l.kind # "none", l.kind = flow[f].kind,
         call \in {"list", "delay"} => job[f] # "none",
         job' = job, authBusy' = authBusy, busy' = busy \/ l.kind = "snapshot"
  PROVE  Tidy' /\ Flags'
  <1>1. flow' = [flow EXCEPT ![f] = Asked(l, call)]
    BY DEF Call, Asked
  <1>2. Fine(Asked(l, call), job'[f])
    BY AskedIsFine
  <1>3. Asked(l, call).kind = l.kind
    BY DEF Asked, Locals
  <1>4. Tidy'
    BY <1>1, <1>2, OneCallTidy
  <1>5. Flags'
    BY <1>1, <1>3, FlagsStay
  <1> QED BY <1>4, <1>5

\* The login state is asked for within a call.
LEMMA AskAuthKeepsFlags ==
  ASSUME Panel, NEW f \in Flows, flow[f].call # "none", AskAuth(f, flow[f]),
         job' = job, authBusy' = authBusy, busy' = busy
  PROVE  Tidy' /\ Flags'
  <1> DEFINE l == [flow[f] EXCEPT !.seq = authSeq + 1]
  <1>1. Call(f, l, "authStatus")
    BY DEF AskAuth
  <1>2. flow[f] \in Locals /\ flow[f].kind # "none" /\ flow[f].polls <= MaxPolls
    BY CallingIsBusy
  <1>3. authSeq + 1 \in Nat
    BY DEF Panel, Ordered, Typed
  <1>4. l \in Locals /\ l.kind = flow[f].kind /\ l.polls = flow[f].polls
    BY <1>2, <1>3 DEF Locals
  <1> HIDE DEF l
  <1> QED BY <1>1, <1>2, <1>4, CallKeepsFlags

\* A call begins, other than a login or a logout.
LEMMA BeginKeepsFlags ==
  ASSUME Panel, NEW f \in Flows, Free(f), NEW l \in Locals, NEW call, Call(f, l, call),
         l.polls = 0, l.kind \notin {"none", "toggle"}, call \notin {"list", "delay"},
         job' = job, authBusy' = authBusy, busy' => busy \/ l.kind = "snapshot"
  PROVE  Tidy' /\ Flags'
  <1>1. flow' = [flow EXCEPT ![f] = Asked(l, call)]
    BY DEF Call, Asked
  <1>2. l.polls <= MaxPolls
    BY PanelAssumption
  <1>3. Fine(Asked(l, call), job'[f])
    BY <1>2, AskedIsFine
  <1>4. Asked(l, call).kind = l.kind
    BY DEF Asked, Locals
  <1>5. Tidy'
    BY <1>1, <1>3, OneCallTidy
  <1>6. Flags'
    BY <1>1, <1>4, FlagsBegin
  <1> QED BY <1>5, <1>6

\* A job has an active one's successor, or is not touched.
LEMMA JobKeepsFlags ==
  ASSUME Panel, flow' = flow, authBusy' = authBusy, busy' = busy,
         \A f \in Flows : job[f] # "none" => job'[f] # "none"
  PROVE  Tidy' /\ Flags'
  <1>1. \A f \in Flows : Fine(flow[f], job[f]) => Fine(flow[f], job'[f])
    BY DEF Fine
  <1>2. Tidy'
    BY <1>1 DEF Panel, Tidy
  <1>3. Toggling' = Toggling /\ Snapping' = Snapping
    BY DEF Toggling, Snapping
  <1> QED BY <1>2, <1>3 DEF Panel, Flags

\* The server answers: it accepts a request only with a job for it.
LEMMA ServeKeepsFlags ==
  ASSUME Panel, NEW f \in Flows, Serve(f)
  PROVE  Tidy' /\ Flags'
  <1>1. PICK r : flow' = [flow EXCEPT ![f].reply = r]
    BY DEF Serve, Effect
  <1> DEFINE new == [flow[f] EXCEPT !.reply = r]
  <1>2. flow[f].call \notin {"none", "list", "delay"} \/ flow[f].call = "list"
    BY DEF Serve
  <1>3. flow[f] \in Locals /\ flow[f].kind # "none" /\ flow[f].polls <= MaxPolls
    BY <1>2, CallingIsBusy
  <1>4. /\ new.kind = flow[f].kind /\ new.call = flow[f].call /\ new.polls = flow[f].polls
        /\ new.reply = r
    BY <1>3 DEF Locals
  <1>5. flow' = [flow EXCEPT ![f] = new]
    BY <1>1, <1>3 DEF Panel, Ordered, Typed, Locals
  <1>6. authBusy' = authBusy /\ busy' = busy
    BY DEF Serve, panel
  <1>7. /\ job' \in [Flows -> JobStates] /\ \A g \in Flows \ {f} : job'[g] = job[g]
        /\ job[f] # "none" => job'[f] # "none"
    BY DEF Serve, Effect, Panel, Ordered, Typed, JobStates
  <1>8. (flow[f].call = "submit" /\ r = "accepted") => job'[f] # "none"
    <2> SUFFICES ASSUME flow[f].call = "submit", r = "accepted" PROVE job'[f] # "none"
      OBVIOUS
    <2>1. flow'[f].reply = "accepted"
      BY <1>4, <1>5 DEF Panel, Ordered, Typed
    <2>2. flow' # [flow EXCEPT ![f].reply = Failure]
      <3>1. flow' = [flow EXCEPT ![f].reply = Failure] => flow'[f].reply = Failure
        BY DEF Panel, Ordered, Typed, Locals
      <3>2. Failure # "accepted"
        BY PanelAssumption DEF Words
      <3> QED BY <2>1, <3>1, <3>2
    <2>3. Effect(f)
      BY <2>2 DEF Serve
    <2>4. flow' = [flow EXCEPT ![f].reply = "accepted"] /\ job' = [job EXCEPT ![f] = "active"]
      BY <2>1, <2>3 DEF Effect, Panel, Ordered, Typed, Locals
    <2> QED BY <2>4 DEF Panel, Ordered, Typed
  <1>9. flow[f].call = "list" => job[f] # "none"
    BY DEF Panel, Tidy, Fine
  <1> HIDE DEF new
  <1>10. new # Idle /\ new.call # "delay"
    BY <1>2, <1>3, <1>4, IdleIsFine
  <1>11. Fine(new, job'[f])
    BY <1>3, <1>4, <1>7, <1>8, <1>9, <1>10 DEF Fine
  <1>12. Tidy'
    BY <1>5, <1>7, <1>11, OneCallTidy
  <1>13. Flags'
    BY <1>4, <1>5, <1>6, FlagsStay
  <1> QED BY <1>12, <1>13

\* One step of anybody.
LEMMA StepKeepsFlags ==
  ASSUME Panel, [Next]_vars
  PROVE  Tidy' /\ Flags'
  <1> DEFINE Goal == Tidy' /\ Flags'
             Kept == job' = job /\ authBusy' = authBusy /\ busy' = busy
  <1> USE DEF world
  <1>i. \A k \in Kinds, e \in BOOLEAN :
          LET l == [Idle EXCEPT !.kind = k, !.ended = e] IN
          l \in Locals /\ l.kind = k /\ l.polls = 0
    BY DEF Idle, Locals, Kinds, Calls, Replies, Words
  <1>j. \A k \in Kinds : LET l == [Idle EXCEPT !.kind = k] IN
                         l \in Locals /\ l.kind = k /\ l.polls = 0 /\ l.seq = 0
    BY DEF Idle, Locals, Kinds, Calls, Replies, Words
  <1>a. ASSUME NEW f \in Flows, Free(f), Kept, NEW k \in {"refresh", "timeout"},
               AskAuth(f, [Idle EXCEPT !.kind = k])
        PROVE  Goal
    <2> DEFINE l == [[Idle EXCEPT !.kind = k] EXCEPT !.seq = authSeq + 1]
    <2>1. Call(f, l, "authStatus")
      BY <1>a DEF AskAuth
    <2>2. authSeq + 1 \in Nat
      BY DEF Panel, Ordered, Typed
    <2>3. l \in Locals /\ l.kind = k /\ l.polls = 0
      BY <1>j, <2>2 DEF Locals, Kinds
    <2> HIDE DEF l
    <2> QED BY <1>a, <2>1, <2>3, BeginKeepsFlags
  <1>b. ASSUME NEW f \in Flows, Free(f), NEW k \in {"snapshot", "activity", "preview"},
               NEW call \in {"submit", "show"}, Call(f, [Idle EXCEPT !.kind = k], call),
               job' = job, authBusy' = authBusy, busy' => busy \/ k = "snapshot"
        PROVE  Goal
    BY <1>b, <1>j, BeginKeepsFlags DEF Kinds
  <1>u. ASSUME flow' = flow, Kept PROVE Goal
    BY <1>u, JobKeepsFlags
  <1>1. ASSUME NEW f \in Flows, RefreshAuth(f) PROVE Goal
    BY <1>a, <1>1 DEF RefreshAuth
  <1>2. ASSUME NEW f \in Flows, HandlePendingAuthTimeout(f) PROVE Goal
    BY <1>a, <1>2 DEF HandlePendingAuthTimeout
  <1>3. ASSUME NEW f \in Flows, ToggleAuth(f) PROVE Goal
    <2> DEFINE l == [Idle EXCEPT !.kind = "toggle", !.ended = CanSnapshot]
    <2>1. PICK call \in {"signOut", "startAuth"} : Call(f, l, call)
      BY <1>3 DEF ToggleAuth
    <2>2. l \in Locals /\ l.kind = "toggle" /\ l.polls = 0
      BY <1>i DEF Kinds, CanSnapshot
    <2> HIDE DEF l
    <2>3. flow' = [flow EXCEPT ![f] = Asked(l, call)]
      BY <2>1 DEF Call, Asked
    <2>4. Asked(l, call).kind = "toggle" /\ l.polls <= MaxPolls
      BY <2>2, PanelAssumption DEF Asked, Locals
    <2>5. Fine(Asked(l, call), job'[f]) /\ job' = job
      BY <1>3, <2>2, <2>4, AskedIsFine DEF ToggleAuth
    <2>6. Tidy'
      BY <2>3, <2>5, OneCallTidy
    <2>7. flow'[f].kind = "toggle" /\ \A g \in Flows \ {f} : flow'[g] = flow[g]
      BY <2>3, <2>4 DEF Panel, Ordered, Typed
    <2>8. Toggling = {} /\ flow[f].kind = "none"
      BY <1>3, IdleIsFine DEF ToggleAuth, Panel, Flags, Free
    <2>9. Toggling' = {f} /\ Snapping' = Snapping
      BY <2>7, <2>8 DEF Toggling, Snapping
    <2>10. Flags'
      BY <1>3, <2>9 DEF ToggleAuth, Panel, Flags
    <2> QED BY <2>6, <2>10
  <1>4. CASE SnapshotPanel
    BY <1>u, <1>4 DEF SnapshotPanel
  <1>5. ASSUME NEW f \in Flows, AskToShow(f) PROVE Goal
    <2>1. ASSUME NEW k \in {"activity", "preview"}, Call(f, [Idle EXCEPT !.kind = k], "show")
          PROVE  Goal
      BY <1>b, <1>5, <2>1 DEF AskToShow
    <2>2. CASE flow' = flow
      BY <1>u, <1>5, <2>2 DEF AskToShow
    <2> QED BY <1>5, <2>1, <2>2 DEF AskToShow
  <1>6. ASSUME NEW f \in Flows, AuthReply(f) \/ Shown(f) PROVE Goal
    BY <1>6, FinishKeepsFlags DEF AuthReply, Shown
  <1>c. \A f \in Flows : flow[f].call # "none" =>
          flow[f] \in Locals /\ flow[f].kind # "none" /\ flow[f].polls <= MaxPolls
    BY CallingIsBusy
  <1>7. ASSUME NEW f \in Flows, ToggleReply(f) PROVE Goal
    <2>1. flow[f].call # "none" /\ job' = job
      BY <1>7 DEF ToggleReply, Replied
    <2>2. CASE Finish(f)
      BY <2>1, <2>2, FinishKeepsFlags
    <2>3. CASE AskAuth(f, flow[f]) /\ UNCHANGED <<busy, authBusy>>
      BY <2>1, <2>3, AskAuthKeepsFlags
    <2> QED BY <1>7, <2>2, <2>3 DEF ToggleReply
  <1>8. ASSUME NEW f \in Flows, Snapshot(f) PROVE Goal
    <2>1. CASE Call(f, [Idle EXCEPT !.kind = "snapshot"], "submit")
      BY <1>b, <1>8, <2>1 DEF Snapshot
    <2>2. CASE UNCHANGED <<busy, status, flow>>
      BY <1>u, <1>8, <2>2 DEF Snapshot
    <2> QED BY <1>8, <2>1, <2>2 DEF Snapshot
  <1>p. ASSUME NEW f \in Flows, Poll(f, flow[f]), job' = job, job[f] # "none", flow[f].call # "none"
        PROVE  Goal
    <2>1. CASE Finish(f)
      BY <1>p, <2>1, FinishKeepsFlags
    <2>2. CASE /\ flow[f].polls # MaxPolls
               /\ Call(f, [flow[f] EXCEPT !.polls = @ + 1], "list")
               /\ UNCHANGED <<busy, authBusy>>
      <3> DEFINE l == [flow[f] EXCEPT !.polls = @ + 1]
      <3>1. l \in Locals /\ l.kind = flow[f].kind /\ l.polls <= MaxPolls /\ l.kind # "none"
        BY <1>c, <1>p, <2>2, PanelAssumption DEF Locals
      <3>2. Call(f, l, "list")
        BY <2>2
      <3> HIDE DEF l
      <3> QED BY <1>p, <2>2, <3>1, <3>2, CallKeepsFlags
    <2> QED BY <1>p, <2>1, <2>2 DEF Poll
  <1>9. ASSUME NEW f \in Flows, SubmitReply(f) PROVE Goal
    <2>1. flow[f].call = "submit" /\ job' = job
      BY <1>9 DEF SubmitReply, Replied
    <2>2. CASE Finish(f)
      BY <2>1, <2>2, FinishKeepsFlags
    <2>3. CASE AskAuth(f, flow[f]) /\ UNCHANGED <<busy, authBusy>>
      BY <2>1, <2>3, AskAuthKeepsFlags
    <2>4. CASE flow[f].reply = "accepted" /\ Poll(f, flow[f])
      <3>1. job[f] # "none"
        BY <2>1, <2>4 DEF Panel, Tidy, Fine
      <3> QED BY <1>p, <2>1, <2>4, <3>1
    <2> QED BY <1>9, <2>2, <2>3, <2>4 DEF SubmitReply
  <1>10. ASSUME NEW f \in Flows, PollReply(f) PROVE Goal
    <2>1. flow[f].call = "list" /\ job' = job
      BY <1>10 DEF PollReply, Replied
    <2>2. CASE Finish(f)
      BY <2>1, <2>2, FinishKeepsFlags
    <2>3. CASE AskAuth(f, flow[f]) /\ UNCHANGED <<busy, authBusy>>
      BY <2>1, <2>3, AskAuthKeepsFlags
    <2>4. CASE Call(f, flow[f], "delay") /\ UNCHANGED <<busy, authBusy>>
      <3>1. job[f] # "none"
        BY <2>1 DEF Panel, Tidy, Fine
      <3> QED BY <1>c, <2>1, <2>4, <3>1, CallKeepsFlags
    <2> QED BY <1>10, <2>2, <2>3, <2>4 DEF PollReply
  <1>11. ASSUME NEW f \in Flows, Delay(f) PROVE Goal
    <2>1. flow[f].call = "delay" /\ job' = job /\ Poll(f, flow[f])
      BY <1>11 DEF Delay
    <2>2. job[f] # "none"
      BY <2>1 DEF Panel, Tidy, Fine
    <2> QED BY <1>p, <2>1, <2>2
  <1>12. ASSUME NEW f \in Flows, JobStep(f) PROVE Goal
    <2>1. \A g \in Flows : job[g] # "none" => job'[g] # "none"
      BY <1>12 DEF JobStep, Panel, Ordered, Typed
    <2> QED BY <1>12, <2>1, JobKeepsFlags DEF JobStep, panel
  <1>13. CASE Dispose \/ Callback \/ LoginLost \/ UNCHANGED vars
    BY <1>u, <1>13 DEF Dispose, Callback, LoginLost, panel, vars
  <1>14. ASSUME NEW f \in Flows, Serve(f) PROVE Goal
    BY <1>14, ServeKeepsFlags
  <1> QED
    BY <1>1, <1>2, <1>3, <1>4, <1>5, <1>6, <1>7, <1>8, <1>9, <1>10, <1>11, <1>12, <1>13, <1>14
       DEF Next, FlowStep

LEMMA PanelInvariant == Spec => []Panel
  <1>1. Init => Panel
    <2> SUFFICES ASSUME Init PROVE Panel
      OBVIOUS
    <2>1. Ordered
      BY DEF Init, Ordered, Typed, Answered, OneNewest, AnswersArePast, NotBehind, Asking, Idle,
             LoginRecords, LoginStates, Locals, Kinds, Calls, Replies, Words, JobStates
    <2>2. \A f \in Flows : flow[f] = Idle /\ Idle.kind = "none"
      BY IdleIsFine DEF Init
    <2>3. Tidy
      <3>1. \A j : Fine(Idle, j)
        BY PanelAssumption, IdleIsFine DEF Fine
      <3> QED BY <2>2, <3>1 DEF Tidy
    <2>4. Toggling = {} /\ Snapping = {}
      BY <2>2 DEF Toggling, Snapping
    <2>5. Flags /\ Armed
      BY <2>4 DEF Init, Flags, Armed
    <2> QED BY <2>1, <2>3, <2>5 DEF Panel
  <1>2. Panel /\ [Next]_vars => Panel'
    BY StepKeepsOrdered, StepKeepsFlags, StepKeepsArmed DEF Panel
  <1> QED BY <1>1, <1>2, PTL DEF Spec

\* A set whose elements are all the same has at most one.
LEMMA AtMostOne ==
  ASSUME NEW S, \A x, y \in S : x = y
  PROVE  Cardinality(S) = (IF S = {} THEN 0 ELSE 1)
  <1>1. CASE S = {}
    BY <1>1, FS_EmptySet
  <1>2. CASE S # {}
    <2>1. PICK x \in S : S = {x}
      BY <1>2
    <2> QED BY <1>2, <2>1, FS_Singleton
  <1> QED BY <1>1, <1>2

\* Whatever overlaps, a busy flag of the panel is set only while the call it belongs to
\* has not returned, at most one call logs in or out, the timeout runs only for the
\* pending login on the screen, and a job is asked for only if there is one
\* (controller.ts:343-354, 431-514).
THEOREM PanelTypeCorrect == Spec => []TypeOK
  <1>1. Panel => TypeOK
    <2> SUFFICES ASSUME Panel PROVE TypeOK
      OBVIOUS
    <2>1. auth.status \in LoginStates /\ server.status \in LoginStates
      BY DEF Panel, Ordered, Typed, LoginRecords
    <2>2. ASSUME NEW f \in Flows
          PROVE  /\ flow[f].seq <= authSeq /\ flow[f].polls <= MaxPolls
                 /\ flow[f].kind = "none" <=> flow[f] = Idle
                 /\ flow[f].call = "list" => job[f] # "none"
      <3>1. Fine(flow[f], job[f]) /\ flow[f].seq <= authSeq
        BY DEF Panel, Ordered, Typed, Tidy
      <3> QED BY <3>1 DEF Fine
    <2>3. Cardinality(Toggling) = (IF authBusy THEN 1 ELSE 0)
      <3>1. \A f, g \in Toggling : f = g
        BY DEF Panel, Flags
      <3>2. Cardinality(Toggling) = (IF Toggling = {} THEN 0 ELSE 1)
        BY <3>1, AtMostOne
      <3> QED BY <3>2 DEF Panel, Flags
    <2>4. busy => \E f \in Flows : flow[f].kind = "snapshot"
      BY DEF Panel, Flags, Snapping
    <2>5. /\ job \in [Flows -> JobStates]
          /\ timer # 0 => auth = [status |-> "pending", version |-> timer] /\ ~disposed
      BY DEF Panel, Ordered, Typed, Armed
    <2> QED BY <2>1, <2>2, <2>3, <2>4, <2>5 DEF TypeOK, Toggling
  <1> QED BY <1>1, PanelInvariant, PTL

=============================================================================
