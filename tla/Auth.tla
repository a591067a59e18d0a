-------------------------------- MODULE Auth --------------------------------
(***************************************************************************)
(* Signing in to LabArchives: pending requests, the sessions in memory,    *)
(* the profiles in the operating system's keyring, and the threads that    *)
(* use them (adapters/labarchives/auth.py and its callers).                *)
(*                                                                         *)
(* The handlers run on the server's event loop: none of them awaits, so    *)
(* one handler at a time.  The workers' jobs look for a session too, and   *)
(* restore one.  No lock is held: a thread may be preempted between two    *)
(* accesses to the sessions, the set of suppressed users or the keyring,   *)
(* and each such access is a step here.  The pending requests are touched  *)
(* by the event loop alone, and so is the clearing of a session: a worker  *)
(* would clear it after a delivery that failed because the session had     *)
(* expired, but the client of LabArchives never reports that.              *)
(*                                                                         *)
(* A session and a profile are the number of the login they come from: a   *)
(* request that was completed, or 0 for the profile an earlier release     *)
(* left in the keyring.  Demo mode, which bypasses all this, is left out.  *)
(***************************************************************************)
EXTENDS Naturals, Sequences, FiniteSets

CONSTANTS
  Candidates,    (* the user's id, then its legacy aliases, none twice      *)
  Workers,       (* the worker threads                                      *)
  Loop,          (* the event loop's thread                                 *)
  TTL,           (* clock ticks after which a pending request is dropped    *)
  MaxRequests,   (* bound: how many times the user presses Connect          *)
  MaxClock,      (* bound: clock ticks                                      *)
  MaxJobs,       (* bound: snapshots admitted since the server started      *)
  MaxRestarts,   (* bound: server restarts                                  *)
  MaxFaults,     (* bound: keyring calls that raise                         *)
  None,          (* no login, no profile, no time                           *)
  Garbled        (* a keyring entry that does not parse                     *)

Threads  == Workers \union {Loop}
Ids      == {Candidates[i] : i \in DOMAIN Candidates}
User     == Candidates[1]
Requests == 1 .. MaxRequests
Legacy   == 0                    \* the login of an earlier release
Logins   == Requests \union {Legacy}

ASSUME AuthAssumption ==
  /\ Candidates \in Seq(Ids) /\ Candidates # <<>>
  /\ Cardinality(Ids) = Len(Candidates)
  /\ Loop \notin Workers
  /\ TTL \in Nat \ {0}
  /\ {MaxRequests, MaxClock, MaxJobs, MaxRestarts, MaxFaults} \subseteq Nat
  /\ None \notin Nat /\ Garbled \notin Nat /\ None # Garbled

VARIABLES
  clock,
  created,     (* request -> when it was made, or None                      *)
  pending,     (* _pending_requests                                         *)
  sessions,    (* _sessions: id -> login, or None                           *)
  expired,     (* _expired_session_user_ids                                 *)
  keyring,     (* id -> the login its profile is of, or None                *)
  configured,  (* the server's environment has the access key               *)
  jobs,        (* snapshots admitted and not yet taken by a worker          *)
  admitted,    (* snapshots admitted since the server started               *)
  pc,          (* thread -> its next step                                   *)
  local,       (* thread -> its local variables                             *)
  restarts, faults,
  (* What happened, for the properties. *)
  newest,      (* the newest login, None before the first                   *)
  out,         (* the user has signed out since                             *)
  used,        (* requests that were answered, or cancelled by a sign-out,
                  or lost in a restart                                      *)
  half,        (* the last sign-out failed half way, no login since         *)
  trouble      (* which of Crossed, Unsaved, Misread, Half, Mistaken occurred *)

store    == <<sessions, expired, keyring>>
requests == <<created, pending, used>>
world    == <<clock, configured, restarts>>
ghosts   == <<newest, out, half, trouble>>
queue    == <<jobs, admitted>>
vars == <<store, requests, world, ghosts, faults, queue, pc, local>>

Crossed == "a session was stored or cleared while another thread restored one"
Unsaved == "the profile of a login could not be saved"
Misread == "a profile that is there could not be read"
Half    == "a sign-out failed to delete a profile"
Mistaken == "a keyring error was taken for a missing profile"
Troubles == {Crossed, Unsaved, Misread, Half, Mistaken}

Steps == {"idle", "existing", "adopt", "suppressed", "load", "install", "migrate", "login", "unsuppress",
          "persist", "deliver", "pop", "suppress", "cancel", "delete", "settle"}

NoLocals == [op |-> "none", todo |-> <<>>, login |-> None, source |-> None, failed |-> FALSE]

Init ==
  /\ clock = 0 /\ created = [r \in Requests |-> None] /\ pending = {}
  /\ sessions = [i \in Ids |-> None] /\ expired = {}
  /\ keyring \in [Ids -> {None, Legacy, Garbled}]
  /\ configured \in BOOLEAN
  /\ jobs = 0 /\ admitted = 0 /\ restarts = 0 /\ faults = 0
  /\ pc = [t \in Threads |-> "idle"] /\ local = [t \in Threads |-> NoLocals]
  /\ newest = (IF \E i \in Ids : keyring[i] = Legacy THEN Legacy ELSE None)
  /\ out = FALSE /\ used = {} /\ half = FALSE /\ trouble = {}

----------------------------------------------------------------------------
At(t, step) == pc[t] = step
Goto(t, step, l) == pc' = [pc EXCEPT ![t] = step] /\ local' = [local EXCEPT ![t] = l]
Stay(t, step) == Goto(t, step, local[t])
Done(t) == Goto(t, "idle", NoLocals)
Note(what, happened) == trouble' = IF happened THEN trouble \union {what} ELSE trouble

Restoring(t) == pc[t] \in {"suppressed", "load", "install", "migrate"}

\* A handler changes the sessions while a worker is about to restore one.
NoteOverlap == Note(Crossed, \E w \in Workers : Restoring(w))

\* The keyring may raise, at any call.
Fault    == faults < MaxFaults /\ faults' = faults + 1
NoFault  == UNCHANGED faults

\* A keyring that raises on a write is ignored.
SaveProfile(id, login) ==
  \/ keyring' = [keyring EXCEPT ![id] = login] /\ NoFault
  \/ UNCHANGED keyring /\ Fault

\* An entry that does not parse is no profile.
FromKeyringValue(raw) == IF raw = Garbled THEN None ELSE raw

\* The next element of a loop over ids, or what comes after the loop.
Advance(t, step, l, after) ==
  IF Len(local[t].todo) > 1
  THEN Goto(t, step, [l EXCEPT !.todo = Tail(@)])
  ELSE after

\* Mutant: a request is dropped one tick too late.
Live_OneTickMore == {r \in pending : created[r] + TTL >= clock}

\* The requests _expire_pending_requests keeps.
Live == {r \in pending : created[r] + TTL > clock}

----------------------------------------------------------------------------
(* Requests: Connect, and the page LabArchives redirects to.               *)

\* Mutant: the time at which the request expires is kept as that of its making.
StartAuth_Ahead(r) ==
  /\ At(Loop, "idle")
  /\ created[r] = None /\ \A q \in 1 .. r - 1 : created[q] # None
  /\ \/ /\ configured
        /\ created' = [created EXCEPT ![r] = clock + TTL]
        /\ pending' = Live \union {r}
     \/ UNCHANGED created /\ pending' = Live
  /\ UNCHANGED <<store, used, world, ghosts, queue, pc, local, faults>>

\* Without the access key, or when no client can be made, nothing starts.
StartAuth(r) ==
  /\ At(Loop, "idle")
  /\ created[r] = None /\ \A q \in 1 .. r - 1 : created[q] # None
  /\ \/ /\ configured
        /\ created' = [created EXCEPT ![r] = clock]
        /\ pending' = Live \union {r}
     \/ UNCHANGED created /\ pending' = Live
  /\ UNCHANGED <<store, used, world, ghosts, queue, pc, local, faults>>

\* The callback takes the request, unless it is unknown or expired.
CompleteAuth(r) ==
  /\ At(Loop, "idle") /\ r \in Live
  /\ pending' = Live \ {r}
  /\ used' = used \union {r}
  /\ Goto(Loop, "login", [NoLocals EXCEPT !.op = "login", !.login = r])
  /\ UNCHANGED <<store, created, world, ghosts, queue, faults>>

\* The callback carries an error, or names no request.
FailPendingAuth(r) ==
  /\ At(Loop, "idle") /\ created[r] # None
  /\ pending' = Live \ {r}
  /\ used' = used \union {r}
  /\ UNCHANGED <<store, created, world, ghosts, queue, pc, local, faults>>

\* client.login, and the new session in place of the old one.
StoreSession ==
  LET login == local[Loop].login IN
  /\ At(Loop, "login")
  /\ \/ /\ sessions' = [sessions EXCEPT ![User] = login]
        /\ newest' = login /\ out' = FALSE /\ half' = FALSE
        /\ NoteOverlap
        /\ Stay(Loop, "unsuppress")
     \/ Done(Loop) /\ UNCHANGED <<sessions, ghosts>>
  /\ UNCHANGED <<expired, keyring, requests, world, queue, faults>>

\* A login lifts the suppression.
Unsuppress ==
  /\ At(Loop, "unsuppress")
  /\ expired' = expired \ Ids
  /\ Stay(Loop, "persist")
  /\ UNCHANGED <<sessions, keyring, requests, world, ghosts, queue, faults>>

\* Mutant: the profile goes where earlier releases kept it.
PersistProfile_UnderAlias ==
  /\ At(Loop, "persist")
  /\ SaveProfile(Candidates[Len(Candidates)], local[Loop].login)
  /\ Done(Loop)
  /\ UNCHANGED <<sessions, expired, requests, world, ghosts, queue>>

\* Making the profile of the user may raise too, outside any try: then the
\* handler raises, the session stays and no profile is saved.
PersistProfile ==
  /\ At(Loop, "persist")
  /\ \/ SaveProfile(User, local[Loop].login)
     \/ UNCHANGED keyring /\ NoFault
  /\ Note(Unsaved, keyring'[User] # local[Loop].login)
  /\ Done(Loop)
  /\ UNCHANGED <<sessions, expired, requests, world, newest, out, half, queue>>

----------------------------------------------------------------------------
(* Finding a session, or restoring one from the keyring.                   *)

\* Who asks: the status handler, a snapshot request, and a worker, which asks
\* once for the session and once more for the e-mail address it goes under.
Return(t, found) ==
  LET l == local[t] IN
  \/ l.op = "status" /\ Done(t) /\ UNCHANGED queue
  \/ /\ l.op = "submit" /\ Done(t)
     /\ jobs' = IF found = None THEN jobs ELSE jobs + 1
     /\ admitted' = admitted + (jobs' - jobs)
  \/ /\ l.op = "job" /\ UNCHANGED queue
     /\ IF found = None THEN Done(t)
        ELSE Goto(t, "existing", [NoLocals EXCEPT !.op = "email"])
  \/ l.op = "email" /\ Goto(t, "deliver", NoLocals) /\ UNCHANGED queue

Status ==
  /\ At(Loop, "idle")
  /\ pending' = Live
  /\ Goto(Loop, "existing", [NoLocals EXCEPT !.op = "status"])
  /\ UNCHANGED <<store, created, used, world, ghosts, queue, faults>>

IsAuthenticated ==
  /\ At(Loop, "idle") /\ admitted < MaxJobs
  /\ Goto(Loop, "existing", [NoLocals EXCEPT !.op = "submit"])
  /\ UNCHANGED <<store, requests, world, ghosts, queue, faults>>

\* A worker's closure needs the access key before it asks for the session.
BeginJob(w) ==
  /\ At(w, "idle") /\ jobs > 0
  /\ jobs' = jobs - 1 /\ UNCHANGED admitted
  /\ IF configured THEN Goto(w, "existing", [NoLocals EXCEPT !.op = "job"])
     ELSE UNCHANGED <<pc, local>>
  /\ UNCHANGED <<store, requests, world, ghosts, faults>>

SessionsFound == {i \in DOMAIN Candidates : sessions[Candidates[i]] # None}
FirstFound == Candidates[CHOOSE i \in SessionsFound : \A k \in SessionsFound : i <= k]

\* The session of the first candidate that has one is taken.  The status handler
\* restores nothing without the access key.
ExistingSession(t) ==
  /\ At(t, "existing")
  /\ \/ /\ SessionsFound # {} /\ UNCHANGED queue
        /\ Goto(t, "adopt", [local[t] EXCEPT !.todo = <<sessions[FirstFound]>>, !.source = FirstFound])
     \/ /\ SessionsFound = {}
        /\ IF local[t].op = "status" /\ ~configured THEN Return(t, None)
           ELSE Stay(t, "suppressed") /\ UNCHANGED queue
  /\ UNCHANGED <<store, requests, world, ghosts, faults>>

\* A session found under a legacy id becomes the user's.
AdoptSession(t) ==
  LET found == Head(local[t].todo) IN
  /\ At(t, "adopt")
  /\ sessions' = IF local[t].source = User THEN sessions ELSE [sessions EXCEPT ![User] = found]
  /\ Return(t, found)
  /\ UNCHANGED <<expired, keyring, requests, world, ghosts, faults>>

\* A sign-out whose first half has run is not seen here.
RestoreSuppressed(t) ==
  /\ At(t, "suppressed")
  /\ IF expired \intersect Ids # {}
     THEN Return(t, None) /\ UNCHANGED trouble
     ELSE /\ Goto(t, "load", [local[t] EXCEPT !.todo = Candidates])
          /\ Note(Crossed, At(Loop, "suppress"))
          /\ UNCHANGED queue
  /\ UNCHANGED <<store, requests, world, newest, out, half, faults>>

\* _load_one for each candidate; a keyring that raises on a read counts as no
\* profile too.
LoadProfile(t) ==
  LET l == local[t]  id == Head(l.todo)  profile == FromKeyringValue(keyring[id]) IN
  /\ At(t, "load")
  /\ \/ /\ profile # None
        /\ Goto(t, "install", [l EXCEPT !.todo = <<profile>>, !.source = id])
        /\ NoFault /\ UNCHANGED <<queue, trouble>>
     \/ /\ IF profile = None THEN NoFault ELSE Fault
        /\ Note(Misread, profile # None)
        /\ IF Len(l.todo) > 1
           THEN Goto(t, "load", [l EXCEPT !.todo = Tail(@)]) /\ UNCHANGED queue
           ELSE Return(t, None)
  /\ UNCHANGED <<store, requests, world, newest, out, half>>

\* The client and the user are made from the profile: the session is back.
InstallSession(t) ==
  LET l == local[t] IN
  /\ At(t, "install")
  /\ \/ /\ sessions' = [sessions EXCEPT ![User] = Head(l.todo)]
        /\ IF l.source = User THEN Return(t, Head(l.todo))
           ELSE Stay(t, "migrate") /\ UNCHANGED queue
     \/ Return(t, None) /\ UNCHANGED sessions
  /\ UNCHANGED <<expired, keyring, requests, world, ghosts, faults>>

\* Mutant: the legacy entry is deleted although the save may have failed.
MigrateProfile_Moves(t) ==
  LET found == Head(local[t].todo) IN
  /\ At(t, "migrate")
  /\ \/ keyring' = [keyring EXCEPT ![local[t].source] = None, ![User] = found] /\ NoFault
     \/ keyring' = [keyring EXCEPT ![local[t].source] = None] /\ Fault
  /\ Return(t, found)
  /\ UNCHANGED <<sessions, expired, requests, world, ghosts>>

\* A profile found under a legacy id is saved under the user's, if it can be.
MigrateProfile(t) ==
  LET found == Head(local[t].todo) IN
  /\ At(t, "migrate")
  /\ SaveProfile(User, found)
  /\ Return(t, found)
  /\ UNCHANGED <<sessions, expired, requests, world, ghosts>>

----------------------------------------------------------------------------
(* The end of a delivery, and the sign-out.                                *)

\* The delivery ends, well or not: no session is cleared.
Deliver(w) ==
  /\ At(w, "deliver")
  /\ Done(w)
  /\ UNCHANGED <<store, requests, world, ghosts, queue, faults>>

Logout ==
  /\ At(Loop, "idle")
  /\ Goto(Loop, "pop", [NoLocals EXCEPT !.op = "logout", !.todo = Candidates])
  /\ UNCHANGED <<store, requests, world, ghosts, queue, faults>>

\* clear_session: the session goes and its client is closed ...
PopSession ==
  /\ At(Loop, "pop")
  /\ sessions' = [sessions EXCEPT ![Head(local[Loop].todo)] = None]
  /\ NoteOverlap
  /\ Stay(Loop, "suppress")
  /\ UNCHANGED <<expired, keyring, requests, world, newest, out, half, queue, faults>>

\* ... and no restore until the next login, or until the sign-out has succeeded.
SuppressRestore ==
  /\ At(Loop, "suppress")
  /\ expired' = expired \union {Head(local[Loop].todo)}
  /\ Advance(Loop, "pop", local[Loop], Stay(Loop, "cancel"))
  /\ UNCHANGED <<sessions, keyring, requests, world, ghosts, queue, faults>>

\* The requests of the user and its aliases are all there are.
CancelPending ==
  /\ At(Loop, "cancel")
  /\ pending' = {}
  /\ used' = used \union pending
  /\ Goto(Loop, "delete", [local[Loop] EXCEPT !.todo = Candidates])
  /\ UNCHANGED <<store, created, world, ghosts, queue, faults>>

\* Mutant: the legacy profiles stay.
DeleteProfile_UserOnly ==
  /\ At(Loop, "delete")
  /\ keyring' = [keyring EXCEPT ![User] = None]
  /\ Goto(Loop, "settle", local[Loop])
  /\ UNCHANGED <<sessions, expired, requests, world, ghosts, queue, faults>>

\* Each profile in turn; one that cannot be deleted does not stop the rest.  An
\* error of the keyring may read as if the entry was missing: it is passed over.
DeleteProfile ==
  LET l == local[Loop]
      fails == [l EXCEPT !.failed = TRUE]
      Then(m) == Advance(Loop, "delete", m, Goto(Loop, "settle", m))
  IN
  /\ At(Loop, "delete")
  /\ \/ keyring' = [keyring EXCEPT ![Head(l.todo)] = None] /\ NoFault /\ Then(l)
        /\ UNCHANGED trouble
     \/ UNCHANGED <<keyring, trouble>> /\ Fault /\ Then(fails)
     \/ /\ UNCHANGED keyring /\ Fault /\ Then(l)
        /\ Note(Mistaken, keyring[Head(l.todo)] # None)
  /\ UNCHANGED <<sessions, expired, requests, world, newest, out, half, queue>>

\* Mutant: a sign-out lifts the suppression whether it succeeded or not.
SettleLogout_Lifts ==
  LET failed == local[Loop].failed IN
  /\ At(Loop, "settle")
  /\ expired' = expired \ Ids
  /\ out' = (out \/ ~failed) /\ half' = failed
  /\ Note(Half, failed)
  /\ Done(Loop)
  /\ UNCHANGED <<sessions, keyring, requests, world, newest, queue, faults>>

\* A sign-out that could not delete a profile raises here.
SettleLogout ==
  LET failed == local[Loop].failed IN
  /\ At(Loop, "settle")
  /\ expired' = IF failed THEN expired ELSE expired \ Ids
  /\ out' = (out \/ ~failed) /\ half' = failed
  /\ Note(Half, failed)
  /\ Done(Loop)
  /\ UNCHANGED <<sessions, keyring, requests, world, newest, queue, faults>>

----------------------------------------------------------------------------
(* The world: time, and the server's restarts.                             *)

Tick ==
  /\ clock < MaxClock /\ clock' = clock + 1
  /\ UNCHANGED <<store, requests, configured, restarts, ghosts, queue, pc, local, faults>>

\* The keyring is all that is left; the jobs of the queue are abandoned.
Restart ==
  /\ restarts < MaxRestarts /\ restarts' = restarts + 1
  /\ pending' = {} /\ used' = used \union pending
  /\ sessions' = [i \in Ids |-> None] /\ expired' = {}
  /\ jobs' = 0 /\ admitted' = 0
  /\ pc' = [t \in Threads |-> "idle"] /\ local' = [t \in Threads |-> NoLocals]
  /\ trouble' = trouble \union {w \in {Unsaved} : local[Loop].op = "login" /\ ~At(Loop, "login")}
                         \union {w \in {Half} : local[Loop].op = "logout"}
  /\ half' = FALSE
  /\ UNCHANGED <<keyring, created, clock, configured, newest, out, faults>>

Finding(t) ==
  \/ ExistingSession(t) \/ AdoptSession(t)
  \/ RestoreSuppressed(t)
  \/ LoadProfile(t)
  \/ InstallSession(t)
  \/ MigrateProfile(t)

HandlerStep ==
  \/ \E r \in Requests : StartAuth(r) \/ CompleteAuth(r) \/ FailPendingAuth(r)
  \/ StoreSession \/ Unsuppress \/ PersistProfile
  \/ Status \/ IsAuthenticated \/ Finding(Loop)
  \/ Logout \/ PopSession \/ SuppressRestore \/ CancelPending \/ DeleteProfile \/ SettleLogout

WorkerStep(w) == BeginJob(w) \/ Finding(w) \/ Deliver(w)

Next ==
  \/ HandlerStep
  \/ \E w \in Workers : WorkerStep(w)
  \/ Tick
  \/ Restart

Spec == Init /\ [][Next]_vars

----------------------------------------------------------------------------
(* Properties.                                                             *)

\* Every variable has a value of its type, and a thread's locals fit the step it
\* is at.
TypeOK ==
  /\ created \in [Requests -> {None} \union (0 .. clock)]
  /\ pending \subseteq {r \in Requests : created[r] # None}
  /\ sessions \in [Ids -> Logins \union {None}]
  /\ keyring \in [Ids -> Logins \union {None, Garbled}]
  /\ expired \subseteq Ids /\ trouble \subseteq Troubles
  /\ \A t \in Threads :
       /\ pc[t] \in Steps
       /\ At(t, "idle") => local[t] = NoLocals
       /\ pc[t] \in {"adopt", "load", "install", "migrate", "pop", "suppress", "delete"}
            => local[t].todo # <<>>

\* A callback logs in only for a request that is younger than the time limit
\* and that no earlier callback, no sign-out and no restart has ended
\* (complete_auth, fail_pending_auth, _expire_pending_requests and
\* _cancel_pending_for_users between them).
CallbackIsFresh ==
  [][\A r \in Requests :
       (At(Loop, "idle") /\ At(Loop, "login")' /\ local'[Loop].login = r) =>
          r \notin used /\ clock < created[r] + TTL]_vars

\* No thread is between the two ends of a change to sessions or profiles.
Quiet == \A t \in Threads : pc[t] \in {"idle", "deliver"}

\* After a sign-out that succeeded, and until the next login, neither a session
\* nor a profile is left under any of the user's ids (logout), whatever the
\* workers did meanwhile, unless a restore slipped between its two halves or an
\* error of the keyring was taken for a missing profile.
SignedOutIsOut ==
  (out /\ Quiet /\ {Crossed, Mistaken} \intersect trouble = {}) =>
     \A i \in Ids : sessions[i] = None /\ keyring[i] = None

\* Once a sign-out has failed half way, nobody is signed in until the next login
\* or the next start: a profile that could not be deleted is not turned back into
\* a session, by a handler or by a worker (logout, _session_restore_suppressed).
SuppressedIsOut ==
  (half /\ Quiet /\ Crossed \notin trouble) =>
     \A i \in Ids : sessions[i] = None

\* The newest login stays in the keyring until a sign-out, whoever restores it and
\* however often the server restarts (_persist_profile and the migration of a
\* legacy profile), unless a fault or an overlap got in the way (the exceptions
\* are the Troubles; README, section 4).
ProfileIsKept ==
  (newest # None /\ ~out /\ Quiet /\ trouble = {}) =>
     \E i \in Ids : keyring[i] = newest /\ (newest # Legacy => i = User)

\* A session is always that of the newest login: no restore brings an earlier
\* account back over it (_existing_session, load_with_source), with the same
\* exceptions.
SessionIsNewest ==
  trouble = {} =>
     \A i \in Ids : sessions[i] \in {None, newest}
=============================================================================
