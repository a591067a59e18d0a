----------------------------- MODULE AuthProofs -----------------------------
(***************************************************************************)
(* Proofs about signing in, for any ids of the user, any number of         *)
(* workers, requests, faults and restarts, and any time limit.             *)
(***************************************************************************)
EXTENDS Auth, TLAPS

\* The domains of what the requests and their callbacks are made of.
Typed ==
  /\ clock \in Nat
  /\ created \in [Requests -> Nat \union {None}]
  /\ pending \subseteq Requests /\ used \subseteq Requests
  /\ pc \in [Threads -> Steps]
  /\ local = [t \in Threads |-> local[t]]

\* A request that is pending was made, and has not been answered or cancelled; a
\* number that was not given out yet has no past.
Unanswered ==
  /\ pending \intersect used = {}
  /\ \A r \in pending \union used : created[r] # None

Fresh == Typed /\ Unanswered

\* What the property says of a single step.
FreshLogin ==
  \A r \in Requests :
    (At(Loop, "idle") /\ At(Loop, "login")' /\ local'[Loop].login = r) =>
       r \notin used /\ clock < created[r] + TTL

----------------------------------------------------------------------------
\* Thread t, and no other, may be at another step now, but not at "login".
Moves(t) ==
  /\ pc' \in [Threads -> Steps] /\ local' = [u \in Threads |-> local'[u]]
  /\ pc'[t] # "login"
  /\ \A u \in Threads \ {t} : pc'[u] = pc[u]

LEMMA GotoMoves ==
  ASSUME Typed, NEW t \in Threads, NEW step \in Steps \ {"login"}, NEW l, Goto(t, step, l)
  PROVE  Moves(t)
  BY DEF Typed, Goto, Moves

\* Where a thread goes that has looked for a session, and one that goes on with a loop.
LEMMA DoneMoves ==
  ASSUME Typed, NEW t \in Threads, Done(t)
  PROVE  Moves(t)
  BY GotoMoves DEF Done, Steps

LEMMA ReturnMoves ==
  ASSUME Typed, NEW t \in Threads, NEW found, Return(t, found)
  PROVE  Moves(t)
  BY GotoMoves, DoneMoves DEF Return, Steps

LEMMA StayMoves ==
  ASSUME Typed, NEW t \in Threads, NEW step \in Steps \ {"login"}, Stay(t, step)
  PROVE  Moves(t)
  BY GotoMoves DEF Steps, Stay

LEMMA MovesKeepsFresh ==
  ASSUME Fresh, NEW t \in Threads, Moves(t), UNCHANGED requests, clock' = clock
  PROVE  Fresh' /\ FreshLogin
  <1>1. At(Loop, "idle") => ~At(Loop, "login")'
    BY DEF At, Moves, Threads
  <1> QED BY <1>1 DEF Fresh, Typed, Unanswered, requests, FreshLogin, Moves

LEMMA AtRestKeepsFresh ==
  ASSUME Fresh, UNCHANGED requests, clock' = clock, UNCHANGED <<pc, local>>
  PROVE  Fresh' /\ FreshLogin
  BY DEF Fresh, Typed, Unanswered, requests, FreshLogin, At

\* The requests that are kept when the old ones are dropped.
LEMMA LiveIsPending ==
  /\ Live \subseteq pending
  /\ \A r \in Live : created[r] + TTL > clock
  BY DEF Live

----------------------------------------------------------------------------
\* The handlers that touch the requests.
LEMMA RequestsKeepFresh ==
  ASSUME Fresh, NEW r \in Requests, StartAuth(r) \/ CompleteAuth(r) \/ FailPendingAuth(r)
  PROVE  Fresh' /\ FreshLogin
  <1>0. Loop \in Threads /\ None \notin Nat
    BY AuthAssumption DEF Threads
  <1>1. CASE StartAuth(r)
    <2>1. UNCHANGED <<pc, local, clock, used>>
      BY <1>1 DEF StartAuth, world
    <2>2. r \notin pending \union used
      BY <1>1 DEF StartAuth, Fresh, Unanswered
    <2>3. CASE created' = created /\ pending' = Live
      BY <2>1, <2>3, LiveIsPending DEF Fresh, Typed, Unanswered, FreshLogin, At
    <2>4. CASE created' = [created EXCEPT ![r] = clock] /\ pending' = Live \union {r}
      <3>1. created' \in [Requests -> Nat \union {None}] /\ created'[r] # None
        BY <1>0, <2>4 DEF Fresh, Typed
      <3>2. \A q \in Requests \ {r} : created'[q] = created[q]
        BY <2>4 DEF Fresh, Typed
      <3>3. Typed'
        BY <2>1, <2>4, <3>1, LiveIsPending DEF Fresh, Typed
      <3>4. Unanswered'
        BY <2>1, <2>2, <2>4, <3>1, <3>2, LiveIsPending DEF Fresh, Typed, Unanswered
      <3> QED BY <2>1, <3>3, <3>4 DEF Fresh, FreshLogin, At
    <2> QED BY <1>1, <2>3, <2>4 DEF StartAuth
  <1>2. CASE CompleteAuth(r)
    <2> DEFINE l == [NoLocals EXCEPT !.op = "login", !.login = r]
    <2>1. /\ UNCHANGED <<created, clock>> /\ r \in Live
          /\ pending' = Live \ {r} /\ used' = used \union {r} /\ Goto(Loop, "login", l)
      BY <1>2 DEF CompleteAuth, world
    <2>2. l.login = r
      BY DEF NoLocals
    <2> HIDE DEF l
    <2>3. /\ pc' \in [Threads -> Steps] /\ local' = [t \in Threads |-> local'[t]]
          /\ local'[Loop] = l
      BY <1>0, <2>1 DEF Goto, Fresh, Typed, Steps
    <2>4. Typed'
      BY <2>1, <2>3, LiveIsPending DEF Fresh, Typed
    <2>5. Unanswered'
      BY <2>1, LiveIsPending DEF Fresh, Unanswered
    <2>6. FreshLogin
      <3>1. r \notin used
        BY <2>1, LiveIsPending DEF Fresh, Unanswered
      <3>2. clock < created[r] + TTL
        <4>1. created[r] \in Nat
          BY <2>1, LiveIsPending DEF Fresh, Typed, Unanswered
        <4> QED BY <2>1, <4>1, LiveIsPending, AuthAssumption DEF Fresh, Typed
      <3> QED BY <2>2, <2>3, <3>1, <3>2 DEF FreshLogin
    <2> QED BY <2>4, <2>5, <2>6 DEF Fresh
  <1>3. CASE FailPendingAuth(r)
    <2>1. UNCHANGED <<pc, local, clock, created>>
          /\ pending' = Live \ {r} /\ used' = used \union {r} /\ created[r] # None
      BY <1>3 DEF FailPendingAuth, world
    <2>2. Typed'
      BY <2>1, LiveIsPending DEF Fresh, Typed
    <2>3. Unanswered'
      BY <2>1, LiveIsPending DEF Fresh, Unanswered
    <2> QED BY <2>1, <2>2, <2>3 DEF Fresh, FreshLogin, At
  <1> QED BY <1>1, <1>2, <1>3

\* A thread that looks for a session.
LEMMA FindingKeepsFresh ==
  ASSUME Fresh, NEW t \in Threads, Finding(t)
  PROVE  Fresh' /\ FreshLogin
  <1> USE DEF Fresh
  <1>0. UNCHANGED requests /\ clock' = clock
    BY DEF Finding, ExistingSession, AdoptSession, RestoreSuppressed, LoadProfile, InstallSession,
           MigrateProfile, world, store
  <1>1. CASE ExistingSession(t)
    BY <1>0, <1>1, ReturnMoves, GotoMoves, StayMoves, MovesKeepsFresh DEF Steps, ExistingSession
  <1>2. CASE RestoreSuppressed(t)
    BY <1>0, <1>2, ReturnMoves, GotoMoves, MovesKeepsFresh DEF Steps, RestoreSuppressed
  <1>3. CASE LoadProfile(t)
    BY <1>0, <1>3, ReturnMoves, GotoMoves, MovesKeepsFresh DEF Steps, LoadProfile
  <1>4. CASE InstallSession(t)
    BY <1>0, <1>4, ReturnMoves, StayMoves, MovesKeepsFresh DEF Steps, InstallSession
  <1>5. CASE MigrateProfile(t)
    BY <1>0, <1>5, ReturnMoves, MovesKeepsFresh DEF Steps, MigrateProfile
  <1>6. CASE AdoptSession(t)
    BY <1>0, <1>6, ReturnMoves, MovesKeepsFresh DEF AdoptSession
  <1> QED BY <1>1, <1>2, <1>3, <1>4, <1>5, <1>6 DEF Finding

\* The rest of the event loop's handlers.
LEMMA HandlersKeepFresh ==
  ASSUME Fresh, HandlerStep
  PROVE  Fresh' /\ FreshLogin
  <1> USE DEF Fresh
  <1>0. Loop \in Threads
    BY DEF Threads
  <1>1. CASE StoreSession \/ Unsuppress \/ PersistProfile
    <2>1. UNCHANGED requests /\ clock' = clock
      BY <1>1 DEF StoreSession, Unsuppress, PersistProfile, world
    <2>2. Moves(Loop)
      BY <1>0, <1>1, StayMoves, DoneMoves DEF Steps, StoreSession, Unsuppress, PersistProfile
    <2> QED BY <1>0, <2>1, <2>2, MovesKeepsFresh
  <1>2. CASE Status
    <2>1. pending' = Live /\ UNCHANGED <<created, used, clock>>
      BY <1>2 DEF Status, world
    <2>2. Moves(Loop) /\ ~At(Loop, "login")'
      BY <1>0, <1>2, GotoMoves DEF Steps, Status, Moves, At
    <2>3. Typed' /\ Unanswered'
      BY <2>1, <2>2, LiveIsPending DEF Typed, Unanswered, Moves
    <2> QED BY <2>2, <2>3 DEF FreshLogin
  <1>3. CASE IsAuthenticated \/ Logout
    <2>1. UNCHANGED requests /\ clock' = clock
      BY <1>3 DEF IsAuthenticated, Logout, world
    <2>2. Moves(Loop)
      BY <1>0, <1>3, GotoMoves DEF Steps, IsAuthenticated, Logout
    <2> QED BY <1>0, <2>1, <2>2, MovesKeepsFresh
  <1>4. CASE CancelPending
    <2>1. pending' = {} /\ used' = used \union pending /\ UNCHANGED <<created, clock>>
      BY <1>4 DEF CancelPending, world
    <2>2. Moves(Loop) /\ ~At(Loop, "login")'
      BY <1>0, <1>4, GotoMoves DEF Steps, CancelPending, Moves, At
    <2>3. Typed' /\ Unanswered'
      BY <2>1, <2>2 DEF Typed, Unanswered, Moves
    <2> QED BY <2>2, <2>3 DEF FreshLogin
  <1>5. CASE DeleteProfile \/ SettleLogout \/ PopSession \/ SuppressRestore
    <2>1. UNCHANGED requests /\ clock' = clock
      BY <1>5 DEF DeleteProfile, SettleLogout, PopSession, SuppressRestore, world
    <2>2. CASE DeleteProfile \/ SettleLogout
      <3>1. Moves(Loop)
        BY <1>0, <2>2, GotoMoves, DoneMoves DEF Steps, DeleteProfile, SettleLogout, Advance
      <3> QED BY <1>0, <2>1, <3>1, MovesKeepsFresh
    <2>3. CASE PopSession \/ SuppressRestore
      <3>1. Moves(Loop)
        BY <1>0, <2>3, GotoMoves, StayMoves DEF Steps, PopSession, SuppressRestore, Advance
      <3> QED BY <1>0, <2>1, <3>1, MovesKeepsFresh
    <2> QED BY <1>5, <2>2, <2>3
  <1> QED BY <1>0, <1>1, <1>2, <1>3, <1>4, <1>5, RequestsKeepFresh, FindingKeepsFresh DEF HandlerStep

\* One step of anybody.
LEMMA StepKeepsFresh ==
  ASSUME Fresh, [Next]_vars
  PROVE  Fresh' /\ FreshLogin
  <1> USE DEF Fresh
  <1>1. ASSUME NEW w \in Workers, WorkerStep(w) PROVE Fresh' /\ FreshLogin
    <2>0. w \in Threads
      BY DEF Threads
    <2>1. CASE Finding(w)
      BY <2>0, <2>1, FindingKeepsFresh
    <2>2. CASE BeginJob(w) \/ Deliver(w)
      <3>1. UNCHANGED requests /\ clock' = clock
        BY <2>2 DEF BeginJob, Deliver, world
      <3>2. Moves(w) \/ UNCHANGED <<pc, local>>
        BY <2>0, <2>2, GotoMoves, DoneMoves DEF Steps, BeginJob, Deliver
      <3> QED BY <2>0, <3>1, <3>2, MovesKeepsFresh, AtRestKeepsFresh
    <2> QED BY <1>1, <2>1, <2>2 DEF WorkerStep
  <1>2. CASE Tick
    BY <1>2 DEF Tick, requests, Typed, Unanswered, FreshLogin, At
  <1>3. CASE Restart
    <2>1. /\ pending' = {} /\ used' = used \union pending /\ UNCHANGED <<created, clock>>
          /\ pc' = [t \in Threads |-> "idle"] /\ local' = [t \in Threads |-> NoLocals]
      BY <1>3 DEF Restart
    <2> QED BY <2>1 DEF Typed, Unanswered, FreshLogin, At, Threads, Steps
  <1>4. CASE UNCHANGED vars
    BY <1>4, AtRestKeepsFresh DEF vars, world
  <1> QED BY <1>1, <1>2, <1>3, <1>4, HandlersKeepFresh DEF Next

\* A callback never signs in for a request that is too old, that was answered or
\* cancelled before, or that an earlier server gave out (complete_auth,
\* fail_pending_auth, logout, auth.py:392-454), whatever else happens meanwhile.
THEOREM CallbacksAreFresh == Spec => CallbackIsFresh
  <1>1. Init => Fresh
    BY DEF Init, Fresh, Typed, Unanswered, Steps
  <1>2. Fresh /\ [Next]_vars => Fresh'
    BY StepKeepsFresh
  <1>3. Fresh /\ [Next]_vars =>
          [\A r \in Requests :
             (At(Loop, "idle") /\ At(Loop, "login")' /\ local'[Loop].login = r) =>
                r \notin used /\ clock < created[r] + TTL]_vars
    BY StepKeepsFresh DEF FreshLogin
  <1> QED BY <1>1, <1>2, <1>3, PTL DEF Spec, CallbackIsFresh

----------------------------------------------------------------------------
(* Who is signed in: the inductive invariant behind the properties of the  *)
(* sessions and of the profiles.                                           *)

\* The values of the variables, but for the clock and the requests.
Kinds ==
  /\ sessions \in [Ids -> Logins \union {None}]
  /\ keyring \in [Ids -> Logins \union {None, Garbled}]
  /\ expired \subseteq Ids /\ trouble \subseteq Troubles
  /\ newest \in Logins \union {None} /\ out \in BOOLEAN /\ half \in BOOLEAN
  /\ pc \in [Threads -> Steps] /\ local = [t \in Threads |-> local[t]]

\* The locals a thread has at a step.
Formed(l) ==
  DOMAIN l = {"op", "todo", "login", "source", "failed"} /\ l.failed \in BOOLEAN

Seeks(t, l) == IF t = Loop THEN l.op \in {"status", "submit"} ELSE l.op \in {"job", "email"}

Shape(t, step, l) ==
  /\ Formed(l)
  /\ step = "idle" => l = NoLocals
  /\ step \in {"existing", "adopt", "suppressed", "load", "install", "migrate"} => Seeks(t, l)
  /\ step = "adopt" => l.source = User
  /\ step \in {"load", "pop", "suppress", "delete"} => l.todo \in Seq(Ids) /\ l.todo # <<>>
  /\ step \in {"adopt", "install", "migrate"} => l.todo \in Seq(Logins) /\ l.todo # <<>>
  /\ step \in {"login", "unsuppress", "persist"} =>
       t = Loop /\ l.op = "login" /\ l.login \in Requests
  /\ step = "deliver" => t # Loop
  /\ step \in {"pop", "suppress", "cancel", "delete", "settle"} => t = Loop /\ l.op = "logout"

Shapes == \A t \in Threads : Shape(t, pc[t], local[t])

\* The aliases never have a session: what is restored, under whatever id it was
\* found, is the user's, and so is what is found among the sessions.
OnlyUser == \A i \in Ids \ {User} : sessions[i] = None

Calm == Crossed \notin trouble
Sure == Calm /\ Mistaken \notin trouble

Loading(t) == pc[t] \in {"load", "install", "migrate"}
InLogin    == pc[Loop] \in {"unsuppress", "persist"}      \* the session is stored
Again      == pc[Loop] = "pop" /\ local[Loop].todo # Candidates \* one id at least is cleared
Ending     == pc[Loop] \in {"cancel", "delete", "settle"}

\* A sign-out under way suppresses restores, and has left no session behind.
Barred == (Ending \/ Again) => expired # {}
Leaves == (Calm /\ (Ending \/ Again \/ pc[Loop] = "suppress")) => sessions[User] = None

\* A thread past the check of the suppression runs while nothing is suppressed.
Apart ==
  Calm => \A t \in Threads : Loading(t) => expired = {} /\ pc[Loop] # "suppress"

\* The profiles a sign-out has come past are gone.
Deletes ==
  (Sure /\ pc[Loop] \in {"delete", "settle"} /\ ~local[Loop].failed) =>
     \A i \in Ids : \/ keyring[i] = None
                    \/ /\ pc[Loop] = "delete"
                       /\ \E k \in DOMAIN local[Loop].todo : local[Loop].todo[k] = i

\* After a sign-out nothing is left, and nobody brings anything back.
Outside ==
  (Sure /\ out) =>
     /\ ~InLogin /\ sessions[User] = None /\ \A i \in Ids : keyring[i] = None
     /\ \A t \in Threads : pc[t] \notin {"install", "migrate"}

\* While a login is settled its session is there, and nobody looks for another.
LogsIn ==
  InLogin => /\ newest = local[Loop].login /\ ~out /\ ~half
             /\ Calm => sessions[User] = newest /\ \A t \in Threads : ~Restoring(t)

\* While restores are suppressed there is no session, but for one just stored.
Suppressed ==
  /\ half => expired # {}
  /\ (Calm /\ expired # {} /\ pc[Loop] # "unsuppress") => sessions[User] = None

\* The keyring holds the profile of the newest login, if there was one.
Good ==
  \/ newest \in Requests /\ keyring[User] = newest
  \/ /\ newest = Legacy /\ \E i \in Ids : keyring[i] = Legacy
     /\ \A i \in Ids : keyring[i] \in {None, Legacy, Garbled}
  \/ newest = None /\ \A i \in Ids : keyring[i] \in {None, Garbled}

Kept == (trouble = {} /\ ~InLogin /\ pc[Loop] \notin {"delete", "settle"} /\ ~out) => Good

\* What a thread has loaded is of the newest login; one that has gone past the
\* user's own profile did so because there is none.
Loads ==
  trouble = {} => \A t \in Threads :
    /\ pc[t] \in {"install", "migrate"} => Head(local[t].todo) = newest
    /\ (pc[t] = "load" /\ newest \in Requests /\ ~out) => local[t].todo = Candidates

NewestIn == trouble = {} => sessions[User] \in {None, newest}

Accounts ==
  /\ Kinds /\ Shapes /\ OnlyUser
  /\ Barred /\ Leaves /\ Apart /\ Deletes /\ Outside
  /\ LogsIn /\ Suppressed /\ Kept /\ Loads /\ NewestIn

----------------------------------------------------------------------------
\* The constants.
LEMMA Basics ==
  /\ Loop \in Threads /\ Workers \subseteq Threads /\ Loop \notin Workers
  /\ \A t \in Threads : t # Loop => t \in Workers
  /\ Candidates \in Seq(Ids) /\ Candidates # <<>> /\ User \in Ids /\ Head(Candidates) = User
  /\ \A i \in Ids : \E k \in DOMAIN Candidates : Candidates[k] = i
  /\ None \notin Logins /\ Garbled \notin Logins /\ None # Garbled
  /\ Requests \subseteq Logins /\ Legacy \in Logins /\ Legacy \notin Requests
  <1>1. Candidates \in Seq(Ids) /\ Candidates # <<>>
    BY AuthAssumption
  <1>2. 1 \in DOMAIN Candidates /\ Head(Candidates) = User
    BY <1>1 DEF User
  <1> QED BY <1>1, <1>2, AuthAssumption DEF Threads, Ids, User, Logins, Requests, Legacy

\* Thread t, and no other, has gone to another step.
Moved(t) ==
  /\ pc' \in [Threads -> Steps] /\ local' = [u \in Threads |-> local'[u]]
  /\ Shape(t, pc'[t], local'[t])
  /\ \A u \in Threads \ {t} : pc'[u] = pc[u] /\ local'[u] = local[u]

LEMMA MovedShapes ==
  ASSUME Shapes, NEW t \in Threads, Moved(t)
  PROVE  Shapes'
  BY DEF Shapes, Moved

LEMMA GotoMoved ==
  ASSUME Kinds, NEW t \in Threads, NEW step \in Steps, NEW l, Goto(t, step, l), Shape(t, step, l)
  PROVE  Moved(t) /\ pc'[t] = step /\ local'[t] = l
  <1>1. /\ pc' \in [Threads -> Steps] /\ local' = [u \in Threads |-> local'[u]]
        /\ pc'[t] = step /\ local'[t] = l
        /\ \A u \in Threads \ {t} : pc'[u] = pc[u] /\ local'[u] = local[u]
    BY DEF Goto, Kinds
  <1> QED BY <1>1 DEF Moved

LEMMA DoneMoved ==
  ASSUME Kinds, NEW t \in Threads, Done(t)
  PROVE  Moved(t) /\ pc'[t] = "idle" /\ local'[t] = NoLocals
  <1>1. Shape(t, "idle", NoLocals)
    BY DEF Shape, Formed, NoLocals
  <1> QED BY <1>1, GotoMoved DEF Done, Steps

\* The locals a login starts with.
LEMMA Starts ==
  ASSUME NEW op, NEW login
  PROVE  LET l == [NoLocals EXCEPT !.op = op, !.login = login] IN
         Formed(l) /\ l.op = op /\ l.login = login
  BY DEF NoLocals, Formed

\* An operation that begins with nothing but its name.
LEMMA NamedOnly ==
  ASSUME NEW op
  PROVE  Formed([NoLocals EXCEPT !.op = op]) /\ [NoLocals EXCEPT !.op = op].op = op
  BY DEF NoLocals, Formed

\* A search that ends hands what it found to whom asked for it.
LEMMA ReturnMoved ==
  ASSUME Kinds, NEW t \in Threads, Seeks(t, local[t]), NEW found, Return(t, found)
  PROVE  Moved(t) /\ pc'[t] \in {"idle", "existing", "deliver"}
  <1> DEFINE email == [NoLocals EXCEPT !.op = "email"]
  <1>1. Formed(email) /\ email.op = "email" /\ Formed(NoLocals)
    BY NamedOnly DEF NoLocals, Formed
  <1>2. \/ Done(t)
        \/ local[t].op = "job" /\ Goto(t, "existing", email)
        \/ local[t].op = "email" /\ Goto(t, "deliver", NoLocals)
    BY DEF Return
  <1> HIDE DEF email
  <1>3. CASE Done(t)
    BY <1>3, DoneMoved
  <1>4. CASE local[t].op = "job" /\ Goto(t, "existing", email)
    <2>1. Shape(t, "existing", email)
      BY <1>1, <1>4 DEF Seeks, Shape
    <2> QED BY <1>4, <2>1, GotoMoved DEF Steps
  <1>5. CASE local[t].op = "email" /\ Goto(t, "deliver", NoLocals)
    <2>1. Shape(t, "deliver", NoLocals)
      BY <1>1, <1>5 DEF Seeks, Shape
    <2> QED BY <1>5, <2>1, GotoMoved DEF Steps
  <1> QED BY <1>2, <1>3, <1>4, <1>5

\* What is found among the sessions is the user's own.
LEMMA FoundIsUsers ==
  ASSUME OnlyUser, SessionsFound # {}
  PROVE  FirstFound = User /\ sessions[User] # None
  <1>1. \A i \in SessionsFound : i \in DOMAIN Candidates /\ Candidates[i] = User
    BY DEF SessionsFound, OnlyUser, Ids
  <1>2. 1 \in SessionsFound /\ sessions[User] # None
    BY <1>1, Basics DEF SessionsFound, User
  <1>3. \A k \in SessionsFound : 1 <= k
    BY Basics DEF SessionsFound
  <1> DEFINE first == CHOOSE i \in SessionsFound : \A k \in SessionsFound : i <= k
  <1>4. first \in SessionsFound
    BY <1>2, <1>3
  <1>5. FirstFound = Candidates[first]
    BY DEF FirstFound
  <1> QED BY <1>1, <1>2, <1>4, <1>5

LEMMA NoneFound ==
  ASSUME SessionsFound = {}
  PROVE  sessions[User] = None
  BY Basics DEF SessionsFound, User

\* What happened does not unhappen.
LEMMA Troubled ==
  ASSUME trouble \subseteq trouble'
  PROVE  (Calm' => Calm) /\ (Sure' => Sure) /\ (Sure => Calm)
         /\ (trouble' = {} => trouble = {}) /\ (trouble = {} => Sure)
  BY DEF Calm, Sure

----------------------------------------------------------------------------
\* Steps that leave sessions, profiles and what is known of them alone.
LEMMA AtRestKeepsAccounts ==
  ASSUME Accounts, UNCHANGED <<store, ghosts, pc, local>>
  PROVE  Accounts'
  <1> USE DEF Accounts, store, ghosts
  <1>1. Kinds' /\ Shapes' /\ OnlyUser'
    BY DEF Kinds, Shapes, OnlyUser
  <1>2. Barred' /\ Leaves' /\ Apart' /\ Deletes' /\ Outside'
    BY DEF Barred, Leaves, Apart, Deletes, Outside, Ending, Again, Calm, Sure, Loading, InLogin
  <1>3. LogsIn' /\ Suppressed'
    BY DEF LogsIn, Suppressed, Again, Calm, InLogin, Restoring
  <1>4. Kept' /\ Loads' /\ NewestIn'
    BY DEF Kept, Loads, NewestIn, InLogin, Good
  <1> QED BY <1>1, <1>2, <1>3, <1>4

\* A thread begins or gives up something, or begins to clear sessions; it looks
\* for a profile only if there is no session.
Outset(t) ==
  /\ pc[t] \in {"idle", "existing", "adopt", "suppressed", "load", "install", "migrate", "login",
               "deliver"}
  /\ \/ pc'[t] \in {"idle", "existing", "adopt", "deliver", "login"}
     \/ pc'[t] = "suppressed" /\ sessions[User] = None
     \/ pc'[t] = "pop" /\ local'[t].todo = Candidates

LEMMA OutsetKeepsAccounts ==
  ASSUME Accounts, NEW t \in Threads, Moved(t), Outset(t),
         UNCHANGED <<sessions, expired, keyring, newest, out, half>>,
         trouble \subseteq trouble', trouble' \subseteq Troubles
  PROVE  Accounts'
  <1> USE DEF Accounts
  <1>0. \A u \in Threads \ {t} : pc'[u] = pc[u] /\ local'[u] = local[u]
    BY DEF Moved
  <1>1. Kinds' /\ Shapes' /\ OnlyUser'
    BY MovedShapes DEF Kinds, Moved, OnlyUser
  <1>2. Barred' /\ Leaves'
    BY <1>0, Basics, Troubled DEF Barred, Leaves, Ending, Again, Outset
  <1>3. Apart'
    BY <1>0, Basics, Troubled DEF Apart, Loading, Outset
  <1>4. Deletes'
    BY <1>0, Basics, Troubled DEF Deletes, Outset
  <1>5. Outside'
    BY <1>0, Basics, Troubled DEF Outside, InLogin, Outset
  <1>6. LogsIn'
    BY <1>0, Basics, Troubled DEF LogsIn, InLogin, Restoring, Outset, Shapes, Shape
  <1>7. Suppressed'
    BY <1>0, Basics, Troubled DEF Suppressed, Again, Outset
  <1>8. Kept'
    BY <1>0, Basics, Troubled DEF Kept, InLogin, Good, Outset
  <1>9. Loads' /\ NewestIn'
    BY <1>0, Basics, Troubled DEF Loads, NewestIn, Outset
  <1> QED BY <1>1, <1>2, <1>3, <1>4, <1>5, <1>6, <1>7, <1>8, <1>9

\* Any thread that starts to look for a session, or to log in.
LEMMA BeginMoved ==
  ASSUME Kinds, NEW t \in Threads, NEW step \in Steps, NEW l, Formed(l), Goto(t, step, l),
         \/ step = "existing" /\ IF t = Loop THEN l.op \in {"status", "submit"} ELSE l.op = "job"
         \/ step = "login" /\ t = Loop /\ l.op = "login" /\ l.login \in Requests
  PROVE  Moved(t) /\ pc'[t] = step
  <1>1. Shape(t, step, l)
    BY DEF Shape, Seeks
  <1> QED BY <1>1, GotoMoved

\* Threads that begin to look for a session, or to log in.
LEMMA BeginKeepsAccounts ==
  ASSUME Accounts, Status \/ IsAuthenticated \/ (\E r \in Requests : CompleteAuth(r))
                   \/ (\E w \in Workers : BeginJob(w))
  PROVE  Accounts'
  <1> USE DEF Accounts
  <1>1. ASSUME Status \/ IsAuthenticated \/ \E r \in Requests : CompleteAuth(r) PROVE Accounts'
    <2>1. pc[Loop] = "idle" /\ UNCHANGED <<store, ghosts>>
      BY <1>1 DEF Status, IsAuthenticated, CompleteAuth, At
    <2>2. Moved(Loop) /\ pc'[Loop] \in {"existing", "login"}
      <3>1. CASE Status
        BY <3>1, Basics, BeginMoved, NamedOnly DEF Status, Steps
      <3>2. CASE IsAuthenticated
        BY <3>2, Basics, BeginMoved, NamedOnly DEF IsAuthenticated, Steps
      <3>3. ASSUME NEW r \in Requests, CompleteAuth(r)
            PROVE  Moved(Loop) /\ pc'[Loop] = "login"
        <4>1. PICK l : l = [NoLocals EXCEPT !.op = "login", !.login = r]
          OBVIOUS
        <4>2. Formed(l) /\ l.op = "login" /\ l.login = r
          BY <4>1, Starts
        <4> QED BY <3>3, <4>1, <4>2, Basics, BeginMoved DEF CompleteAuth, Steps
      <3> QED BY <1>1, <3>1, <3>2, <3>3
    <2> QED BY <2>1, <2>2, Basics, OutsetKeepsAccounts DEF Outset, store, ghosts, Kinds
  <1>2. ASSUME NEW w \in Workers, BeginJob(w) PROVE Accounts'
    <2>1. pc[w] = "idle" /\ w \in Threads /\ w # Loop /\ UNCHANGED <<store, ghosts>>
      BY <1>2, Basics DEF BeginJob, At
    <2>2. CASE UNCHANGED <<pc, local>>
      BY <2>1, <2>2, AtRestKeepsAccounts
    <2>3. CASE Goto(w, "existing", [NoLocals EXCEPT !.op = "job"])
      <3>1. Moved(w) /\ pc'[w] = "existing"
        BY <2>1, <2>3, BeginMoved, NamedOnly DEF Steps
      <3> QED BY <2>1, <3>1, OutsetKeepsAccounts DEF Outset, store, ghosts, Kinds
    <2> QED BY <1>2, <2>2, <2>3 DEF BeginJob
  <1> QED BY <1>1, <1>2

\* A worker that has delivered, and the event loop that begins a sign-out.
LEMMA ClearingBegins ==
  ASSUME Accounts, Logout \/ \E w \in Workers : Deliver(w)
  PROVE  Accounts'
  <1> USE DEF Accounts
  <1>1. CASE Logout
    <2>1. pc[Loop] = "idle" /\ UNCHANGED <<store, ghosts>>
      BY <1>1 DEF Logout, At
    <2>2. PICK l : l = [NoLocals EXCEPT !.op = "logout", !.todo = Candidates]
      OBVIOUS
    <2>3. Formed(l) /\ l.op = "logout" /\ l.todo = Candidates
      BY <2>2 DEF NoLocals, Formed
    <2>4. Shape(Loop, "pop", l)
      BY <2>3, Basics DEF Shape
    <2>5. Goto(Loop, "pop", l)
      BY <1>1, <2>2 DEF Logout
    <2>6. Moved(Loop) /\ pc'[Loop] = "pop" /\ local'[Loop].todo = Candidates
      BY <2>3, <2>4, <2>5, Basics, GotoMoved DEF Steps
    <2> QED BY <2>1, <2>6, Basics, OutsetKeepsAccounts DEF Outset, store, ghosts, Kinds
  <1>2. ASSUME NEW w \in Workers, Deliver(w) PROVE Accounts'
    <2>1. pc[w] = "deliver" /\ w \in Threads /\ UNCHANGED <<store, ghosts>>
      BY <1>2, Basics DEF Deliver, At
    <2>2. Moved(w) /\ pc'[w] = "idle"
      BY <1>2, <2>1, DoneMoved DEF Deliver
    <2> QED BY <2>1, <2>2, OutsetKeepsAccounts DEF Outset, store, ghosts, Kinds
  <1> QED BY <1>1, <1>2

----------------------------------------------------------------------------
\* What is noted when a session is stored or popped.
LEMMA OverlapNoted ==
  ASSUME Kinds, NoteOverlap
  PROVE  /\ trouble \subseteq trouble' /\ trouble' \subseteq Troubles
         /\ Calm' => \A u \in Threads \ {Loop} : ~Restoring(u)
  BY Basics DEF NoteOverlap, Note, Kinds, Troubles, Calm

\* A login puts its session in the place of any other.
LEMMA StoreSessionKeepsAccounts ==
  ASSUME Accounts, StoreSession
  PROVE  Accounts'
  <1> USE DEF Accounts
  <1> DEFINE login == local[Loop].login
  <1>0. pc[Loop] = "login" /\ UNCHANGED <<expired, keyring>> /\ Loop \in Threads
    BY Basics DEF StoreSession, At
  <1>1. /\ login \in Requests /\ local[Loop].op = "login" /\ Formed(local[Loop])
        /\ login \in Logins /\ login # None
    BY <1>0, Basics DEF Shapes, Shape
  <1>2. CASE Done(Loop) /\ UNCHANGED <<sessions, ghosts>>
    BY <1>0, <1>2, DoneMoved, OutsetKeepsAccounts DEF Outset, Kinds, ghosts
  <1>3. CASE /\ sessions' = [sessions EXCEPT ![User] = login]
             /\ newest' = login /\ out' = FALSE /\ half' = FALSE
             /\ NoteOverlap
             /\ Stay(Loop, "unsuppress")
    <2>1. /\ trouble \subseteq trouble' /\ trouble' \subseteq Troubles
          /\ Calm' => \A u \in Threads \ {Loop} : ~Restoring(u)
      BY <1>0, <1>3, OverlapNoted
    <2>2. Moved(Loop) /\ pc'[Loop] = "unsuppress" /\ local'[Loop] = local[Loop]
      <3>1. Shape(Loop, "unsuppress", local[Loop])
        BY <1>1 DEF Shape
      <3> QED BY <1>0, <1>3, <3>1, GotoMoved DEF Stay, Steps
    <2>3. \A u \in Threads \ {Loop} : pc'[u] = pc[u] /\ local'[u] = local[u]
      BY <2>2 DEF Moved
    <2>4. sessions' \in [Ids -> Logins \union {None}] /\ sessions'[User] = login
          /\ \A i \in Ids \ {User} : sessions'[i] = sessions[i]
      BY <1>1, <1>3, Basics DEF Kinds
    <2> HIDE DEF login
    <2>5. Kinds' /\ Shapes' /\ OnlyUser'
      BY <1>0, <1>1, <1>3, <2>1, <2>2, <2>4, MovedShapes DEF Kinds, Moved, OnlyUser
    <2>6. Barred' /\ Leaves' /\ Deletes'
      BY <2>2 DEF Barred, Leaves, Deletes, Ending, Again
    <2>7. Apart'
      BY <2>1, <2>2, <2>3 DEF Apart, Loading, Restoring
    <2>8. Outside'
      BY <1>3 DEF Outside
    <2>9. LogsIn'
      BY <1>0, <1>3, <2>1, <2>2, <2>3, <2>4 DEF LogsIn, Restoring, login
    <2>10. Suppressed' /\ Kept'
      BY <1>3, <2>2 DEF Suppressed, Kept, InLogin
    <2>11. Loads'
      BY <2>1, <2>2, <2>3, Troubled DEF Loads, Restoring, Calm
    <2>12. NewestIn'
      BY <1>3, <2>4 DEF NewestIn
    <2> QED BY <2>5, <2>6, <2>7, <2>8, <2>9, <2>10, <2>11, <2>12
  <1> QED BY <1>2, <1>3 DEF StoreSession

\* A login lifts the suppression.
LEMMA UnsuppressKeepsAccounts ==
  ASSUME Accounts, Unsuppress
  PROVE  Accounts'
  <1> USE DEF Accounts
  <1>0. /\ pc[Loop] = "unsuppress" /\ Loop \in Threads
        /\ UNCHANGED <<sessions, keyring, newest, out, half, trouble>>
    BY Basics DEF Unsuppress, At, ghosts
  <1>1. local[Loop].login \in Requests /\ Shape(Loop, "persist", local[Loop])
    BY <1>0 DEF Shapes, Shape
  <1>2. Moved(Loop) /\ pc'[Loop] = "persist" /\ local'[Loop] = local[Loop]
    BY <1>0, <1>1, GotoMoved DEF Unsuppress, Stay, Steps
  <1>3. \A u \in Threads \ {Loop} : pc'[u] = pc[u] /\ local'[u] = local[u]
    BY <1>2 DEF Moved
  <1>4. expired' = {}
    BY DEF Unsuppress, Kinds
  <1>5. ~half
    BY <1>0 DEF LogsIn, InLogin
  <1>6. Kinds' /\ Shapes' /\ OnlyUser'
    BY <1>0, <1>2, <1>4, MovedShapes DEF Kinds, Moved, OnlyUser
  <1>7. Barred' /\ Leaves' /\ Deletes' /\ Suppressed' /\ Kept'
    BY <1>0, <1>2, <1>4, <1>5 DEF Barred, Leaves, Deletes, Suppressed, Kept, Ending, Again, InLogin
  <1>8. Apart'
    BY <1>0, <1>2, <1>3, <1>4 DEF Apart, Loading, Calm
  <1>9. Outside' /\ LogsIn'
    BY <1>0, <1>2, <1>3 DEF Outside, LogsIn, InLogin, Calm, Sure, Restoring
  <1>10. Loads' /\ NewestIn'
    BY <1>0, <1>2, <1>3 DEF Loads, NewestIn
  <1> QED BY <1>6, <1>7, <1>8, <1>9, <1>10

\* A write to the keyring that may fail.
LEMMA Saved ==
  ASSUME Kinds, NEW id \in Ids, NEW login \in Logins, SaveProfile(id, login)
  PROVE  /\ keyring' \in [Ids -> Logins \union {None, Garbled}]
         /\ \A i \in Ids \ {id} : keyring'[i] = keyring[i]
         /\ keyring'[id] \in {login, keyring[id]}
  BY DEF SaveProfile, Kinds

\* Then its profile is saved, unless the keyring raises.
LEMMA PersistProfileKeepsAccounts ==
  ASSUME Accounts, PersistProfile
  PROVE  Accounts'
  <1> USE DEF Accounts
  <1> DEFINE login == local[Loop].login
  <1>0. /\ pc[Loop] = "persist" /\ Loop \in Threads
        /\ UNCHANGED <<sessions, expired, newest, out, half>>
    BY Basics DEF PersistProfile, At
  <1>1. /\ login \in Requests /\ login \in Logins /\ newest = login /\ ~out
    BY <1>0, Basics DEF Shapes, Shape, LogsIn, InLogin
  <1>2. Moved(Loop) /\ pc'[Loop] = "idle"
    BY <1>0, DoneMoved DEF PersistProfile
  <1>3. \A u \in Threads \ {Loop} : pc'[u] = pc[u] /\ local'[u] = local[u]
    BY <1>2 DEF Moved
  <1>4. /\ trouble \subseteq trouble' /\ trouble' \subseteq Troubles
        /\ trouble' = {} => keyring'[User] = login
    BY DEF PersistProfile, Note, Kinds, Troubles
  <1>5. keyring' \in [Ids -> Logins \union {None, Garbled}]
    BY <1>1, Basics, Saved DEF PersistProfile, Kinds
  <1> HIDE DEF login
  <1>6. Kinds' /\ Shapes' /\ OnlyUser'
    BY <1>0, <1>2, <1>4, <1>5, MovedShapes DEF Kinds, Moved, OnlyUser
  <1>7. Barred' /\ Leaves' /\ Deletes' /\ LogsIn' /\ Outside'
    BY <1>0, <1>1, <1>2 DEF Barred, Leaves, Deletes, LogsIn, Outside, Ending, Again, InLogin
  <1>8. Apart'
    BY <1>0, <1>2, <1>3, <1>4, Troubled DEF Apart, Loading
  <1>9. Suppressed'
    BY <1>0, <1>2, <1>3, <1>4, Basics, Troubled DEF Suppressed, Again
  <1>10. Kept'
    BY <1>0, <1>1, <1>4 DEF Kept, Good
  <1>11. Loads' /\ NewestIn'
    BY <1>0, <1>2, <1>3, <1>4, Troubled DEF Loads, NewestIn
  <1> QED BY <1>6, <1>7, <1>8, <1>9, <1>10, <1>11

----------------------------------------------------------------------------
\* While a thread restores a session undisturbed, nobody clears or stores one.
LEMMA LoadingAlone ==
  ASSUME Accounts, Calm, NEW t \in Threads, Loading(t)
  PROVE  /\ expired = {} /\ ~Ending /\ ~Again /\ pc[Loop] # "suppress" /\ ~InLogin
         /\ (Sure /\ pc[t] # "load") => ~out
  <1> USE DEF Accounts
  <1>1. expired = {} /\ pc[Loop] # "suppress"
    BY DEF Apart
  <1>2. ~Ending /\ ~Again
    BY <1>1 DEF Barred
  <1>3. ~InLogin
    BY DEF LogsIn, Loading, Restoring
  <1>4. (Sure /\ pc[t] # "load") => ~out
    BY DEF Outside, Loading
  <1> QED BY <1>1, <1>2, <1>3, <1>4

\* The profile of the newest login is the only one there is to load.
LEMMA LoadsNewest ==
  ASSUME Accounts, trouble = {}, NEW t \in Threads, pc[t] = "load"
  PROVE  LET profile == FromKeyringValue(keyring[Head(local[t].todo)]) IN
         /\ profile # None => profile = newest
         /\ (newest \in Requests /\ ~out) => profile = newest
  <1> USE DEF Accounts
  <1> DEFINE id == Head(local[t].todo)
             profile == FromKeyringValue(keyring[id])
  <1>1. Calm /\ Sure
    BY DEF Calm, Sure
  <1>2. id \in Ids
    BY DEF Shapes, Shape
  <1>3. CASE out
    <2>1. keyring[id] = None
      BY <1>1, <1>2, <1>3 DEF Outside
    <2> QED BY <1>3, <2>1 DEF FromKeyringValue
  <1>4. CASE ~out
    <2>1. Good
      BY <1>1, <1>4, LoadingAlone DEF Kept, Loading, Ending
    <2>2. newest \in Requests => id = User
      BY <1>4, Basics DEF Loads
    <2> HIDE DEF id
    <2>3. (newest \in Requests => profile = newest) /\ (profile # None => profile = newest)
      BY <1>2, <2>1, <2>2, Basics DEF Good, FromKeyringValue
    <2> QED BY <2>3 DEF id
  <1> QED BY <1>3, <1>4 DEF Kinds

\* A session is there, or a profile is looked for.
LEMMA ExistingSessionKeepsAccounts ==
  ASSUME Accounts, NEW t \in Threads, ExistingSession(t)
  PROVE  Accounts'
  <1> USE DEF Accounts
  <1>0. pc[t] = "existing" /\ UNCHANGED <<sessions, expired, keyring, ghosts>>
    BY DEF ExistingSession, At, store
  <1>1. Formed(local[t]) /\ Seeks(t, local[t])
    BY <1>0 DEF Shapes, Shape
  <1>2. CASE SessionsFound # {} /\ Goto(t, "adopt", [local[t] EXCEPT !.todo = <<sessions[FirstFound]>>,
                                                                !.source = FirstFound])
    <2>1. FirstFound = User /\ sessions[User] \in Logins
      BY <1>2, FoundIsUsers, Basics DEF Kinds
    <2>2. PICK l : l = [local[t] EXCEPT !.todo = <<sessions[FirstFound]>>, !.source = FirstFound]
      OBVIOUS
    <2>3. Formed(l) /\ l.op = local[t].op /\ l.todo = <<sessions[User]>> /\ l.source = User
      BY <1>1, <2>1, <2>2 DEF Formed
    <2>4. Shape(t, "adopt", l)
      BY <1>1, <2>1, <2>3 DEF Shape, Seeks
    <2>5. Moved(t) /\ pc'[t] = "adopt"
      BY <1>2, <2>2, <2>4, GotoMoved DEF Steps
    <2> QED BY <1>0, <2>5, OutsetKeepsAccounts DEF Outset, ghosts, Kinds
  <1>3. CASE SessionsFound = {} /\ Return(t, None)
    <2>1. Moved(t) /\ pc'[t] \in {"idle", "existing", "deliver"}
      BY <1>1, <1>3, ReturnMoved
    <2> QED BY <1>0, <1>3, <2>1, OutsetKeepsAccounts DEF Outset, ghosts, Kinds
  <1>4. CASE SessionsFound = {} /\ Stay(t, "suppressed")
    <2>1. Shape(t, "suppressed", local[t])
      BY <1>1 DEF Shape
    <2>2. Moved(t) /\ pc'[t] = "suppressed"
      BY <1>4, <2>1, GotoMoved DEF Stay, Steps
    <2> QED BY <1>0, <1>4, <2>2, NoneFound, OutsetKeepsAccounts DEF Outset, ghosts, Kinds
  <1> QED BY <1>2, <1>3, <1>4 DEF ExistingSession

\* What was found is the user's already.
LEMMA AdoptSessionKeepsAccounts ==
  ASSUME Accounts, NEW t \in Threads, AdoptSession(t)
  PROVE  Accounts'
  <1> USE DEF Accounts
  <1>1. pc[t] = "adopt" /\ Seeks(t, local[t]) /\ local[t].source = User
    BY DEF AdoptSession, At, Shapes, Shape
  <1>2. UNCHANGED <<sessions, expired, keyring, ghosts>>
    BY <1>1 DEF AdoptSession
  <1>3. Moved(t) /\ pc'[t] \in {"idle", "existing", "deliver"}
    BY <1>1, ReturnMoved DEF AdoptSession
  <1> QED BY <1>1, <1>2, <1>3, OutsetKeepsAccounts DEF Outset, ghosts, Kinds

\* Nobody restores a session while restores are suppressed.
LEMMA RestoreSuppressedKeepsAccounts ==
  ASSUME Accounts, NEW t \in Threads, RestoreSuppressed(t)
  PROVE  Accounts'
  <1> USE DEF Accounts
  <1> DEFINE l == [local[t] EXCEPT !.todo = Candidates]
  <1>0. pc[t] = "suppressed" /\ UNCHANGED <<sessions, expired, keyring, newest, out, half>>
    BY DEF RestoreSuppressed, At, store
  <1>1. Formed(local[t]) /\ Seeks(t, local[t])
    BY <1>0 DEF Shapes, Shape
  <1>2. CASE Return(t, None) /\ UNCHANGED trouble
    <2>1. Moved(t) /\ pc'[t] \in {"idle", "existing", "deliver"}
      BY <1>1, <1>2, ReturnMoved
    <2> QED BY <1>0, <1>2, <2>1, OutsetKeepsAccounts DEF Outset, Kinds
  <1>3. CASE /\ expired \intersect Ids = {} /\ Goto(t, "load", l)
             /\ Note(Crossed, At(Loop, "suppress"))
    <2>1. /\ trouble \subseteq trouble' /\ trouble' \subseteq Troubles
          /\ Calm' => pc[Loop] # "suppress"
      BY <1>3 DEF Note, Calm, At, Kinds, Troubles
    <2>2. Formed(l) /\ l.todo = Candidates /\ Seeks(t, l)
      BY <1>1 DEF Formed, Seeks
    <2> HIDE DEF l
    <2>3. Shape(t, "load", l)
      BY <2>2, Basics DEF Shape
    <2>4. Moved(t) /\ pc'[t] = "load" /\ local'[t].todo = Candidates
      BY <1>3, <2>2, <2>3, GotoMoved DEF Steps
    <2>5. \A u \in Threads \ {t} : pc'[u] = pc[u] /\ local'[u] = local[u]
      BY <2>4 DEF Moved
    <2>6. expired = {}
      BY <1>3 DEF Kinds
    <2>7. Kinds' /\ Shapes' /\ OnlyUser'
      BY <1>0, <2>1, <2>4, MovedShapes DEF Kinds, Moved, OnlyUser
    <2>8. Barred' /\ Leaves' /\ Deletes' /\ Outside'
      BY <1>0, <2>1, <2>4, <2>5, Basics, Troubled
      DEF Barred, Leaves, Deletes, Outside, Ending, Again, InLogin
    <2>9. Apart'
      BY <1>0, <2>1, <2>4, <2>5, <2>6, Basics DEF Apart, Loading
    <2>10. LogsIn'
      BY <1>0, <2>1, <2>4, <2>5, Basics, Troubled DEF LogsIn, InLogin, Restoring
    <2>11. Suppressed'
      BY <1>0, <2>1, <2>4, <2>5, <2>6, Basics, Troubled DEF Suppressed, Again
    <2>12. Kept'
      BY <1>0, <2>1, <2>4, <2>5, Basics, Troubled DEF Kept, Good, InLogin
    <2>13. Loads' /\ NewestIn'
      BY <1>0, <2>1, <2>4, <2>5, Troubled DEF Loads, NewestIn
    <2> QED BY <2>7, <2>8, <2>9, <2>10, <2>11, <2>12, <2>13
  <1> QED BY <1>2, <1>3 DEF RestoreSuppressed

\* What is left of a loop's ids.
LEMMA TailOf ==
  ASSUME NEW S, NEW s \in Seq(S), Len(s) > 1
  PROVE  /\ Tail(s) \in Seq(S) /\ Tail(s) # <<>>
         /\ \A k \in DOMAIN s : k # 1 => k - 1 \in DOMAIN Tail(s) /\ Tail(s)[k - 1] = s[k]
  <1>1. Tail(s) \in Seq(S) /\ Len(Tail(s)) = Len(s) - 1
    OBVIOUS
  <1>2. \A k \in 1 .. Len(s) - 1 : Tail(s)[k] = s[k + 1]
    OBVIOUS
  <1>3. Tail(s) # <<>>
    <2>1. PICK rest \in Seq(S) : rest = Tail(s)
      BY <1>1
    <2>2. Len(rest) \in Nat /\ Len(rest) > 0
      BY <1>1, <2>1
    <2>3. rest # <<>>
      BY <2>2
    <2> QED BY <2>1, <2>3, Zenon
  <1>4. ASSUME NEW k \in DOMAIN s, k # 1
        PROVE  k - 1 \in DOMAIN Tail(s) /\ Tail(s)[k - 1] = s[k]
    <2>1. k - 1 \in 1 .. Len(s) - 1 /\ DOMAIN Tail(s) = 1 .. Len(s) - 1 /\ (k - 1) + 1 = k
      BY <1>1, <1>4
    <2> QED BY <1>2, <2>1
  <1> QED BY <1>1, <1>3, <1>4

\* A thread that has loaded a profile, or goes on to the next id.
LEMMA LoadMoved ==
  ASSUME Accounts, NEW t \in Threads, NEW step \in {"load", "install"}, pc[t] = "load", Moved(t),
         pc'[t] = step, UNCHANGED <<sessions, expired, keyring, newest, out, half>>,
         trouble \subseteq trouble', trouble' \subseteq Troubles,
         step = "load" => (trouble' = {} => ~(newest \in Requests /\ ~out)),
         step = "install" => /\ trouble' = {} => Head(local'[t].todo) = newest
                             /\ Sure => ~out
  PROVE  Accounts'
  <1> USE DEF Accounts
  <1>0. \A u \in Threads \ {t} : pc'[u] = pc[u] /\ local'[u] = local[u]
    BY DEF Moved
  <1>1. Kinds' /\ Shapes' /\ OnlyUser'
    BY MovedShapes DEF Kinds, Moved, OnlyUser
  <1>2. Barred' /\ Leaves' /\ Deletes'
    BY <1>0, Basics, Troubled DEF Barred, Leaves, Deletes, Ending, Again
  <1>3. Apart'
    BY <1>0, Basics, Troubled DEF Apart, Loading
  <1>4. Outside'
    BY <1>0, Basics, Troubled DEF Outside, InLogin
  <1>5. LogsIn'
    BY <1>0, Basics, Troubled DEF LogsIn, InLogin, Restoring
  <1>6. Suppressed'
    BY <1>0, Basics, Troubled DEF Suppressed, Again
  <1>7. Kept'
    BY <1>0, Basics, Troubled DEF Kept, Good, InLogin
  <1>8. Loads' /\ NewestIn'
    BY <1>0, Troubled DEF Loads, NewestIn
  <1> QED BY <1>1, <1>2, <1>3, <1>4, <1>5, <1>6, <1>7, <1>8

LEMMA LoadProfileKeepsAccounts ==
  ASSUME Accounts, NEW t \in Threads, LoadProfile(t)
  PROVE  Accounts'
  <1> USE DEF Accounts
  <1> DEFINE l       == local[t]
             id      == Head(l.todo)
             profile == FromKeyringValue(keyring[id])
             taken   == [l EXCEPT !.todo = <<profile>>, !.source = id]
             rest    == [l EXCEPT !.todo = Tail(@)]
  <1>0. pc[t] = "load" /\ UNCHANGED <<sessions, expired, keyring, newest, out, half>>
    BY DEF LoadProfile, At, store
  <1>1. Formed(l) /\ Seeks(t, l) /\ l.todo \in Seq(Ids) /\ l.todo # <<>> /\ id \in Ids
    BY <1>0 DEF Shapes, Shape
  <1>2. profile \in Logins \union {None}
    BY <1>1, Basics DEF FromKeyringValue, Kinds
  <1>3. \/ profile # None /\ Goto(t, "install", taken) /\ UNCHANGED trouble
        \/ /\ Note(Misread, profile # None)
           /\ \/ Len(l.todo) > 1 /\ Goto(t, "load", rest)
              \/ Return(t, None)
    BY DEF LoadProfile
  <1>4. CASE profile # None /\ Goto(t, "install", taken) /\ UNCHANGED trouble
    <2>1. Formed(taken) /\ Seeks(t, taken) /\ taken.todo = <<profile>>
      BY <1>1 DEF Formed, Seeks
    <2>2. trouble = {} => profile = newest
      BY <1>0, <1>4, LoadsNewest
    <2>3. Sure => ~out
      BY <1>1, <1>4 DEF Outside, FromKeyringValue
    <2>4. profile \in Logins
      BY <1>2, <1>4
    <2> HIDE DEF taken, profile
    <2>5. Shape(t, "install", taken)
      BY <2>1, <2>4 DEF Shape
    <2>6. Moved(t) /\ pc'[t] = "install" /\ local'[t].todo = <<profile>>
      BY <1>4, <2>1, <2>5, GotoMoved DEF Steps
    <2> QED BY <1>0, <1>4, <2>2, <2>3, <2>6, LoadMoved DEF Kinds
  <1>5. ASSUME Note(Misread, profile # None)
        PROVE  /\ trouble \subseteq trouble' /\ trouble' \subseteq Troubles
               /\ trouble' = {} => ~(newest \in Requests /\ ~out)
    <2>1. trouble \subseteq trouble' /\ trouble' \subseteq Troubles
      BY <1>5 DEF Note, Kinds, Troubles
    <2>2. trouble' = {} => profile = None
      BY <1>5 DEF Note
    <2> QED BY <1>0, <2>1, <2>2, LoadsNewest, Basics
  <1>6. CASE Note(Misread, profile # None) /\ Len(l.todo) > 1 /\ Goto(t, "load", rest)
    <2>1. Formed(rest) /\ Seeks(t, rest) /\ rest.todo = Tail(l.todo)
      BY <1>1 DEF Formed, Seeks
    <2>2. Tail(l.todo) \in Seq(Ids) /\ Tail(l.todo) # <<>>
      BY <1>1, <1>6, TailOf
    <2> HIDE DEF rest, profile
    <2>3. Shape(t, "load", rest)
      BY <2>1, <2>2 DEF Shape
    <2>4. Moved(t) /\ pc'[t] = "load"
      BY <1>6, <2>3, GotoMoved DEF Steps
    <2> QED BY <1>0, <1>5, <1>6, <2>4, LoadMoved
  <1>7. CASE Note(Misread, profile # None) /\ Return(t, None)
    <2>1. Moved(t) /\ pc'[t] \in {"idle", "existing", "deliver"}
      BY <1>1, <1>7, ReturnMoved
    <2> QED BY <1>0, <1>5, <1>7, <2>1, OutsetKeepsAccounts DEF Outset
  <1> QED BY <1>3, <1>4, <1>6, <1>7

\* The session that is restored is in nobody's way.
LEMMA InstallSessionKeepsAccounts ==
  ASSUME Accounts, NEW t \in Threads, InstallSession(t)
  PROVE  Accounts'
  <1> USE DEF Accounts
  <1> DEFINE l == local[t]
             found == Head(l.todo)
  <1>0. pc[t] = "install" /\ UNCHANGED <<expired, keyring, newest, out, half, trouble>>
    BY DEF InstallSession, At, ghosts
  <1>1. Formed(l) /\ Seeks(t, l) /\ l.todo \in Seq(Logins) /\ l.todo # <<>> /\ found \in Logins
    BY <1>0 DEF Shapes, Shape
  <1>2. CASE Return(t, None) /\ UNCHANGED sessions
    <2>1. Moved(t) /\ pc'[t] \in {"idle", "existing", "deliver"}
      BY <1>1, <1>2, ReturnMoved
    <2> QED BY <1>0, <1>2, <2>1, OutsetKeepsAccounts DEF Outset, Kinds
  <1>3. CASE /\ sessions' = [sessions EXCEPT ![User] = found]
             /\ Return(t, found) \/ Stay(t, "migrate")
    <2>1. /\ Moved(t)
          /\ \/ pc'[t] \in {"idle", "existing", "deliver"}
             \/ pc'[t] = "migrate" /\ local'[t] = l
      <3>1. CASE Return(t, found)
        BY <1>1, <3>1, ReturnMoved
      <3>2. CASE Stay(t, "migrate")
        <4>1. Shape(t, "migrate", l)
          BY <1>1 DEF Shape
        <4> QED BY <3>2, <4>1, GotoMoved DEF Stay, Steps
      <3> QED BY <1>3, <3>1, <3>2
    <2>2. \A u \in Threads \ {t} : pc'[u] = pc[u] /\ local'[u] = local[u]
      BY <2>1 DEF Moved
    <2>3. sessions' \in [Ids -> Logins \union {None}] /\ sessions'[User] = found
          /\ \A i \in Ids \ {User} : sessions'[i] = sessions[i]
      BY <1>1, <1>3, Basics DEF Kinds
    <2>4. trouble = {} => found = newest
      BY <1>0 DEF Loads
    <2>5. /\ Calm => /\ expired = {} /\ ~Ending /\ ~Again /\ ~InLogin /\ pc[Loop] # "suppress"
          /\ Sure => ~out
      BY <1>0, LoadingAlone, Troubled DEF Loading
    <2> HIDE DEF found, l
    <2>6. Kinds' /\ Shapes' /\ OnlyUser'
      BY <1>0, <2>1, <2>3, MovedShapes DEF Kinds, Moved, OnlyUser
    <2>7. Barred' /\ Leaves' /\ Deletes'
      BY <1>0, <2>1, <2>2, <2>5, Basics DEF Barred, Leaves, Deletes, Ending, Again, Calm, Sure
    <2>8. Apart' /\ Outside'
      BY <1>0, <2>1, <2>2, <2>5, Basics DEF Apart, Outside, Loading, Calm, Sure
    <2>9. LogsIn'
      BY <1>0, <2>1, <2>2, <2>5, Basics DEF LogsIn, InLogin, Calm
    <2>10. Suppressed'
      BY <1>0, <2>1, <2>2, <2>5, Basics DEF Suppressed, Again, Calm
    <2>11. Kept'
      BY <1>0, <2>1, <2>2, Basics DEF Kept, Good, InLogin
    <2>12. Loads' /\ NewestIn'
      BY <1>0, <2>1, <2>2, <2>3, <2>4 DEF Loads, NewestIn, l
    <2> QED BY <2>6, <2>7, <2>8, <2>9, <2>10, <2>11, <2>12
  <1> QED BY <1>2, <1>3 DEF InstallSession

\* What a legacy id kept goes where the user's own profile belongs.
LEMMA MigrateProfileKeepsAccounts ==
  ASSUME Accounts, NEW t \in Threads, MigrateProfile(t)
  PROVE  Accounts'
  <1> USE DEF Accounts
  <1> DEFINE l == local[t]
             found == Head(l.todo)
  <1>0. pc[t] = "migrate" /\ UNCHANGED <<sessions, expired, newest, out, half, trouble>>
    BY DEF MigrateProfile, At, ghosts
  <1>1. Formed(l) /\ Seeks(t, l) /\ l.todo \in Seq(Logins) /\ l.todo # <<>> /\ found \in Logins
    BY <1>0 DEF Shapes, Shape
  <1>2. Moved(t) /\ pc'[t] \in {"idle", "existing", "deliver"}
    BY <1>1, ReturnMoved DEF MigrateProfile
  <1>3. /\ keyring' \in [Ids -> Logins \union {None, Garbled}]
        /\ \A i \in Ids \ {User} : keyring'[i] = keyring[i]
        /\ keyring'[User] \in {found, keyring[User]}
    BY <1>1, Basics, Saved DEF MigrateProfile
  <1>4. trouble = {} => found = newest
    BY <1>0 DEF Loads
  <1>5. \A u \in Threads \ {t} : pc'[u] = pc[u] /\ local'[u] = local[u]
    BY <1>2 DEF Moved
  <1>6. (Calm => ~Ending) /\ (Sure => ~out)
    BY <1>0, LoadingAlone, Troubled DEF Loading
  <1> HIDE DEF found, l
  <1>7. Kinds' /\ Shapes' /\ OnlyUser'
    BY <1>0, <1>2, <1>3, MovedShapes DEF Kinds, Moved, OnlyUser
  <1>8. Barred' /\ Leaves' /\ Deletes'
    BY <1>0, <1>2, <1>5, <1>6, Basics DEF Barred, Leaves, Deletes, Ending, Again, Calm, Sure
  <1>9. Apart' /\ Outside'
    BY <1>0, <1>2, <1>5, <1>6, Basics DEF Apart, Outside, Loading, Calm, Sure
  <1>10. LogsIn'
    BY <1>0, <1>2, <1>5, Basics DEF LogsIn, InLogin, Calm, Restoring
  <1>11. Suppressed'
    BY <1>0, <1>2, <1>5, Basics DEF Suppressed, Again, Calm
  <1>12. Kept'
    <2>1. ASSUME trouble' = {}, ~InLogin', pc'[Loop] \notin {"delete", "settle"}, ~out'
          PROVE  Good'
      <3>1. Good
        BY <1>0, <1>2, <1>5, <2>1, Basics DEF Kept, InLogin
      <3>2. found = newest
        BY <1>0, <1>4, <2>1
      <3> QED BY <1>0, <1>1, <1>3, <3>1, <3>2, Basics DEF Good
    <2> QED BY <2>1 DEF Kept
  <1>13. Loads' /\ NewestIn'
    BY <1>0, <1>2, <1>5 DEF Loads, NewestIn
  <1> QED BY <1>7, <1>8, <1>9, <1>10, <1>11, <1>12, <1>13

----------------------------------------------------------------------------
\* A session is popped: the user's own at the first id, none at the others.
LEMMA PopSessionKeepsAccounts ==
  ASSUME Accounts, PopSession
  PROVE  Accounts'
  <1> USE DEF Accounts
  <1> DEFINE l == local[Loop]
  <1>0. pc[Loop] = "pop" /\ Loop \in Threads /\ UNCHANGED <<expired, keyring, newest, out, half>>
    BY Basics DEF PopSession, At
  <1>1. Formed(l) /\ l.op = "logout" /\ l.todo \in Seq(Ids) /\ l.todo # <<>> /\ Head(l.todo) \in Ids
    BY <1>0 DEF Shapes, Shape
  <1>2. /\ trouble \subseteq trouble' /\ trouble' \subseteq Troubles
        /\ Calm' => \A u \in Threads \ {Loop} : ~Restoring(u)
    BY OverlapNoted DEF PopSession
  <1>3. Moved(Loop) /\ pc'[Loop] = "suppress" /\ local'[Loop] = l
    <2>1. Shape(Loop, "suppress", l)
      BY <1>1 DEF Shape
    <2> QED BY <1>0, <2>1, GotoMoved DEF PopSession, Stay, Steps
  <1>4. \A u \in Threads \ {Loop} : pc'[u] = pc[u] /\ local'[u] = local[u]
    BY <1>3 DEF Moved
  <1>5. /\ sessions' \in [Ids -> Logins \union {None}]
        /\ \A i \in Ids : sessions'[i] \in {None, sessions[i]}
        /\ l.todo = Candidates => sessions'[User] = None
    BY <1>1, Basics DEF PopSession, Kinds
  <1>6. Calm' => sessions'[User] = None
    BY <1>0, <1>2, <1>5, Basics, Troubled DEF Leaves, Again
  <1> HIDE DEF l
  <1>7. Kinds' /\ Shapes' /\ OnlyUser'
    BY <1>0, <1>2, <1>3, <1>5, MovedShapes DEF Kinds, Moved, OnlyUser
  <1>8. Barred' /\ Deletes' /\ Leaves' /\ LogsIn'
    BY <1>3, <1>6 DEF Barred, Deletes, Leaves, LogsIn, Ending, Again, InLogin
  <1>9. Apart'
    BY <1>2, <1>3, <1>4 DEF Apart, Loading, Restoring
  <1>10. Outside'
    BY <1>0, <1>2, <1>3, <1>4, <1>6, Troubled DEF Outside, InLogin, Sure
  <1>11. Suppressed'
    BY <1>0, <1>6 DEF Suppressed
  <1>12. Kept'
    BY <1>0, <1>2, Troubled DEF Kept, Good, InLogin
  <1>13. Loads' /\ NewestIn'
    BY <1>0, <1>2, <1>3, <1>4, <1>5, Basics, Troubled DEF Loads, NewestIn
  <1> QED BY <1>7, <1>8, <1>9, <1>10, <1>11, <1>12, <1>13

\* ... and restores under that id are suppressed.
LEMMA SuppressRestoreKeepsAccounts ==
  ASSUME Accounts, SuppressRestore
  PROVE  Accounts'
  <1> USE DEF Accounts
  <1> DEFINE l    == local[Loop]
             rest == [l EXCEPT !.todo = Tail(@)]
  <1>0. /\ pc[Loop] = "suppress" /\ Loop \in Threads
        /\ UNCHANGED <<sessions, keyring, newest, out, half, trouble>>
    BY Basics DEF SuppressRestore, At, ghosts
  <1>1. Formed(l) /\ l.op = "logout" /\ l.todo \in Seq(Ids) /\ l.todo # <<>> /\ Head(l.todo) \in Ids
    BY <1>0 DEF Shapes, Shape
  <1>2. expired' \subseteq Ids /\ expired' # {}
    BY <1>1 DEF SuppressRestore, Kinds
  <1>3. \/ Len(l.todo) > 1 /\ Goto(Loop, "pop", rest)
        \/ Stay(Loop, "cancel")
    BY DEF SuppressRestore, Advance
  <1>4. Moved(Loop) /\ pc'[Loop] \in {"pop", "cancel"}
    <2>1. CASE Len(l.todo) > 1 /\ Goto(Loop, "pop", rest)
      <3>1. Formed(rest) /\ rest.op = "logout" /\ rest.todo = Tail(l.todo)
        BY <1>1 DEF Formed
      <3>2. Tail(l.todo) \in Seq(Ids) /\ Tail(l.todo) # <<>>
        BY <1>1, <2>1, TailOf
      <3> HIDE DEF rest, l
      <3>3. Shape(Loop, "pop", rest)
        BY <3>1, <3>2 DEF Shape
      <3> QED BY <1>0, <2>1, <3>3, GotoMoved DEF Steps
    <2>2. CASE Stay(Loop, "cancel")
      <3>1. Shape(Loop, "cancel", l)
        BY <1>1 DEF Shape
      <3> QED BY <1>0, <2>2, <3>1, GotoMoved DEF Stay, Steps
    <2> QED BY <1>3, <2>1, <2>2
  <1>5. \A u \in Threads \ {Loop} : pc'[u] = pc[u] /\ local'[u] = local[u]
    BY <1>4 DEF Moved
  <1>6. Calm => \A u \in Threads : ~Loading(u)
    BY <1>0 DEF Apart
  <1>7. Calm => sessions[User] = None
    BY <1>0 DEF Leaves
  <1> HIDE DEF l, rest
  <1>8. Kinds' /\ Shapes' /\ OnlyUser'
    BY <1>0, <1>2, <1>4, MovedShapes DEF Kinds, Moved, OnlyUser
  <1>9. Barred'
    BY <1>2 DEF Barred
  <1>10. Leaves' /\ Deletes'
    BY <1>0, <1>4, <1>7 DEF Leaves, Deletes, Calm
  <1>11. Apart' /\ Outside'
    BY <1>0, <1>4, <1>5, <1>6 DEF Apart, Outside, Loading, InLogin, Calm, Sure
  <1>12. LogsIn'
    BY <1>4 DEF LogsIn, InLogin
  <1>13. Suppressed'
    BY <1>0, <1>2, <1>7 DEF Suppressed, Calm
  <1>14. Kept'
    BY <1>0, <1>4 DEF Kept, Good, InLogin
  <1>15. Loads' /\ NewestIn'
    BY <1>0, <1>4, <1>5 DEF Loads, NewestIn
  <1> QED BY <1>8, <1>9, <1>10, <1>11, <1>12, <1>13, <1>14, <1>15

----------------------------------------------------------------------------
\* The rest of a sign-out is the event loop's.
LEMMA CancelPendingKeepsAccounts ==
  ASSUME Accounts, CancelPending
  PROVE  Accounts'
  <1> USE DEF Accounts
  <1> DEFINE l == [local[Loop] EXCEPT !.todo = Candidates]
  <1>0. /\ pc[Loop] = "cancel" /\ Loop \in Threads
        /\ UNCHANGED <<sessions, expired, keyring, newest, out, half, trouble>>
    BY Basics DEF CancelPending, At, store, ghosts
  <1>1. Formed(local[Loop]) /\ local[Loop].op = "logout"
    BY <1>0 DEF Shapes, Shape
  <1>2. Formed(l) /\ l.op = "logout" /\ l.todo = Candidates
    BY <1>1 DEF Formed
  <1>3. Goto(Loop, "delete", l)
    BY DEF CancelPending
  <1> HIDE DEF l
  <1>4. Shape(Loop, "delete", l)
    BY <1>2, Basics DEF Shape
  <1>5. Moved(Loop) /\ pc'[Loop] = "delete" /\ local'[Loop].todo = Candidates
    BY <1>0, <1>2, <1>3, <1>4, GotoMoved DEF Steps
  <1>6. \A u \in Threads \ {Loop} : pc'[u] = pc[u] /\ local'[u] = local[u]
    BY <1>5 DEF Moved
  <1>7. Kinds' /\ Shapes' /\ OnlyUser'
    BY <1>0, <1>5, MovedShapes DEF Kinds, Moved, OnlyUser
  <1>8. Barred' /\ Leaves' /\ Deletes'
    BY <1>0, <1>5, Basics DEF Barred, Leaves, Deletes, Ending, Again, Calm, Sure
  <1>9. Apart' /\ Outside' /\ LogsIn'
    BY <1>0, <1>5, <1>6 DEF Apart, Outside, LogsIn, Loading, InLogin, Calm, Sure
  <1>10. Suppressed' /\ Kept'
    BY <1>0, <1>5, <1>6, Basics DEF Suppressed, Kept, Again, Calm
  <1>11. Loads' /\ NewestIn'
    BY <1>0, <1>5, <1>6 DEF Loads, NewestIn
  <1> QED BY <1>7, <1>8, <1>9, <1>10, <1>11

LEMMA DeleteProfileKeepsAccounts ==
  ASSUME Accounts, DeleteProfile
  PROVE  Accounts'
  <1> USE DEF Accounts
  <1> DEFINE l     == local[Loop]
             id    == Head(l.todo)
             fails == [l EXCEPT !.failed = TRUE]
             Then(m) == \/ Len(l.todo) > 1 /\ Goto(Loop, "delete", [m EXCEPT !.todo = Tail(@)])
                        \/ ~(Len(l.todo) > 1) /\ Goto(Loop, "settle", m)
  <1>0. /\ pc[Loop] = "delete" /\ Loop \in Threads
        /\ UNCHANGED <<sessions, expired, newest, out, half>>
    BY Basics DEF DeleteProfile, At
  <1>1. /\ Formed(l) /\ l.op = "logout" /\ l.todo \in Seq(Ids) /\ l.todo # <<>> /\ id \in Ids
    BY <1>0 DEF Shapes, Shape
  <1>2. Formed(fails) /\ fails.op = "logout" /\ fails.todo = l.todo /\ fails.failed
    BY <1>1 DEF Formed
  <1>3. PICK m : /\ \/ keyring' = [keyring EXCEPT ![id] = None] /\ trouble' = trouble /\ m = l
                    \/ keyring' = keyring /\ trouble' = trouble /\ m = fails
                    \/ keyring' = keyring /\ Note(Mistaken, keyring[id] # None) /\ m = l
                 /\ Then(m)
    BY Zenon DEF DeleteProfile, Advance
  <1>3a. trouble \subseteq trouble' /\ trouble' \subseteq Troubles
    BY <1>3 DEF Note, Kinds, Troubles
  <1>3b. keyring[id] = None => [keyring EXCEPT ![id] = None] = keyring
    BY <1>1 DEF Kinds
  <1>3c. (Sure' /\ Note(Mistaken, keyring[id] # None)) => keyring[id] = None
    BY DEF Note, Sure
  <1>4. /\ Formed(m) /\ m.op = "logout" /\ m.todo = l.todo
        /\ (Sure' /\ ~m.failed) => ~l.failed /\ keyring' = [keyring EXCEPT ![id] = None]
    BY <1>1, <1>2, <1>3, <1>3b, <1>3c
  <1>5. /\ keyring' \in [Ids -> Logins \union {None, Garbled}]
        /\ \A i \in Ids : keyring'[i] \in {None, keyring[i]}
        /\ (Sure' /\ ~m.failed) => keyring'[id] = None
    BY <1>1, <1>3, <1>4 DEF Kinds
  <1> HIDE DEF l, id, fails
  <1>6. /\ Moved(Loop)
        /\ \/ /\ pc'[Loop] = "delete" /\ Len(l.todo) > 1
              /\ local'[Loop].todo = Tail(l.todo) /\ local'[Loop].failed = m.failed
           \/ /\ pc'[Loop] = "settle" /\ ~(Len(l.todo) > 1)
              /\ local'[Loop].failed = m.failed
    <2>1. CASE Len(l.todo) > 1 /\ Goto(Loop, "delete", [m EXCEPT !.todo = Tail(@)])
      <3>1. PICK rest : rest = [m EXCEPT !.todo = Tail(@)]
        OBVIOUS
      <3>2. Formed(rest) /\ rest.op = "logout" /\ rest.todo = Tail(l.todo) /\ rest.failed = m.failed
        BY <1>4, <3>1 DEF Formed
      <3>3. Tail(l.todo) \in Seq(Ids) /\ Tail(l.todo) # <<>>
        BY <1>1, <2>1, TailOf
      <3>4. Shape(Loop, "delete", rest)
        BY <3>2, <3>3 DEF Shape
      <3>5. Goto(Loop, "delete", rest)
        BY <2>1, <3>1
      <3> QED BY <1>0, <2>1, <3>2, <3>4, <3>5, GotoMoved DEF Steps
    <2>2. CASE ~(Len(l.todo) > 1) /\ Goto(Loop, "settle", m)
      <3>1. Shape(Loop, "settle", m)
        BY <1>4 DEF Shape
      <3> QED BY <1>0, <2>2, <3>1, GotoMoved DEF Steps
    <2> QED BY <1>3, <2>1, <2>2
  <1>7. \A u \in Threads \ {Loop} : pc'[u] = pc[u] /\ local'[u] = local[u]
    BY <1>6 DEF Moved
  <1>8. Kinds' /\ Shapes' /\ OnlyUser'
    BY <1>0, <1>3a, <1>5, <1>6, MovedShapes DEF Kinds, Moved, OnlyUser
  <1>9. Barred' /\ Leaves'
    BY <1>0, <1>3a, <1>6, Basics, Troubled DEF Barred, Leaves, Ending, Again
  <1>10. Deletes'
    <2>1. ASSUME Sure', ~local'[Loop].failed, NEW i \in Ids, keyring'[i] # None
          PROVE  pc'[Loop] = "delete" /\ \E k \in DOMAIN local'[Loop].todo : local'[Loop].todo[k] = i
      <3>1. ~m.failed /\ ~l.failed /\ i # id /\ keyring[i] # None
        BY <1>4, <1>5, <1>6, <2>1
      <3>2. PICK k \in DOMAIN l.todo : l.todo[k] = i
        BY <1>0, <1>3a, <2>1, <3>1, Troubled DEF Deletes, l
      <3>3. k # 1 /\ Len(l.todo) > 1
        BY <1>1, <3>1, <3>2 DEF id
      <3>4. k - 1 \in DOMAIN Tail(l.todo) /\ Tail(l.todo)[k - 1] = i
        BY <1>1, <3>2, <3>3, TailOf
      <3> QED BY <1>6, <3>3, <3>4
    <2> QED BY <2>1 DEF Deletes
  <1>11. Apart' /\ Outside' /\ LogsIn'
    BY <1>0, <1>3a, <1>5, <1>6, <1>7, Troubled DEF Apart, Outside, LogsIn, Loading, InLogin
  <1>12. Suppressed' /\ Kept'
    BY <1>0, <1>3a, <1>6, <1>7, Basics, Troubled DEF Suppressed, Kept, Again, Calm
  <1>13. Loads' /\ NewestIn'
    BY <1>0, <1>3a, <1>6, <1>7, Troubled DEF Loads, NewestIn
  <1> QED BY <1>8, <1>9, <1>10, <1>11, <1>12, <1>13

\* The sign-out has come to its end: nothing is left, or a profile is.
LEMMA SettleLogoutKeepsAccounts ==
  ASSUME Accounts, SettleLogout
  PROVE  Accounts'
  <1> USE DEF Accounts
  <1> DEFINE failed == local[Loop].failed
  <1>0. pc[Loop] = "settle" /\ Loop \in Threads /\ UNCHANGED <<sessions, keyring, newest>>
    BY Basics DEF SettleLogout, At
  <1>1. failed \in BOOLEAN
    BY <1>0 DEF Shapes, Shape, Formed
  <1>2. /\ failed => expired' = expired
        /\ out' = (out \/ ~failed) /\ half' = failed
    BY <1>1 DEF SettleLogout, Kinds
  <1>2a. expired' \subseteq Ids /\ out' \in BOOLEAN /\ half' \in BOOLEAN
    BY <1>1 DEF SettleLogout, Kinds
  <1>3. /\ trouble \subseteq trouble' /\ trouble' \subseteq Troubles
        /\ trouble' = {} => ~failed
    BY <1>1 DEF SettleLogout, Note, Kinds, Troubles
  <1>4. Moved(Loop) /\ pc'[Loop] = "idle"
    BY <1>0, DoneMoved DEF SettleLogout
  <1>5. \A u \in Threads \ {Loop} : pc'[u] = pc[u] /\ local'[u] = local[u]
    BY <1>4 DEF Moved
  <1>6. Calm => sessions[User] = None /\ \A u \in Threads : ~Loading(u)
    BY <1>0, LoadingAlone DEF Leaves, Ending
  <1>7. (Sure /\ ~failed) => \A i \in Ids : keyring[i] = None
    BY <1>0 DEF Deletes
  <1> HIDE DEF failed
  <1>8. Kinds' /\ Shapes' /\ OnlyUser'
    BY <1>0, <1>2a, <1>3, <1>4, MovedShapes DEF Kinds, Moved, OnlyUser
  <1>9. Barred' /\ Leaves' /\ Deletes' /\ LogsIn'
    BY <1>4 DEF Barred, Leaves, Deletes, LogsIn, Ending, Again, InLogin
  <1>10. Apart'
    BY <1>3, <1>4, <1>5, <1>6, Troubled DEF Apart, Loading
  <1>11. Outside'
    BY <1>0, <1>2, <1>3, <1>4, <1>5, <1>6, <1>7, Troubled DEF Outside, InLogin, Loading
  <1>12. Suppressed'
    BY <1>0, <1>1, <1>2, <1>3, <1>4, <1>6, Troubled DEF Suppressed, Barred, Ending
  <1>13. Kept'
    BY <1>2, <1>3 DEF Kept
  <1>14. Loads' /\ NewestIn'
    BY <1>0, <1>3, <1>4, <1>5, <1>6, Troubled DEF Loads, NewestIn, Loading
  <1> QED BY <1>8, <1>9, <1>10, <1>11, <1>12, <1>13, <1>14

\* A restart ends every thread and every session.
LEMMA RestartKeepsAccounts ==
  ASSUME Accounts, Restart
  PROVE  Accounts'
  <1> USE DEF Accounts
  <1>0. /\ UNCHANGED <<keyring, newest, out>> /\ expired' = {} /\ half' = FALSE
        /\ sessions' = [i \in Ids |-> None]
        /\ pc' = [t \in Threads |-> "idle"] /\ local' = [t \in Threads |-> NoLocals]
    BY DEF Restart
  <1>1. /\ trouble \subseteq trouble' /\ trouble' \subseteq Troubles
        /\ trouble' = {} => ~(local[Loop].op = "login" /\ ~At(Loop, "login"))
                            /\ local[Loop].op # "logout"
    BY DEF Restart, Kinds, Troubles
  <1>2. \A t \in Threads : Shape(t, "idle", NoLocals)
    BY DEF Shape, Formed, NoLocals
  <1>3. Kinds' /\ Shapes' /\ OnlyUser'
    BY <1>0, <1>1, <1>2 DEF Kinds, Shapes, OnlyUser, Steps
  <1>4. Barred' /\ Leaves' /\ Apart' /\ Deletes' /\ LogsIn' /\ Suppressed'
    BY <1>0, Basics DEF Barred, Leaves, Apart, Deletes, LogsIn, Suppressed,
                        Ending, Again, Loading, InLogin
  <1>5. Outside'
    BY <1>0, <1>1, Basics, Troubled DEF Outside, InLogin
  <1>6. Kept'
    <2>1. ASSUME trouble' = {} PROVE ~InLogin /\ pc[Loop] \notin {"delete", "settle"}
      BY <1>1, <2>1, Basics DEF Shapes, Shape, InLogin, At
    <2> QED BY <1>0, <1>1, <2>1 DEF Kept, Good
  <1>7. Loads' /\ NewestIn'
    BY <1>0, Basics DEF Loads, NewestIn
  <1> QED BY <1>3, <1>4, <1>5, <1>6, <1>7

----------------------------------------------------------------------------
LEMMA InitAccounts ==
  ASSUME Init
  PROVE  Accounts
  <1> USE DEF Init
  <1>1. \A t \in Threads : Shape(t, "idle", NoLocals)
    BY DEF Shape, Formed, NoLocals
  <1>2. Kinds /\ Shapes /\ OnlyUser
    <2>1. newest \in Logins \union {None} /\ keyring \in [Ids -> Logins \union {None, Garbled}]
      BY Basics
    <2> QED BY <1>1, <2>1, Basics DEF Kinds, Shapes, OnlyUser, Steps
  <1>3. Barred /\ Leaves /\ Apart /\ Deletes /\ Outside /\ LogsIn /\ Suppressed
    BY Basics DEF Barred, Leaves, Apart, Deletes, Outside, LogsIn, Suppressed,
                  Ending, Again, Loading, InLogin
  <1>4. Kept
    BY Basics DEF Kept, Good
  <1>5. Loads /\ NewestIn
    BY Basics DEF Loads, NewestIn
  <1> QED BY <1>2, <1>3, <1>4, <1>5 DEF Accounts

LEMMA StepKeepsAccounts ==
  ASSUME Accounts, [Next]_vars
  PROVE  Accounts'
  <1>1. ASSUME NEW t \in Threads, Finding(t) PROVE Accounts'
    BY <1>1, ExistingSessionKeepsAccounts, AdoptSessionKeepsAccounts, RestoreSuppressedKeepsAccounts,
       LoadProfileKeepsAccounts, InstallSessionKeepsAccounts, MigrateProfileKeepsAccounts
    DEF Finding
  <1>2. ASSUME NEW r \in Requests, StartAuth(r) \/ FailPendingAuth(r) PROVE Accounts'
    BY <1>2, AtRestKeepsAccounts DEF StartAuth, FailPendingAuth
  <1>3. CASE HandlerStep
    BY <1>1, <1>2, <1>3, Basics, BeginKeepsAccounts, StoreSessionKeepsAccounts,
       UnsuppressKeepsAccounts, PersistProfileKeepsAccounts, ClearingBegins,
       PopSessionKeepsAccounts, SuppressRestoreKeepsAccounts, CancelPendingKeepsAccounts,
       DeleteProfileKeepsAccounts, SettleLogoutKeepsAccounts
    DEF HandlerStep
  <1>4. ASSUME NEW w \in Workers, WorkerStep(w) PROVE Accounts'
    BY <1>1, <1>4, Basics, BeginKeepsAccounts, ClearingBegins DEF WorkerStep
  <1>5. CASE Tick \/ UNCHANGED vars
    BY <1>5, AtRestKeepsAccounts DEF Tick, vars
  <1> QED BY <1>3, <1>4, <1>5, RestartKeepsAccounts DEF Next

LEMMA AccountsInvariant == Spec => []Accounts
  <1>1. Init => Accounts
    BY InitAccounts
  <1>2. Accounts /\ [Next]_vars => Accounts'
    BY StepKeepsAccounts
  <1> QED BY <1>1, <1>2, PTL DEF Spec

\* No request was made in the future.
Made == \A r \in Requests : created[r] # None => created[r] <= clock

LEMMA StepKeepsMade ==
  ASSUME Fresh, Made, [Next]_vars
  PROVE  Made'
  <1> USE DEF Fresh
  <1>1. CASE UNCHANGED <<created, clock>>
    BY <1>1 DEF Made
  <1>2. CASE Tick
    BY <1>2, AuthAssumption DEF Tick, requests, Made, Typed
  <1>3. ASSUME NEW r \in Requests, StartAuth(r) PROVE Made'
    <2>1. clock' = clock /\ created' \in {created, [created EXCEPT ![r] = clock]}
      BY <1>3 DEF StartAuth, world
    <2> QED BY <2>1 DEF Made, Typed
  <1>4. ASSUME NEW r \in Requests, CompleteAuth(r) \/ FailPendingAuth(r)
        PROVE  UNCHANGED <<created, clock>>
    BY <1>4 DEF CompleteAuth, FailPendingAuth, world
  <1>5. ASSUME NEW t \in Threads, Finding(t) PROVE UNCHANGED <<created, clock>>
    BY <1>5 DEF Finding, ExistingSession, AdoptSession, RestoreSuppressed, LoadProfile,
                InstallSession, MigrateProfile, requests, world
  <1>6. CASE HandlerStep
    <2>1. CASE \/ StoreSession \/ Unsuppress \/ PersistProfile \/ Status \/ IsAuthenticated
               \/ Logout \/ PopSession \/ SuppressRestore \/ CancelPending \/ DeleteProfile \/ SettleLogout
      <3>1. UNCHANGED <<created, clock>>
        BY <2>1 DEF StoreSession, Unsuppress, PersistProfile, Status, IsAuthenticated, Logout,
                    PopSession, SuppressRestore, CancelPending, DeleteProfile, SettleLogout, requests, world
      <3> QED BY <1>1, <3>1
    <2> QED BY <1>1, <1>3, <1>4, <1>5, <1>6, <2>1, Basics DEF HandlerStep
  <1>7. ASSUME NEW w \in Workers, WorkerStep(w) PROVE UNCHANGED <<created, clock>>
    BY <1>5, <1>7, Basics DEF WorkerStep, BeginJob, Deliver, requests, world
  <1>8. CASE Restart \/ UNCHANGED vars
    BY <1>1, <1>8 DEF Restart, vars, requests, world
  <1> QED BY <1>1, <1>2, <1>6, <1>7, <1>8 DEF Next

\* Every variable has its type, and every thread the locals of its step
\* (PendingAuth, AuthSession and StoredProfile of auth.py).
THEOREM AuthTypeCorrect == Spec => []TypeOK
  <1>1. Init => Fresh /\ Made
    BY AuthAssumption DEF Init, Fresh, Typed, Unanswered, Steps, Made
  <1>2. Fresh /\ Made /\ [Next]_vars => (Fresh /\ Made)'
    BY StepKeepsFresh, StepKeepsMade
  <1>3. Fresh /\ Made /\ Accounts => TypeOK
    <2> SUFFICES ASSUME Fresh, Made, Accounts PROVE TypeOK
      OBVIOUS
    <2>1. created \in [Requests -> {None} \union (0 .. clock)]
      <3>1. \A r \in Requests : created[r] \in {None} \union (0 .. clock)
        BY DEF Fresh, Typed, Made
      <3> QED BY <3>1 DEF Fresh, Typed
    <2>2. pending \subseteq {r \in Requests : created[r] # None}
      BY DEF Fresh, Typed, Unanswered
    <2>3. /\ sessions \in [Ids -> Logins \union {None}]
          /\ keyring \in [Ids -> Logins \union {None, Garbled}]
          /\ expired \subseteq Ids /\ trouble \subseteq Troubles
      BY DEF Accounts, Kinds
    <2>4. ASSUME NEW t \in Threads
          PROVE  /\ pc[t] \in Steps
                 /\ At(t, "idle") => local[t] = NoLocals
                 /\ pc[t] \in {"adopt", "load", "install", "migrate", "pop", "suppress", "delete"}
                      => local[t].todo # <<>>
      BY Basics DEF Accounts, Kinds, Shapes, Shape, At
    <2> QED BY <2>1, <2>2, <2>3, <2>4 DEF TypeOK
  <1> QED BY <1>1, <1>2, <1>3, AccountsInvariant, PTL DEF Spec

\* After a sign-out that succeeded nothing is left of the user, in memory or in
\* the keyring, whatever the workers did meanwhile (logout, clear_session,
\* auth.py:505-522), but for the overlaps the code admits (Crossed) and an error of
\* the keyring that reads as if an entry was missing (Mistaken).
THEOREM SignOutIsComplete == Spec => []SignedOutIsOut
  <1>1. Accounts => SignedOutIsOut
    BY DEF Accounts, Outside, OnlyUser, Calm, Sure, SignedOutIsOut
  <1> QED BY <1>1, AccountsInvariant, PTL

\* After a sign-out that failed half way no session comes back from the profile
\* that is left, before the next login or the next start (logout,
\* _session_restore_suppressed), but for the overlaps the code admits (Crossed).
THEOREM SuppressionHolds == Spec => []SuppressedIsOut
  <1>1. Accounts => SuppressedIsOut
    BY Basics DEF Accounts, Suppressed, OnlyUser, Calm, SuppressedIsOut, Quiet
  <1> QED BY <1>1, AccountsInvariant, PTL

\* The keyring keeps the newest login until a sign-out (_persist_profile,
\* clear_session, the migration of a legacy profile), if neither an overlap nor a
\* failing call of the keyring came in between (trouble = {}).
THEOREM ProfileSurvives == Spec => []ProfileIsKept
  <1>1. Accounts => ProfileIsKept
    <2> SUFFICES ASSUME Accounts, newest # None, ~out, Quiet, trouble = {}
                 PROVE  \E i \in Ids : keyring[i] = newest /\ (newest # Legacy => i = User)
      BY DEF ProfileIsKept
    <2>1. Good
      BY Basics DEF Accounts, Kept, InLogin, Quiet
    <2> QED BY <2>1, Basics DEF Good
  <1> QED BY <1>1, AccountsInvariant, PTL

\* No restore brings an earlier account back over the newest login
\* (_existing_session, load_with_source), with the same exceptions.
THEOREM NewestSession == Spec => []SessionIsNewest
  <1>1. Accounts => SessionIsNewest
    BY DEF Accounts, NewestIn, OnlyUser, SessionIsNewest
  <1> QED BY <1>1, AccountsInvariant, PTL
=============================================================================
