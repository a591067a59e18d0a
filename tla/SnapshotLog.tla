---------------------------- MODULE SnapshotLog ----------------------------
(***************************************************************************)
(* What a user is promised about the Activity list, whatever threads and   *)
(* queues produce it: a row that reached an end never changes, a row says  *)
(* persisted only once a snapshot is in the lab notebook, a job writes at  *)
(* most one snapshot and only while its row says it is running, and rows   *)
(* are abandoned all together, when a server starts.                       *)
(***************************************************************************)
CONSTANT Jobs

VARIABLES
  row,        (* job -> the state its Activity row shows, or "none"         *)
  delivered   (* the jobs whose snapshot is in the lab notebook             *)

logVars == <<row, delivered>>

Unfinished == {"queued", "running"}

LogInit == row = [j \in Jobs |-> "none"] /\ delivered = {}

Become(j, from, to) ==
  /\ row[j] \in from
  /\ row' = [row EXCEPT ![j] = to]
  /\ UNCHANGED delivered

Queue(j) == Become(j, {"none"}, "queued")
Run(j)   == Become(j, {"queued"}, "running")
Fail(j)  == Become(j, {"none"} \union Unfinished, "failed")

\* A job may answer for another one, so the snapshot need not be its own.
Persist(j) == delivered # {} /\ Become(j, {"running"}, "persisted")

Deliver(j) ==
  /\ row[j] = "running"
  /\ j \notin delivered
  /\ delivered' = delivered \union {j}
  /\ UNCHANGED row

AbandonAll ==
  /\ row' = [j \in Jobs |-> IF row[j] \in Unfinished THEN "abandoned" ELSE row[j]]
  /\ UNCHANGED delivered

LogNext ==
  \/ \E j \in Jobs : Queue(j) \/ Run(j) \/ Fail(j) \/ Persist(j) \/ Deliver(j)
  \/ AbandonAll

LogSpec == LogInit /\ [][LogNext]_logVars
=============================================================================
