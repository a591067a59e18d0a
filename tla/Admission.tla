----------------------------- MODULE Admission -----------------------------
(***************************************************************************)
(* SnapshotAdmission: how many snapshots a notebook may have pending, and  *)
(* which trigger runs are duplicates.  Every method runs under the         *)
(* object's lock, so each is one action.  The state is in memory: Reset is *)
(* what a restarted server begins with.                                    *)
(*                                                                         *)
(* A fingerprint hashes the notebook key, kernel, triggered cells,         *)
(* execution count and tags; a run stands for all but the notebook key.    *)
(* A job id is a fresh uuid4; ids are numbered in the order they are drawn.*)
(***************************************************************************)
EXTENDS Integers, FiniteSets

CONSTANTS
  Notebooks,   (* notebook keys                                             *)
  Runs,        (* what tells one run of a notebook from another             *)
  MaxJobs,     (* bound: how many job ids are drawn                         *)
  MaxPending,  (* _max_pending, 5 in production                             *)
  DedupeTTL,   (* _dedupe_ttl, in ticks of the injected clock               *)
  MaxTime,     (* bound: the last tick                                      *)
  Never,       (* no entry in _completed_fingerprints                       *)
  NoInfo       (* no entry in _jobs                                         *)

NoJob        == 0
Jobs         == 1 .. MaxJobs
Fingerprints == Notebooks \X Runs
Sources      == {"manual", "trigger_cell"}
JobInfo      == [notebook : Notebooks, run : Runs, source : Sources]

ASSUME AdmissionAssumption ==
  /\ MaxJobs \in Nat
  /\ MaxPending \in Nat
  /\ DedupeTTL \in Nat
  /\ MaxTime \in Nat
  /\ Never \notin Nat
  /\ NoInfo \notin JobInfo

VARIABLES
  pending,     (* _pending: notebook -> admitted and not completed          *)
  active,      (* _active_fingerprints: fingerprint -> job, or NoJob        *)
  completed,   (* _completed_fingerprints: fingerprint -> time, or Never    *)
  jobs,        (* _jobs: job -> its _JobInfo, or NoInfo                     *)
  now          (* the clock                                                 *)

admissionVars == <<pending, active, completed, jobs, now>>

FingerprintOf(info) == <<info.notebook, info.run>>
IsTrigger(info)     == info.source = "trigger_cell"

----------------------------------------------------------------------------
AdmissionEmpty ==
  /\ pending   = [n \in Notebooks |-> 0]
  /\ active    = [f \in Fingerprints |-> NoJob]
  /\ completed = [f \in Fingerprints |-> Never]
  /\ jobs      = [j \in Jobs |-> NoInfo]

AdmissionInit == AdmissionEmpty /\ now = 0

\* Mutant: an entry exactly as old as the TTL is dropped.
Unexpired_Early ==
  [ f \in Fingerprints |->
      IF completed[f] # Never /\ completed[f] <= now - DedupeTTL THEN Never ELSE completed[f] ]

\* _expire_completed: an entry is dropped once it is older than the TTL.
Unexpired ==
  [ f \in Fingerprints |->
      IF completed[f] # Never /\ completed[f] < now - DedupeTTL
      THEN Never
      ELSE completed[f] ]

\* Mutant: one job too many is let in.
IsFull_OneMore(info) == pending[info.notebook] > MaxPending

\* The three ways admit() turns a submission away, in the order it asks.
Coalesces(info)   == IsTrigger(info) /\ active[FingerprintOf(info)] # NoJob
IsDuplicate(info) == IsTrigger(info) /\ Unexpired[FingerprintOf(info)] # Never
IsFull(info)      == pending[info.notebook] >= MaxPending

Coalesce(info) ==
  /\ Coalesces(info)
  /\ completed' = Unexpired
  /\ UNCHANGED <<pending, active, jobs, now>>

Reject(info) ==
  /\ ~Coalesces(info)
  /\ IsDuplicate(info) \/ IsFull(info)
  /\ completed' = Unexpired
  /\ UNCHANGED <<pending, active, jobs, now>>

Accept(job, info) ==
  /\ ~Coalesces(info) /\ ~IsDuplicate(info) /\ ~IsFull(info)
  /\ completed' = Unexpired
  /\ pending' = [pending EXCEPT ![info.notebook] = @ + 1]
  /\ active' = IF IsTrigger(info)
               THEN [active EXCEPT ![FingerprintOf(info)] = job]
               ELSE active
  /\ jobs' = [jobs EXCEPT ![job] = info]
  /\ UNCHANGED now

\* Mutant: a failed job leaves its fingerprint active.
Complete_KeepsActive(job, succeeded) ==
  LET info == jobs[job] IN
  /\ info # NoInfo
  /\ jobs' = [jobs EXCEPT ![job] = NoInfo]
  /\ pending' = [pending EXCEPT ![info.notebook] = @ - 1]
  /\ IF IsTrigger(info) /\ succeeded
     THEN /\ active' = [active EXCEPT ![FingerprintOf(info)] = NoJob]
          /\ completed' = [completed EXCEPT ![FingerprintOf(info)] = now]
     ELSE UNCHANGED <<active, completed>>
  /\ UNCHANGED now

\* complete(job_id, succeeded): a job that is not in the table is a no-op.
Complete(job, succeeded) ==
  LET info == jobs[job] IN
  /\ UNCHANGED now
  /\ \/ /\ info = NoInfo
        /\ UNCHANGED <<pending, active, completed, jobs>>
     \/ /\ info # NoInfo
        /\ jobs' = [jobs EXCEPT ![job] = NoInfo]
        /\ pending' = [pending EXCEPT
             ![info.notebook] = IF @ - 1 >= 0 THEN @ - 1 ELSE 0]
        /\ active' = IF IsTrigger(info)
                     THEN [active EXCEPT ![FingerprintOf(info)] = NoJob]
                     ELSE active
        /\ completed' = IF IsTrigger(info) /\ succeeded
                        THEN [completed EXCEPT ![FingerprintOf(info)] = now]
                        ELSE completed

Tick ==
  /\ now < MaxTime
  /\ now' = now + 1
  /\ UNCHANGED <<pending, active, completed, jobs>>

\* A new SnapshotAdmission in a restarted server.
Reset ==
  /\ pending'   = [n \in Notebooks |-> 0]
  /\ active'    = [f \in Fingerprints |-> NoJob]
  /\ completed' = [f \in Fingerprints |-> Never]
  /\ jobs'      = [j \in Jobs |-> NoInfo]
  /\ UNCHANGED now

\* admit() is only called with a job id that is in no table yet.
AdmissionNext ==
  \/ \E info \in JobInfo : Coalesce(info) \/ Reject(info)
  \/ \E job \in Jobs, info \in JobInfo : jobs[job] = NoInfo /\ Accept(job, info)
  \/ \E job \in Jobs, succeeded \in BOOLEAN : Complete(job, succeeded)
  \/ Tick
  \/ Reset

AdmissionSpec == AdmissionInit /\ [][AdmissionNext]_admissionVars

----------------------------------------------------------------------------
AdmissionTypeOK ==
  /\ pending \in [Notebooks -> Nat]
  /\ active \in [Fingerprints -> Jobs \union {NoJob}]
  /\ completed \in [Fingerprints -> Nat \union {Never}]
  /\ jobs \in [Jobs -> JobInfo \union {NoInfo}]
  /\ now \in Nat

AdmittedFor(n) == {j \in Jobs : jobs[j] # NoInfo /\ jobs[j].notebook = n}

\* The pending count of a notebook is the number of its jobs in the table and
\* never passes the limit: the max(0, ...) in complete() hides no lost count,
\* and no order of admissions and completions lets a sixth snapshot in.
SlotsCounted ==
  \A n \in Notebooks : /\ pending[n] = Cardinality(AdmittedFor(n))
                       /\ pending[n] <= MaxPending

\* A fingerprint is active exactly for the one admitted trigger job that has
\* it, so complete() never removes another job's entry and two jobs of one run
\* are never in flight together.
ActiveIsExact ==
  \A f \in Fingerprints, j \in Jobs :
    active[f] = j <=> /\ jobs[j] # NoInfo
                      /\ IsTrigger(jobs[j])
                      /\ FingerprintOf(jobs[j]) = f

\* A run is never in flight while its fingerprint is remembered as done: the
\* entry that complete() writes never overwrites an earlier one.
ActiveXorCompleted ==
  \A f \in Fingerprints : active[f] # NoJob => completed[f] = Never
=============================================================================
