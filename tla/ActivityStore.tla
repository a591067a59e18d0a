--------------------------- MODULE ActivityStore ---------------------------
(***************************************************************************)
(* The durable Activity table: one row per job id, of which only the state *)
(* matters here.  The legal lifecycle is the policy of                     *)
(* application/activity/transitions.py; the SQLite adapter enforces it by  *)
(* ignoring, without an error, a save the policy forbids.                  *)
(***************************************************************************)

InflightStates == {"queued", "running"}
TerminalStates == {"persisted", "failed", "abandoned"}
JobStates      == InflightStates \union TerminalStates

\* A job id the table holds no row for.
NoRow     == "none"
RowStates == JobStates \union {NoRow}

AllowedTransitions ==
  [ s \in JobStates |->
      CASE s = "queued"  -> {"running", "failed", "abandoned"}
        [] s = "running" -> {"persisted", "failed", "abandoned"}
        [] OTHER         -> {} ]

\* Mutant: a save replaces whatever row is there.
CanTransition_Any(current, target) == TRUE

CanTransition(current, target) == target \in AllowedTransitions[current]

IsTerminal(state) == state \in TerminalStates

\* The table after save(record): INSERT OR REPLACE, unless the row's state may
\* not become the record's.
Saved(table, job, state) ==
  IF \/ table[job] = NoRow
     \/ table[job] = state
     \/ CanTransition(table[job], state)
  THEN [table EXCEPT ![job] = state]
  ELSE table

\* The table after abandon_inflight(), the one UPDATE a starting server runs.
Abandoned(table) ==
  [ j \in DOMAIN table |->
      IF table[j] \in InflightStates THEN "abandoned" ELSE table[j] ]
=============================================================================
