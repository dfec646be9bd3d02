--------------------------- MODULE SchemaBootstrap ---------------------------
(***************************************************************************)
(* QueryLog.connect (provenance/query_log.py, _ensure_schema): every server *)
(* start and every command-line run inspects the provenance tables and, if   *)
(* one is missing or lacks an expected column, drops and recreates them.     *)
(* Several processes may do so at once on one database.                      *)
(*                                                                         *)
(* tables is what the database holds:                                       *)
(*   "none"     no provenance tables                                        *)
(*   "legacy"   an expected column or table is missing, no foreign keys       *)
(*   "linked"   the same, and runs references models by a foreign key         *)
(*   "current"  the tables of ddl.py: events references runs, runs models     *)
(* rows are the runs recorded, as a number.  The rebuild is one transaction,  *)
(* DDL included, and its table locks serialise it with others.               *)
(***************************************************************************)
EXTENDS Naturals

CONSTANTS Processes,
          MaxRows   \* bound on the rows recorded

ASSUME RowsAssumption == MaxRows \in Nat

VARIABLES tables, rows, pc

vars == <<tables, rows, pc>>

Tables == {"none", "legacy", "linked", "current"}

TypeOK ==
  /\ tables \in Tables
  /\ rows \in 0..MaxRows
  /\ pc \in [Processes -> {"stopped", "rebuilding", "connected", "failed"}]

Init ==
  /\ tables \in Tables
  /\ rows \in IF tables = "none" THEN {0} ELSE 0..MaxRows
  /\ pc = [p \in Processes |-> "stopped"]

Goto(p, state) == pc' = [pc EXCEPT ![p] = state]

\* Bug: only the presence of the tables is checked.
InspectPresence(p) ==
  /\ pc[p] = "stopped"
  /\ Goto(p, IF tables # "none" THEN "connected" ELSE "rebuilding")
  /\ UNCHANGED <<tables, rows>>

\* The inspection, outside the transaction that acts on it.
Inspect(p) ==
  /\ pc[p] = "stopped"
  /\ Goto(p, IF tables = "current" THEN "connected" ELSE "rebuilding")
  /\ UNCHANGED <<tables, rows>>

\* DROP TABLE models is refused while a foreign key refers to it, and comes first.
DropRefused == tables \in {"linked", "current"}

\* Bug: the tables are dropped in the order the foreign keys allow.
RebuildInOrder(p) ==
  /\ pc[p] = "rebuilding"
  /\ tables' = "current"
  /\ rows' = 0
  /\ Goto(p, "connected")

Rebuild(p) ==
  /\ pc[p] = "rebuilding"
  /\ ~DropRefused
  /\ tables' = "current"
  /\ rows' = 0
  /\ Goto(p, "connected")

\* The refused DROP, or any database error: rolled back, the start fails.
RebuildFails(p) ==
  /\ pc[p] = "rebuilding"
  /\ Goto(p, "failed")
  /\ UNCHANGED <<tables, rows>>

LogRun(p) ==
  /\ pc[p] = "connected"
  /\ rows < MaxRows
  /\ rows' = rows + 1
  /\ UNCHANGED <<tables, pc>>

Stop(p) ==
  /\ pc[p] \in {"connected", "failed"}
  /\ Goto(p, "stopped")
  /\ UNCHANGED <<tables, rows>>

Next == \E p \in Processes :
          Inspect(p) \/ Rebuild(p) \/ RebuildFails(p) \/ LogRun(p) \/ Stop(p)

Spec == Init /\ [][Next]_vars

-----------------------------------------------------------------------------
(* Properties.                                                              *)

\* A process that connected finds the tables it writes to, whatever the others do.
ConnectedHasTables ==
  (\E p \in Processes : pc[p] = "connected") => tables = "current"

\* Rows of the current schema are never dropped, not even by a start that
\* inspected the tables before another start created them: its first DROP is
\* refused.
CurrentRowsAreKept == [][tables = "current" => rows' >= rows /\ tables' = tables]_vars
=============================================================================
