------------------------------ MODULE SqlBudget -------------------------------
(***************************************************************************)
(* What both language-model loops of TAQR promise about the database: they  *)
(* query it in batches, start no batch once the budget is used, and then    *)
(* answer or give up.  PlannerGraph and JudgeGraph implement it.             *)
(***************************************************************************)
EXTENDS Naturals

CONSTANTS Budget,      \* MAX_SQL_ATTEMPTS
          Batch,       \* queries of one round, at most
          MustQuery    \* whether an answer needs at least one query

VARIABLES used, phase

Init == used = 0 /\ phase = "asking"

Query ==
  /\ phase = "asking"
  /\ used < Budget
  /\ used' \in (used + 1)..(used + Batch)
  /\ phase' = "asking"

Answer ==
  /\ phase = "asking"
  /\ MustQuery => used > 0
  /\ phase' = "answered"
  /\ UNCHANGED used

GiveUp ==
  /\ phase = "asking"
  /\ phase' = "gave_up"
  /\ UNCHANGED used

Spec == Init /\ [][Query \/ Answer \/ GiveUp]_<<used, phase>>
=============================================================================
