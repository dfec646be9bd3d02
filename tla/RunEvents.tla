------------------------------ MODULE RunEvents -------------------------------
(***************************************************************************)
(* The events of a run as readers see them (api.py, _normalize_run_detail). *)
(* A QUERY_JUDGE event whose payload has an "error" key is the kind          *)
(* "JUDGE_ERROR", any other one "JUDGE".  TOOL_CALL events are left out: no   *)
(* status is derived from them.                                             *)
(***************************************************************************)
EXTENDS Naturals, Sequences

RunStatus == {"COMPLETED", "FAILED"}
Statuses  == RunStatus \cup {"absent", "running"}   \* of a row that may not exist
Verdicts  == {"JUDGE", "JUDGE_ERROR"}
EventType == Verdicts \cup {"PLAN", "VERIFICATION"}

Logged(trail, e) == \E i \in DOMAIN trail : trail[i] = e

\* The events loop keeps the last QUERY_JUDGE payload it meets.
LastVerdict(trail, v) ==
  \E i \in DOMAIN trail :
    /\ trail[i] = v
    /\ \A j \in DOMAIN trail : j > i => trail[j] \notin Verdicts

JudgeStatus(trail) ==
  IF LastVerdict(trail, "JUDGE_ERROR") THEN "failed"
  ELSE IF LastVerdict(trail, "JUDGE") THEN "completed"
  ELSE IF Logged(trail, "VERIFICATION") THEN "running"
  ELSE "not_started"

\* The order in which a run goes through its judge statuses.
Rank == [not_started |-> 0, running |-> 1, completed |-> 2, failed |-> 3]
=============================================================================
