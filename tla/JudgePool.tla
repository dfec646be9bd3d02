------------------------------ MODULE JudgePool ------------------------------
(***************************************************************************)
(* The background judge: a ThreadPoolExecutor with an unbounded FIFO queue  *)
(* (api.py, lifespan) whose threads run _run_judge for one run each.  The   *)
(* investigation itself (verifier/judge) is one step here, in which it      *)
(* returns a verdict or raises; JudgeGraph models its inside.               *)
(*                                                                         *)
(* judge[r] follows the future of run r:                                    *)
(*   "none"           never submitted                                       *)
(*   "queued"         in the executor's queue                               *)
(*   "investigating"  a thread is in JudgeAgent.judge, up to its log_event   *)
(*   "excusing"       in _run_judge's except branch, before its log_event    *)
(*   "finished"       the future is done (its exception, if any, unread)     *)
(*   "killed"         the process died with the future pending or running    *)
(***************************************************************************)
EXTENDS ProvenanceStore, FiniteSets

CONSTANT MaxWorkers   \* max_workers of the executor: 2 in api.py

ASSUME WorkersAssumption == MaxWorkers \in Nat \ {0}

VARIABLES queue, judge

poolVars == <<queue, judge>>

Running  == {"investigating", "excusing"}
Phases   == Running \cup {"none", "queued", "finished", "killed"}

Judging  == {r \in Runs : judge[r] \in Running}
PoolIdle == \A r \in Runs : judge[r] \notin Running \cup {"queued"}

PoolTypeOK ==
  /\ queue \in Seq(Runs)
  /\ judge \in [Runs -> Phases]

PoolInit ==
  /\ queue = <<>>
  /\ judge = [r \in Runs |-> "none"]

\* executor.submit
SubmitJudge(r) ==
  /\ queue' = Append(queue, r)
  /\ judge' = [judge EXCEPT ![r] = "queued"]

StartJudge(r) ==
  /\ queue # <<>>
  /\ r = Head(queue)
  /\ Cardinality(Judging) < MaxWorkers
  /\ queue' = Tail(queue)
  /\ judge' = [judge EXCEPT ![r] = "investigating"]
  /\ UNCHANGED storeVars

\* Bug: judge() raises after its verdict was logged.
ReportVerdictThenRaise(r, open, o) ==
  /\ judge[r] = "investigating"
  /\ LogEvent(r, "JUDGE", open, o)
  /\ judge' = [judge EXCEPT ![r] = "excusing"]
  /\ UNCHANGED queue

\* judge() logs the verdict it reached; if the write raises, so does judge().
ReportVerdict(r, open, o) ==
  /\ judge[r] = "investigating"
  /\ LogEvent(r, "JUDGE", open, o)
  /\ judge' = [judge EXCEPT ![r] = IF Raised(o) THEN "excusing" ELSE "finished"]
  /\ UNCHANGED queue

\* The graph raises, or ends without a verdict (ValueError).
JudgeRaises(r) ==
  /\ judge[r] = "investigating"
  /\ judge' = [judge EXCEPT ![r] = "excusing"]
  /\ UNCHANGED <<queue, storeVars>>

\* Bug: the except branch only logs to the logger.
ReportFailureSilently(r, open, o) ==
  /\ judge[r] = "excusing"
  /\ Call(open, o)
  /\ judge' = [judge EXCEPT ![r] = "finished"]
  /\ UNCHANGED <<queue, status, events>>

\* A write that raises here ends the future with an exception nobody reads.
ReportFailure(r, open, o) ==
  /\ judge[r] = "excusing"
  /\ LogEvent(r, "JUDGE_ERROR", open, o)
  /\ judge' = [judge EXCEPT ![r] = "finished"]
  /\ UNCHANGED queue

\* The process dies: queued and running judges are gone.
KillPool ==
  /\ queue' = <<>>
  /\ judge' = [r \in Runs |->
                 IF judge[r] \in Running \cup {"queued"} THEN "killed" ELSE judge[r]]
=============================================================================
