---------------------------- MODULE RunLifecycle -----------------------------
(***************************************************************************)
(* A question from its arrival to its verdict: the request handlers of      *)
(* api.py (plain and streamed) and the command line of main.py, the run     *)
(* bracket of PlanAgent.iter_ask, _finalize_run, the judge pool, and the    *)
(* server process's start, graceful shutdown and death.                     *)
(*                                                                         *)
(* pc[r] is where the caller of run r stands, between two operations whose  *)
(* effect another process can see:                                          *)
(*   idle       not asked yet            rejected   404, unknown benchmark   *)
(*   starting   accepted, log_run not yet called                            *)
(*   planning   inside iter_ask's try: the graph runs, the plan is logged     *)
(*   completing iter_ask's finally, no exception                             *)
(*   failing    iter_ask's finally, an exception is propagating               *)
(*   abandoning iter_ask's finally, GeneratorExit of a client that left       *)
(*   planned    plan in hand: verify_response and log QUERY_VERIFICATION      *)
(*   verified   verification logged: re-read the run, submit the judge        *)
(*   done       answer sent              failed     error event, 500, or exit *)
(*   gone       client disconnected      crashed    process died in between   *)
(***************************************************************************)
EXTENDS JudgePool

CONSTANT MaxCrashes   \* bound on process deaths

ASSUME CrashesAssumption == MaxCrashes \in Nat

VARIABLES pc, mode, server, log, crashes

vars == <<status, events, faults, queue, judge, pc, mode, server, log, crashes>>

Modes    == {"stream", "plain", "cli"}
InFlight == {"starting", "planning", "completing", "failing", "abandoning",
             "planned", "verified"}
Ended    == {"rejected", "done", "failed", "gone", "crashed"}

TypeOK ==
  /\ StoreTypeOK
  /\ PoolTypeOK
  /\ pc \in [Runs -> InFlight \cup Ended \cup {"idle"}]
  /\ mode \in [Runs -> Modes]
  /\ server \in {"up", "draining", "closing", "down"}
  /\ log \in {"open", "closed"}
  /\ crashes \in 0..MaxCrashes

Init ==
  /\ StoreInit
  /\ PoolInit
  /\ pc = [r \in Runs |-> "idle"]
  /\ mode \in [Runs -> Modes]
  /\ server = "up"
  /\ log = "open"
  /\ crashes = 0

Served(r) == mode[r] # "cli"

\* main.py owns a QueryLog of its own, open while it runs.
Open(r) == Served(r) => log = "open"

Goto(r, p) == pc' = [pc EXCEPT ![r] = p]

\* Variables of the process and of the client that a step of a run leaves alone.
envVars == <<mode, server, log, crashes>>

-----------------------------------------------------------------------------
(* One run, step by step.                                                   *)

Ask(r) ==
  /\ pc[r] = "idle"
  /\ Served(r) => server = "up"
  /\ Goto(r, "starting")
  /\ UNCHANGED <<storeVars, poolVars, envVars>>

\* create_run: question_id given but in neither benchmark.
Reject(r) ==
  /\ pc[r] = "idle"
  /\ Served(r) /\ server = "up"
  /\ Goto(r, "rejected")
  /\ UNCHANGED <<storeVars, poolVars, envVars>>

\* log_run is called before iter_ask's try, so nothing closes a run it raised for.
OpenRun(r, o) ==
  /\ pc[r] = "starting"
  /\ LogRun(r, Open(r), o)
  /\ Goto(r, IF Raised(o) THEN "failed" ELSE "planning")
  /\ UNCHANGED <<poolVars, envVars>>

\* The graph raises, ends without claims, or the fingerprint replay raises.
PlannerFails(r) ==
  /\ pc[r] = "planning"
  /\ Goto(r, "failing")
  /\ UNCHANGED <<storeVars, poolVars, envVars>>

LogPlan(r, o) ==
  /\ pc[r] = "planning"
  /\ LogEvent(r, "PLAN", Open(r), o)
  /\ Goto(r, IF Raised(o) THEN "failing" ELSE "completing")
  /\ UNCHANGED <<poolVars, envVars>>

\* Bug: the exception path does not close the run.
CloseFailedLeavingOpen(r, o) ==
  /\ pc[r] \in {"failing", "abandoning"}
  /\ Call(Open(r), o)
  /\ Goto(r, IF pc[r] = "failing" THEN "failed" ELSE "gone")
  /\ UNCHANGED <<status, events, poolVars, envVars>>

\* Bug: the abandoned generator is kept, so its finally never runs.
CloseFailedUnlessAbandoned(r, o) ==
  /\ pc[r] = "failing"
  /\ FinishRun(r, "FAILED", Open(r), o)
  /\ Goto(r, "failed")
  /\ UNCHANGED <<poolVars, envVars>>

\* finally with an exception in flight: finish_run(FAILED).
CloseFailed(r, o) ==
  /\ pc[r] \in {"failing", "abandoning"}
  /\ FinishRun(r, "FAILED", Open(r), o)
  /\ Goto(r, IF pc[r] = "failing" THEN "failed" ELSE "gone")
  /\ UNCHANGED <<poolVars, envVars>>

\* finally after the plan was yielded: finish_run(COMPLETED); if it raises, the
\* exception leaves iter_ask and the plan is never verified.
CloseCompleted(r, o) ==
  /\ pc[r] = "completing"
  /\ FinishRun(r, "COMPLETED", Open(r), o)
  /\ Goto(r, IF Raised(o) THEN "failed" ELSE "planned")
  /\ UNCHANGED <<poolVars, envVars>>

\* Bug: a verifier that raises marks the run FAILED after all.
VerifierFailsRun(r) ==
  /\ pc[r] = "planned"
  /\ status' = [status EXCEPT ![r] = "FAILED"]
  /\ Goto(r, "failed")
  /\ UNCHANGED <<events, faults, poolVars, envVars>>

\* verify_response raises.
VerifierFails(r) ==
  /\ pc[r] = "planned"
  /\ Goto(r, "failed")
  /\ UNCHANGED <<storeVars, poolVars, envVars>>

LogVerification(r, o) ==
  /\ pc[r] = "planned"
  /\ LogEvent(r, "VERIFICATION", Open(r), o)
  /\ Goto(r, IF Raised(o) THEN "failed" ELSE "verified")
  /\ UNCHANGED <<poolVars, envVars>>

\* get_run_metadata or get_run_events raises between the log and the submit.
ReadBackFails(r) ==
  /\ pc[r] = "verified"
  /\ Served(r)
  /\ ReadFails(Open(r))
  /\ Goto(r, "failed")
  /\ UNCHANGED <<poolVars, envVars>>

\* Bug: the judge is submitted when the plan arrives, before verification.
SubmitEarly(r) ==
  /\ pc[r] \in {"planned", "verified"}
  /\ Served(r)
  /\ judge[r] = "none"
  /\ SubmitJudge(r)
  /\ Goto(r, IF pc[r] = "planned" THEN "planned" ELSE "done")
  /\ UNCHANGED <<storeVars, envVars>>

\* submit cannot find the executor shut down: shutdown waits for the request.
Answer(r) ==
  /\ pc[r] = "verified"
  /\ Served(r)
  /\ SubmitJudge(r)
  /\ Goto(r, "done")
  /\ UNCHANGED <<storeVars, envVars>>

\* main.py submits no judge.
AnswerCli(r) ==
  /\ pc[r] = "verified"
  /\ ~Served(r)
  /\ Goto(r, "done")
  /\ UNCHANGED <<storeVars, poolVars, envVars>>

\* The client closes the stream.  GeneratorExit is raised at the yield the
\* handler is suspended at: "Thinking" (nothing persisted), a step (inside
\* iter_ask's try), "Verifying" (after the run was closed).  except Exception
\* does not catch it.
Disconnect(r) ==
  /\ mode[r] = "stream"
  /\ pc[r] \in {"starting", "planning", "planned"}
  /\ Goto(r, IF pc[r] = "planning" THEN "abandoning" ELSE "gone")
  /\ UNCHANGED <<storeVars, poolVars, envVars>>

-----------------------------------------------------------------------------
(* The judge, on the server's own log.                                      *)

runVars == <<pc, mode, server, log, crashes>>

Judge(r) ==
  /\ \/ StartJudge(r)
     \/ JudgeRaises(r)
     \/ \E o \in Outcomes : \/ ReportVerdict(r, log = "open", o)
                            \/ ReportFailure(r, log = "open", o)
  /\ UNCHANGED runVars

-----------------------------------------------------------------------------
(* The server process (lifespan), and its death.                            *)

\* The ASGI server stops accepting, waits for the requests in flight, and only
\* then resumes lifespan, which calls shutdown(wait=True).
BeginShutdown ==
  /\ server = "up"
  /\ \A r \in Runs : Served(r) => pc[r] \notin InFlight
  /\ server' = "draining"
  /\ UNCHANGED <<storeVars, poolVars, pc, mode, log, crashes>>

\* Bug: shutdown does not wait for what was submitted.
ReturnAtOnce ==
  /\ server = "draining"
  /\ server' = "closing"
  /\ UNCHANGED <<storeVars, poolVars, pc, mode, log, crashes>>

\* Bug: shutdown waits for a verdict of every verified run.
DrainUntilAllJudged ==
  /\ server = "draining"
  /\ \A r \in Runs : JudgeStatus(events[r]) # "running"
  /\ server' = "closing"
  /\ UNCHANGED <<storeVars, poolVars, pc, mode, log, crashes>>

\* shutdown(wait=True) returns.
Drained ==
  /\ server = "draining"
  /\ PoolIdle
  /\ server' = "closing"
  /\ UNCHANGED <<storeVars, poolVars, pc, mode, log, crashes>>

\* query_log.close()
CloseLog ==
  /\ server = "closing"
  /\ log = "open"
  /\ log' = "closed"
  /\ UNCHANGED <<storeVars, poolVars, pc, mode, server, crashes>>

\* db.disconnect(), and the process exits.
Exit ==
  /\ server = "closing"
  /\ log = "closed"
  /\ server' = "down"
  /\ UNCHANGED <<storeVars, poolVars, pc, mode, log, crashes>>

\* kill -9, out of memory, a development reload: nothing of memory is left.
Crash ==
  /\ server # "down"
  /\ crashes < MaxCrashes
  /\ crashes' = crashes + 1
  /\ server' = "down"
  /\ pc' = [r \in Runs |->
              IF Served(r) /\ pc[r] \in InFlight THEN "crashed" ELSE pc[r]]
  /\ KillPool
  /\ UNCHANGED <<storeVars, mode, log>>

CrashCli(r) ==
  /\ ~Served(r)
  /\ pc[r] \in InFlight
  /\ crashes < MaxCrashes
  /\ crashes' = crashes + 1
  /\ Goto(r, "crashed")
  /\ UNCHANGED <<storeVars, poolVars, mode, server, log>>

\* lifespan: a new QueryLog is connected; the store's rows are kept, and no
\* run, event or judge left over from before is looked at.
Start ==
  /\ server = "down"
  /\ server' = "up"
  /\ log' = "open"
  /\ UNCHANGED <<storeVars, poolVars, pc, mode, crashes>>

-----------------------------------------------------------------------------

\* What the code of run r does next by itself.
Advance(r) ==
  \/ PlannerFails(r) \/ VerifierFails(r) \/ ReadBackFails(r)
  \/ Answer(r) \/ AnswerCli(r)
  \/ \E o \in Outcomes : \/ OpenRun(r, o) \/ LogPlan(r, o) \/ CloseFailed(r, o)
                         \/ CloseCompleted(r, o) \/ LogVerification(r, o)

\* What clients and the operating system do.
Client(r) == Ask(r) \/ Reject(r) \/ Disconnect(r)
Shutdown  == BeginShutdown \/ Drained \/ CloseLog \/ Exit
Process   == Shutdown \/ Crash \/ Start \/ \E r \in Runs : CrashCli(r)

Next == Process \/ \E r \in Runs : Advance(r) \/ Client(r) \/ Judge(r)

Spec == Init /\ [][Next]_vars

(***************************************************************************)
(* Threads are scheduled, every call in a handler returns or raises (LLM    *)
(* and database clients have timeouts, the graphs bound their loops), and   *)
(* lifespan resumes from shutdown.  Nothing obliges a client to ask or to   *)
(* leave, nor a process to stop, die or start.                              *)
(***************************************************************************)
Fairness ==
  /\ \A r \in Runs : WF_vars(Advance(r)) /\ WF_vars(Judge(r))
  /\ WF_vars(Drained) /\ WF_vars(CloseLog) /\ WF_vars(Exit)

FairSpec == Spec /\ Fairness

-----------------------------------------------------------------------------
(* Properties.                                                              *)

Undisturbed == faults = 0 /\ crashes = 0

\* A run marked COMPLETED has its plan in the store: iter_ask logs QUERY_PLAN
\* before its finally closes the run, and a failed log closes it as FAILED.
CompletedHasPlan ==
  \A r \in Runs : status[r] = "COMPLETED" => Logged(events[r], "PLAN")

\* Events of a run appear in pipeline order, each stage at most once, and only
\* a judge whose own write raised adds a second, failed, verdict.  A verification
\* exists only for a COMPLETED run.
Trails == {<<>>, <<"PLAN">>, <<"PLAN", "VERIFICATION">>}
            \cup {<<"PLAN", "VERIFICATION", v>> : v \in Verdicts}
            \cup {<<"PLAN", "VERIFICATION", "JUDGE", "JUDGE_ERROR">>}

PipelineOrder ==
  \A r \in Runs :
    /\ events[r] \in Trails
    /\ Logged(events[r], "VERIFICATION") => status[r] = "COMPLETED"
    /\ Len(events[r]) = 4 => faults > 0

\* The client is told "done" exactly when the verification is stored and the
\* judge is scheduled: no answer without a judge, no judge of an unanswered run.
AnsweredIffJudgeScheduled ==
  \A r \in Runs :
    Served(r) => (pc[r] = "done" <=> judge[r] # "none")
                 /\ (pc[r] = "done" => Logged(events[r], "VERIFICATION"))

\* Whatever ends a request (error, a client that leaves, an answer), its row is
\* closed, unless a store call raised or the process died.
EndedRunIsClosed ==
  \A r \in Runs :
    pc[r] \in Ended /\ status[r] = "running" => ~Undisturbed

\* The QueryLog is open as long as a request is in flight or a judge waits or runs,
\* whatever the server is doing: lifespan comes to close() only after the requests
\* and then the executor have drained.
LogOpenWhileInUse ==
  ~PoolIdle \/ (\E r \in Runs : Served(r) /\ pc[r] \in InFlight) => log = "open"

\* The rows and events, seen without everything else, behave as RunRecord says:
\* in particular a closed row is never reopened or re-marked, though finish_run's
\* UPDATE has no guard, and a judge never reports twice, though its except branch
\* may run after its verdict was committed.
Record == INSTANCE RunRecord WITH row <- status, trail <- events
ImplementsRecord == Record!Spec

\* The judge status derived from the events only moves forward; a completed
\* judge turns into a failed one only if the write of its verdict raised after
\* committing.
JudgeStatusAdvances ==
  [][\A r \in Runs :
       LET before == JudgeStatus(events[r])
           after  == JudgeStatus(events'[r])
       IN  /\ Rank[before] <= Rank[after]
           /\ before = "completed" /\ after = "failed" => faults > 0]_vars

\* Every question is eventually disposed of.
RequestsEnd == \A r \in Runs : pc[r] = "starting" ~> pc[r] \in Ended

\* A scheduled judge eventually leaves a verdict or an error in the store, and
\* graceful shutdown does not prevent it.
JudgesReport ==
  \A r \in Runs :
    judge[r] = "queued" ~> (JudgeStatus(events[r]) \in {"completed", "failed"}
                              \/ ~Undisturbed)

\* A graceful shutdown comes to an end.
ShutdownEnds == server = "draining" ~> server = "down"

\* Claimed by the interface (run-reviewer.tsx:315-318): while judge_status is
\* "running" the judge is checking the claims.
RunningMeansJudging ==
  \A r \in Runs :
    JudgeStatus(events[r]) = "running" =>
      judge[r] \in Running \cup {"queued"} \/ pc[r] = "verified"
=============================================================================
