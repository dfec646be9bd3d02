-------------------------- MODULE RunLifecycleProofs --------------------------
(***************************************************************************)
(* Proofs about RunLifecycle for any set of runs, any number of workers and *)
(* any number of store faults and process deaths.                           *)
(***************************************************************************)
EXTENDS RunLifecycle, SequenceTheorems, TLAPS

-----------------------------------------------------------------------------
(***************************************************************************)
(* The six trails a run can have, as data: how they grow, that they differ,  *)
(* and what readers make of them.  The rest of the proofs uses them through    *)
(* these lemmas only.                                                       *)
(***************************************************************************)
P   == <<"PLAN">>
PV  == <<"PLAN", "VERIFICATION">>
PVJ == <<"PLAN", "VERIFICATION", "JUDGE">>
PVE == <<"PLAN", "VERIFICATION", "JUDGE_ERROR">>
PVJE == <<"PLAN", "VERIFICATION", "JUDGE", "JUDGE_ERROR">>

Verified == {PV, PVJ, PVE, PVJE}

-----------------------------------------------------------------------------

LEMMA AppendToOne ==
  ASSUME NEW x \in EventType, NEW y \in EventType
  PROVE  Append(<<x>>, y) = <<x, y>>
  <1> DEFINE s == Append(<<x>>, y)
  <1>1. s \in Seq(EventType) /\ Len(s) = 2 /\ s[1] = x /\ s[2] = y
    OBVIOUS
  <1> HIDE DEF s
  <1>2. s = <<x, y>>
    BY <1>1
  <1> QED BY <1>2 DEF s

LEMMA AppendToTwo ==
  ASSUME NEW x \in EventType, NEW y \in EventType, NEW z \in EventType
  PROVE  Append(<<x, y>>, z) = <<x, y, z>>
  <1> DEFINE s == Append(<<x, y>>, z)
  <1>1. s \in Seq(EventType) /\ Len(s) = 3 /\ s[1] = x /\ s[2] = y /\ s[3] = z
    OBVIOUS
  <1> HIDE DEF s
  <1>2. s = <<x, y, z>>
    BY <1>1
  <1> QED BY <1>2 DEF s

LEMMA AppendToThree ==
  ASSUME NEW w \in EventType, NEW x \in EventType, NEW y \in EventType,
         NEW z \in EventType
  PROVE  Append(<<w, x, y>>, z) = <<w, x, y, z>>
  <1> DEFINE s == Append(<<w, x, y>>, z)
  <1>1. /\ s \in Seq(EventType) /\ Len(s) = 4
        /\ s[1] = w /\ s[2] = x /\ s[3] = y /\ s[4] = z
    OBVIOUS
  <1> HIDE DEF s
  <1>2. s = <<w, x, y, z>>
    BY <1>1
  <1> QED BY <1>2 DEF s

LEMMA TrailsGrow ==
  /\ Append(<<>>, "PLAN") = P
  /\ Append(P, "VERIFICATION") = PV
  /\ Append(PV, "JUDGE") = PVJ
  /\ Append(PV, "JUDGE_ERROR") = PVE
  /\ Append(PVJ, "JUDGE_ERROR") = PVJE
  <1>1. "PLAN" \in EventType /\ "VERIFICATION" \in EventType
        /\ "JUDGE" \in EventType /\ "JUDGE_ERROR" \in EventType
    BY DEF EventType, Verdicts
  <1>2. Append(<<>>, "PLAN") = P
    BY DEF P
  <1>3. Append(P, "VERIFICATION") = PV
    BY <1>1, AppendToOne DEF P, PV
  <1>4. Append(PV, "JUDGE") = PVJ
    BY <1>1, AppendToTwo DEF PV, PVJ
  <1>5. Append(PV, "JUDGE_ERROR") = PVE
    BY <1>1, AppendToTwo DEF PV, PVE
  <1>6. Append(PVJ, "JUDGE_ERROR") = PVJE
    BY <1>1, AppendToThree DEF PVJ, PVJE
  <1> QED BY <1>2, <1>3, <1>4, <1>5, <1>6

LEMMA TrailLengths ==
  /\ Len(<<>>) = 0 /\ Len(P) = 1 /\ Len(PV) = 2
  /\ Len(PVJ) = 3 /\ Len(PVE) = 3 /\ Len(PVJE) = 4
  BY DEF P, PV, PVJ, PVE, PVJE

LEMMA TrailsDiffer ==
  /\ <<>> \notin {P} \cup Verified
  /\ P \notin Verified
  /\ PV \notin {PVJ, PVE, PVJE}
  /\ PVJ \notin {PVE, PVJE}
  /\ PVE # PVJE
  <1>1. PVJ # PVE
    <2>1. PVJ[3] = "JUDGE" /\ PVE[3] = "JUDGE_ERROR"
      BY DEF PVJ, PVE
    <2> QED BY <2>1
  <1>2. <<>> # P /\ <<>> # PV /\ <<>> # PVJ /\ <<>> # PVE /\ <<>> # PVJE
    BY DEF P, PV, PVJ, PVE, PVJE
  <1>3. P # PV /\ P # PVJ /\ P # PVE /\ P # PVJE
    BY TrailLengths
  <1>4. PV # PVJ /\ PV # PVE /\ PV # PVJE /\ PVJ # PVJE /\ PVE # PVJE
    BY TrailLengths
  <1> QED BY <1>1, <1>2, <1>3, <1>4, Zenon DEF Verified

-----------------------------------------------------------------------------
\* What Logged says of each trail.
LEMMA LoggedInTrails ==
  /\ ~Logged(<<>>, "PLAN") /\ ~Logged(<<>>, "VERIFICATION")
  /\ Logged(P, "PLAN") /\ ~Logged(P, "VERIFICATION")
  /\ \A t \in Verified : Logged(t, "PLAN") /\ Logged(t, "VERIFICATION")
  <1>1. DOMAIN P = 1..1 /\ P[1] = "PLAN"
    BY DEF P
  <1>2. /\ 1 \in DOMAIN PV /\ 2 \in DOMAIN PV
        /\ PV[1] = "PLAN" /\ PV[2] = "VERIFICATION"
    BY DEF PV
  <1>3. /\ 1 \in DOMAIN PVJ /\ 2 \in DOMAIN PVJ
        /\ PVJ[1] = "PLAN" /\ PVJ[2] = "VERIFICATION"
    BY DEF PVJ
  <1>4. /\ 1 \in DOMAIN PVE /\ 2 \in DOMAIN PVE
        /\ PVE[1] = "PLAN" /\ PVE[2] = "VERIFICATION"
    BY DEF PVE
  <1>5. /\ 1 \in DOMAIN PVJE /\ 2 \in DOMAIN PVJE
        /\ PVJE[1] = "PLAN" /\ PVJE[2] = "VERIFICATION"
    BY DEF PVJE
  <1>6. DOMAIN <<>> = {}
    OBVIOUS
  <1> QED BY <1>1, <1>2, <1>3, <1>4, <1>5, <1>6 DEF Logged, Verified

\* And what LastVerdict and JudgeStatus say of them.
LEMMA VerdictInTrails ==
  /\ \A v \in Verdicts : \A t \in {<<>>, P, PV} : ~LastVerdict(t, v)
  /\ LastVerdict(PVJ, "JUDGE") /\ ~LastVerdict(PVJ, "JUDGE_ERROR")
  /\ LastVerdict(PVE, "JUDGE_ERROR")
  /\ LastVerdict(PVJE, "JUDGE_ERROR")
  <1> USE DEF LastVerdict, Verdicts
  <1>1. DOMAIN <<>> = {}
    OBVIOUS
  <1>2. DOMAIN P = 1..1 /\ P[1] = "PLAN"
    BY DEF P
  <1>3. DOMAIN PV = 1..2 /\ PV[1] = "PLAN" /\ PV[2] = "VERIFICATION"
    BY DEF PV
  <1>4. DOMAIN PVJ = 1..3 /\ PVJ[1] = "PLAN" /\ PVJ[2] = "VERIFICATION" /\ PVJ[3] = "JUDGE"
    BY DEF PVJ
  <1>5. DOMAIN PVE = 1..3 /\ PVE[3] = "JUDGE_ERROR"
    BY DEF PVE
  <1>6. DOMAIN PVJE = 1..4 /\ PVJE[4] = "JUDGE_ERROR"
    BY DEF PVJE
  <1>7. \A v \in Verdicts : ~LastVerdict(<<>>, v)
    BY <1>1
  <1>8. \A v \in Verdicts : ~LastVerdict(P, v)
    BY <1>2
  <1>9. \A v \in Verdicts : ~LastVerdict(PV, v)
    BY <1>3
  <1>10. LastVerdict(PVJ, "JUDGE") /\ ~LastVerdict(PVJ, "JUDGE_ERROR")
    BY <1>4
  <1>11. LastVerdict(PVE, "JUDGE_ERROR")
    BY <1>5
  <1>12. LastVerdict(PVJE, "JUDGE_ERROR")
    BY <1>6
  <1> HIDE DEF LastVerdict, Verdicts
  <1> QED BY <1>7, <1>8, <1>9, <1>10, <1>11, <1>12, Zenon

LEMMA JudgeStatusOfTrails ==
  /\ JudgeStatus(<<>>) = "not_started" /\ JudgeStatus(P) = "not_started"
  /\ JudgeStatus(PV) = "running"
  /\ JudgeStatus(PVJ) = "completed"
  /\ JudgeStatus(PVE) = "failed" /\ JudgeStatus(PVJE) = "failed"
  BY VerdictInTrails, LoggedInTrails DEF JudgeStatus, Verdicts, Verified

-----------------------------------------------------------------------------
(***************************************************************************)
(* The inductive invariant.  It ties the three places that know how far a   *)
(* run has come: its caller's pc, its row and events in the store, and its   *)
(* judge's future.  None of the properties is inductive without the others: *)
(* that a COMPLETED row has a plan rests on where the caller stood when it   *)
(* closed the row, and that a judge finds a verified run on the fact that    *)
(* only a caller past LogVerification submits one.                          *)
(***************************************************************************)
CallerAndRow(r) ==
  /\ pc[r] \in {"idle", "rejected", "starting"} => status[r] = "absent"
  /\ pc[r] = "planning" => status[r] = "running" /\ events[r] = <<>>
  /\ pc[r] = "completing" => status[r] = "running" /\ events[r] = P
  /\ pc[r] \in {"failing", "abandoning"} =>
       status[r] = "running" /\ events[r] \in {<<>>, P}
  /\ pc[r] = "planned" => status[r] = "COMPLETED" /\ events[r] = P
  /\ pc[r] = "verified" => events[r] = PV
  /\ pc[r] = "done" => events[r] \in Verified

RowAndTrail(r) ==
  /\ events[r] \in {<<>>, P} \cup Verified
  /\ status[r] = "absent" => events[r] = <<>>
  /\ status[r] = "COMPLETED" => events[r] # <<>>
  /\ events[r] \in Verified => status[r] = "COMPLETED"

JudgeAndTrail(r) ==
  /\ judge[r] = "none" => events[r] \in {<<>>, P, PV}
  /\ judge[r] \in {"queued", "investigating"} => events[r] = PV
  /\ judge[r] = "excusing" => events[r] \in {PV, PVJ}
  /\ judge[r] = "excusing" /\ events[r] = PVJ => faults > 0
  /\ judge[r] # "none" => pc[r] = "done" /\ Served(r)
  /\ pc[r] = "done" /\ Served(r) => judge[r] # "none"
  /\ events[r] = PVJE => faults > 0

Closed(r) == pc[r] \in Ended /\ status[r] = "running" => ~Undisturbed

QueueAndJudge ==
  /\ \A i \in DOMAIN queue : judge[queue[i]] = "queued"
  /\ \A i, j \in DOMAIN queue : queue[i] = queue[j] => i = j

\* The log is open until the executor has drained, and from then on there is no work
\* until the next start.
ServerAndWork ==
  /\ server \in {"up", "draining"} => log = "open"
  /\ server \in {"closing", "down"} => PoolIdle
  /\ \A r \in Runs : Served(r) /\ pc[r] \in InFlight => server = "up"

Local(r) == CallerAndRow(r) /\ RowAndTrail(r) /\ JudgeAndTrail(r) /\ Closed(r)

IInv ==
  /\ TypeOK
  /\ \A r \in Runs : Local(r)
  /\ QueueAndJudge
  /\ ServerAndWork

-----------------------------------------------------------------------------
(* Every variable keeps its type, whatever the clients, the store and the    *)
(* process do.                                                               *)
LEMMA InitTypeOK == Init => TypeOK
  BY FaultsAssumption, CrashesAssumption
     DEF Init, TypeOK, StoreInit, StoreTypeOK, PoolInit, PoolTypeOK, Statuses, Phases

LEMMA CallTypeOK ==
  ASSUME StoreTypeOK, NEW open, NEW o \in Outcomes, Call(open, o)
  PROVE  faults' \in 0..MaxFaults /\ faults' >= faults
  BY FaultsAssumption DEF StoreTypeOK, Call, Raised, Outcomes

LEMMA LogEventTypeOK ==
  ASSUME StoreTypeOK, NEW r \in Runs, NEW open, NEW o \in Outcomes,
         NEW e \in EventType, LogEvent(r, e, open, o)
  PROVE  StoreTypeOK'
  <1>1. faults' \in 0..MaxFaults
    BY CallTypeOK DEF LogEvent
  <1>2. events' \in [Runs -> Seq(EventType)]
    BY AppendProperties DEF LogEvent, StoreTypeOK
  <1> QED BY <1>1, <1>2 DEF LogEvent, StoreTypeOK

LEMMA StepTypeOK == TypeOK /\ [Next]_vars => TypeOK'
  <1> SUFFICES ASSUME TypeOK, [Next]_vars PROVE TypeOK'
    OBVIOUS
  <1> USE DEF TypeOK, PoolTypeOK, Goto, envVars, storeVars, poolVars, runVars,
              InFlight, Ended, Phases, Running
  <1>1. ASSUME NEW r \in Runs, Advance(r) PROVE TypeOK'
    <2>1. CASE PlannerFails(r) \/ VerifierFails(r) \/ AnswerCli(r)
      BY <2>1 DEF PlannerFails, VerifierFails, AnswerCli, StoreTypeOK
    <2>2. CASE ReadBackFails(r)
      <3>1. faults' \in 0..MaxFaults
        BY <2>2, CallTypeOK DEF ReadBackFails, ReadFails, Outcomes
      <3> QED BY <2>2, <3>1 DEF ReadBackFails, ReadFails, StoreTypeOK
    <2>3. CASE Answer(r)
      <3>1. queue' \in Seq(Runs)
        BY <2>3, AppendProperties DEF Answer, SubmitJudge
      <3> QED BY <2>3, <3>1 DEF Answer, SubmitJudge, StoreTypeOK
    <2>4. ASSUME NEW o \in Outcomes, OpenRun(r, o) PROVE TypeOK'
      <3>1. faults' \in 0..MaxFaults
        BY <2>4, CallTypeOK DEF OpenRun, LogRun
      <3> QED BY <2>4, <3>1 DEF OpenRun, LogRun, StoreTypeOK, Statuses
    <2>5. ASSUME NEW o \in Outcomes, LogPlan(r, o) PROVE TypeOK'
      <3>1. StoreTypeOK'
        BY <2>5, LogEventTypeOK DEF LogPlan, EventType
      <3> QED BY <2>5, <3>1 DEF LogPlan
    <2>6. ASSUME NEW o \in Outcomes, CloseFailed(r, o) PROVE TypeOK'
      <3>1. faults' \in 0..MaxFaults
        BY <2>6, CallTypeOK DEF CloseFailed, FinishRun
      <3> QED BY <2>6, <3>1 DEF CloseFailed, FinishRun, StoreTypeOK, Statuses, RunStatus
    <2>7. ASSUME NEW o \in Outcomes, CloseCompleted(r, o) PROVE TypeOK'
      <3>1. faults' \in 0..MaxFaults
        BY <2>7, CallTypeOK DEF CloseCompleted, FinishRun
      <3> QED BY <2>7, <3>1 DEF CloseCompleted, FinishRun, StoreTypeOK, Statuses, RunStatus
    <2>8. ASSUME NEW o \in Outcomes, LogVerification(r, o) PROVE TypeOK'
      <3>1. StoreTypeOK'
        BY <2>8, LogEventTypeOK DEF LogVerification, EventType
      <3> QED BY <2>8, <3>1 DEF LogVerification
    <2> QED BY <1>1, <2>1, <2>2, <2>3, <2>4, <2>5, <2>6, <2>7, <2>8 DEF Advance
  <1>2. ASSUME NEW r \in Runs, Client(r) PROVE TypeOK'
    BY <1>2 DEF Client, Ask, Reject, Disconnect, StoreTypeOK
  <1>3. ASSUME NEW r \in Runs, Judge(r) PROVE TypeOK'
    <2>1. CASE StartJudge(r)
      <3>1. queue' \in Seq(Runs)
        BY <2>1, HeadTailProperties DEF StartJudge
      <3> QED BY <1>3, <2>1, <3>1 DEF Judge, StartJudge, StoreTypeOK
    <2>2. CASE JudgeRaises(r)
      BY <1>3, <2>2 DEF Judge, JudgeRaises, StoreTypeOK
    <2>3. ASSUME NEW o \in Outcomes, ReportVerdict(r, log = "open", o) PROVE TypeOK'
      <3>1. StoreTypeOK'
        BY <2>3, LogEventTypeOK DEF ReportVerdict, EventType, Verdicts
      <3> QED BY <1>3, <2>3, <3>1 DEF Judge, ReportVerdict
    <2>4. ASSUME NEW o \in Outcomes, ReportFailure(r, log = "open", o) PROVE TypeOK'
      <3>1. StoreTypeOK'
        BY <2>4, LogEventTypeOK DEF ReportFailure, EventType, Verdicts
      <3> QED BY <1>3, <2>4, <3>1 DEF Judge, ReportFailure
    <2> QED BY <1>3, <2>1, <2>2, <2>3, <2>4 DEF Judge
  <1>4. ASSUME Process PROVE TypeOK'
    <2>1. CASE Shutdown \/ Start
      BY <2>1 DEF Shutdown, BeginShutdown, Drained, CloseLog, Exit, Start, StoreTypeOK
    <2>2. CASE Crash
      <3>1. queue' \in Seq(Runs)
        BY <2>2 DEF Crash, KillPool
      <3> QED BY <2>2, <3>1, CrashesAssumption DEF Crash, KillPool, StoreTypeOK
    <2>3. ASSUME NEW r \in Runs, CrashCli(r) PROVE TypeOK'
      BY <2>3, CrashesAssumption DEF CrashCli, StoreTypeOK
    <2> QED BY <1>4, <2>1, <2>2, <2>3 DEF Process
  <1>5. CASE UNCHANGED vars
    BY <1>5 DEF vars, StoreTypeOK
  <1> QED BY <1>1, <1>2, <1>3, <1>4, <1>5 DEF Next

THEOREM TypeCorrect == Spec => []TypeOK
  BY InitTypeOK, StepTypeOK, PTL DEF Spec

-----------------------------------------------------------------------------
(* IInv is inductive.                                                        *)

LEMMA InitIInv == Init => IInv
  <1> SUFFICES ASSUME Init PROVE IInv
    OBVIOUS
  <1>1. TypeOK
    BY InitTypeOK
  <1>2. ASSUME NEW r \in Runs PROVE Local(r)
    BY <1>2, TrailsDiffer
       DEF Init, StoreInit, PoolInit, Local, CallerAndRow, RowAndTrail,
           JudgeAndTrail, Closed, Ended, Verified
  <1>3. QueueAndJudge /\ ServerAndWork
    BY DEF Init, PoolInit, QueueAndJudge, ServerAndWork, PoolIdle, Running, InFlight
  <1> QED BY <1>1, <1>2, <1>3 DEF IInv

\* A step that leaves a run's own record alone keeps its part of the invariant:
\* the counts of faults and deaths only grow.
LEMMA Untouched ==
  ASSUME TypeOK, TypeOK', NEW s \in Runs, Local(s),
         pc'[s] = pc[s], status'[s] = status[s], events'[s] = events[s],
         judge'[s] = judge[s], mode' = mode, faults' >= faults, crashes' >= crashes
  PROVE  Local(s)'
  <1>1. faults \in Nat /\ faults' \in Nat /\ crashes \in Nat /\ crashes' \in Nat
    BY FaultsAssumption, CrashesAssumption DEF TypeOK, StoreTypeOK
  <1>2. (faults > 0 => faults' > 0) /\ (~Undisturbed => ~Undisturbed')
    BY <1>1 DEF Undisturbed
  <1> QED BY <1>2 DEF Local, CallerAndRow, RowAndTrail, JudgeAndTrail, Closed, Served

LEMMA StoreCall ==
  ASSUME TypeOK, NEW open, NEW o \in Outcomes, Call(open, o)
  PROVE  /\ faults' >= faults
         /\ faults' \in Nat
         /\ open /\ Raised(o) => faults' > 0
  BY FaultsAssumption DEF TypeOK, StoreTypeOK, Call, Raised, Outcomes

\* A run in flight finds its log open.
LEMMA CallerLogOpen ==
  ASSUME IInv, NEW r \in Runs, pc[r] \in InFlight
  PROVE  Open(r)
  BY DEF IInv, ServerAndWork, Open

LEMMA AdvanceLocal ==
  ASSUME IInv, TypeOK', NEW r \in Runs, Advance(r), NEW s \in Runs
  PROVE  Local(s)'
  <1> USE DEF IInv, TypeOK, StoreTypeOK, PoolTypeOK, Goto, envVars, storeVars, poolVars
  <1>1. CASE s # r
    <2>1. pc'[s] = pc[s] /\ judge'[s] = judge[s] /\ mode' = mode /\ crashes' >= crashes
      BY <1>1, CrashesAssumption
         DEF Advance, PlannerFails, VerifierFails, ReadBackFails, Answer, AnswerCli,
             OpenRun, LogPlan, CloseFailed, CloseCompleted, LogVerification, SubmitJudge
    <2>2. status'[s] = status[s] /\ events'[s] = events[s]
      BY <1>1 DEF Advance, PlannerFails, VerifierFails, ReadBackFails, Answer, AnswerCli,
             OpenRun, LogPlan, CloseFailed, CloseCompleted, LogVerification,
             LogRun, LogEvent, FinishRun, ReadFails
    <2>3. faults' >= faults
      <3>1. CASE faults' = faults
        BY <3>1, FaultsAssumption
      <3>2. ASSUME NEW open, NEW o \in Outcomes, Call(open, o) PROVE faults' >= faults
        BY <3>2, StoreCall
      <3> QED BY <3>1, <3>2
          DEF Advance, PlannerFails, VerifierFails, ReadBackFails, Answer, AnswerCli,
              OpenRun, LogPlan, CloseFailed, CloseCompleted, LogVerification,
              LogRun, LogEvent, FinishRun, ReadFails, Outcomes
    <2> QED BY <2>1, <2>2, <2>3, Untouched
  <1>2. CASE s = r
    <2> USE <1>2, TrailsGrow, TrailsDiffer
        DEF Local, CallerAndRow, RowAndTrail, JudgeAndTrail, Closed, Ended
    <2>1. CASE PlannerFails(r)
      BY <2>1 DEF PlannerFails, Served, Verified, Undisturbed
    <2>2. CASE ReadBackFails(r)
      <3>1. faults' >= faults /\ faults' \in Nat
        BY <2>2, StoreCall DEF ReadBackFails, ReadFails, Outcomes
      <3> QED BY <2>2, <3>1, FaultsAssumption
          DEF ReadBackFails, ReadFails, Served, Verified, Undisturbed
    <2>3. CASE Answer(r)
      BY <2>3 DEF Answer, SubmitJudge, Served, Verified, Undisturbed
    <2>4. ASSUME NEW o \in Outcomes, OpenRun(r, o) PROVE Local(r)'
      <3>1. faults' >= faults /\ faults' \in Nat /\ (Open(r) /\ Raised(o) => faults' > 0)
        BY <2>4, StoreCall DEF OpenRun, LogRun
      <3>2. Open(r)
        BY <2>4, CallerLogOpen DEF OpenRun, InFlight
      <3> QED BY <2>4, <3>1, <3>2, FaultsAssumption
          DEF OpenRun, LogRun, Committed, Raised, Served, Verified, Undisturbed
    <2>5. ASSUME NEW o \in Outcomes, LogPlan(r, o) PROVE Local(r)'
      <3>1. faults' >= faults /\ faults' \in Nat
        BY <2>5, StoreCall DEF LogPlan, LogEvent
      <3> QED BY <2>5, <3>1, FaultsAssumption
          DEF LogPlan, LogEvent, Committed, Raised, Served, Verified, Undisturbed
    <2>6. ASSUME NEW o \in Outcomes, CloseFailed(r, o) PROVE Local(r)'
      <3>1. faults' >= faults /\ faults' \in Nat /\ (Open(r) /\ Raised(o) => faults' > 0)
        BY <2>6, StoreCall DEF CloseFailed, FinishRun
      <3>2. Open(r)
        BY <2>6, CallerLogOpen DEF CloseFailed, InFlight
      <3> QED BY <2>6, <3>1, <3>2, FaultsAssumption
          DEF CloseFailed, FinishRun, Committed, Raised, Served, Verified, Undisturbed
    <2>7. ASSUME NEW o \in Outcomes, CloseCompleted(r, o) PROVE Local(r)'
      <3>1. faults' >= faults /\ faults' \in Nat /\ (Open(r) /\ Raised(o) => faults' > 0)
        BY <2>7, StoreCall DEF CloseCompleted, FinishRun
      <3>2. Open(r)
        BY <2>7, CallerLogOpen DEF CloseCompleted, InFlight
      <3> QED BY <2>7, <3>1, <3>2, FaultsAssumption
          DEF CloseCompleted, FinishRun, Committed, Raised, Served, Verified, Undisturbed
    <2>8. ASSUME NEW o \in Outcomes, LogVerification(r, o) PROVE Local(r)'
      <3>1. faults' >= faults /\ faults' \in Nat
        BY <2>8, StoreCall DEF LogVerification, LogEvent
      <3> QED BY <2>8, <3>1, FaultsAssumption
          DEF LogVerification, LogEvent, Committed, Raised, Served, Verified, Undisturbed
    <2>9. CASE VerifierFails(r)
      BY <2>9 DEF VerifierFails, Served, Verified, Undisturbed
    <2>10. CASE AnswerCli(r)
      BY <2>10 DEF AnswerCli, Served, Verified, Undisturbed
    <2> QED BY <2>1, <2>2, <2>3, <2>4, <2>5, <2>6, <2>7, <2>8, <2>9, <2>10 DEF Advance
  <1> QED BY <1>1, <1>2

LEMMA ClientLocal ==
  ASSUME IInv, TypeOK', NEW r \in Runs, Client(r), NEW s \in Runs
  PROVE  Local(s)'
  <1> USE DEF IInv, TypeOK, StoreTypeOK, PoolTypeOK, Goto, envVars, storeVars, poolVars,
              Client, Ask, Reject, Disconnect
  <1>1. CASE s # r
    <2>1. faults' >= faults /\ crashes' >= crashes
      BY FaultsAssumption, CrashesAssumption
    <2> QED BY <1>1, <2>1, Untouched
  <1>2. CASE s = r
    BY <1>2, TrailsDiffer
       DEF Local, CallerAndRow, RowAndTrail, JudgeAndTrail, Closed, Ended, Served,
           Verified, Undisturbed
  <1> QED BY <1>1, <1>2

LEMMA JudgeLocal ==
  ASSUME IInv, TypeOK', NEW r \in Runs, Judge(r), NEW s \in Runs
  PROVE  Local(s)'
  <1> USE DEF IInv, TypeOK, StoreTypeOK, PoolTypeOK, Judge, runVars, storeVars
  <1>1. CASE s # r
    <2>1. pc'[s] = pc[s] /\ mode' = mode /\ crashes' >= crashes
      BY CrashesAssumption
    <2>2. judge'[s] = judge[s] /\ status'[s] = status[s] /\ events'[s] = events[s]
      BY <1>1 DEF StartJudge, JudgeRaises, ReportVerdict, ReportFailure, LogEvent
    <2>3. faults' >= faults
      <3>1. CASE faults' = faults
        BY <3>1, FaultsAssumption
      <3>2. ASSUME NEW open, NEW o \in Outcomes, Call(open, o) PROVE faults' >= faults
        BY <3>2, StoreCall
      <3> QED BY <3>1, <3>2
          DEF StartJudge, JudgeRaises, ReportVerdict, ReportFailure, LogEvent
    <2> QED BY <2>1, <2>2, <2>3, Untouched
  <1>2. CASE s = r
    <2> USE <1>2, TrailsGrow, TrailsDiffer
        DEF Local, CallerAndRow, RowAndTrail, JudgeAndTrail, Closed, Ended, Served,
            Verified, Undisturbed
    <2>1. CASE StartJudge(r)
      <3>1. judge[r] = "queued"
        BY <2>1 DEF StartJudge, QueueAndJudge
      <3> QED BY <2>1, <3>1 DEF StartJudge
    <2>2. CASE JudgeRaises(r)
      BY <2>2 DEF JudgeRaises
    <2>3. ASSUME NEW o \in Outcomes, ReportVerdict(r, log = "open", o) PROVE Local(r)'
      <3>1. /\ faults' >= faults /\ faults' \in Nat
            /\ log = "open" /\ Raised(o) => faults' > 0
        BY <2>3, StoreCall DEF ReportVerdict, LogEvent
      <3>2. log = "open"
        BY <2>3 DEF ReportVerdict, ServerAndWork, PoolIdle, Running
      <3> QED BY <2>3, <3>1, <3>2, FaultsAssumption
          DEF ReportVerdict, LogEvent, Committed, Raised
    <2>4. ASSUME NEW o \in Outcomes, ReportFailure(r, log = "open", o) PROVE Local(r)'
      <3>1. faults' >= faults /\ faults' \in Nat
        BY <2>4, StoreCall DEF ReportFailure, LogEvent
      <3>2. /\ judge[r] = "excusing" /\ judge'[r] = "finished" /\ status' = status
            /\ events'[r] \in {events[r], Append(events[r], "JUDGE_ERROR")}
        BY <2>4 DEF ReportFailure, LogEvent
      <3>3. \/ events[r] = PV /\ Append(events[r], "JUDGE_ERROR") = PVE
            \/ events[r] = PVJ /\ Append(events[r], "JUDGE_ERROR") = PVJE /\ faults > 0
        BY <3>2
      <3>4. /\ events'[r] \in {PV, PVE, PVJ, PVJE}
            /\ events'[r] \in {PVJ, PVJE} => faults > 0
        BY <3>2, <3>3
      <3>5. CallerAndRow(r)' /\ RowAndTrail(r)' /\ Closed(r)'
        BY <3>1, <3>2, <3>3, <3>4
      <3>6. faults > 0 => faults' > 0
        BY <3>1, FaultsAssumption
      <3>7. JudgeAndTrail(r)'
        BY <3>2, <3>4, <3>6
      <3> QED BY <3>5, <3>7
    <2> QED BY <2>1, <2>2, <2>3, <2>4
  <1> QED BY <1>1, <1>2

LEMMA ProcessLocal ==
  ASSUME IInv, TypeOK', Process, NEW s \in Runs
  PROVE  Local(s)'
  <1> USE DEF IInv, TypeOK, StoreTypeOK, PoolTypeOK, storeVars, poolVars, Goto
  <1>1. CASE Shutdown \/ Start
    <2>1. /\ pc' = pc /\ judge' = judge /\ status' = status /\ events' = events
          /\ mode' = mode /\ faults' >= faults /\ crashes' >= crashes
      BY <1>1, FaultsAssumption, CrashesAssumption
         DEF Shutdown, BeginShutdown, Drained, CloseLog, Exit, Start
    <2> QED BY <2>1, Untouched
  <1>2. CASE Crash
    <2>1. ~Undisturbed'
      BY <1>2, CrashesAssumption DEF Crash, Undisturbed
    <2> QED BY <1>2, <2>1, TrailsDiffer
        DEF Crash, KillPool, Local, CallerAndRow, RowAndTrail, JudgeAndTrail, Closed,
            Ended, Served, Verified, InFlight, Running
  <1>3. ASSUME NEW r \in Runs, CrashCli(r) PROVE Local(s)'
    <2>1. ~Undisturbed' /\ faults' >= faults /\ crashes' >= crashes
      BY <1>3, FaultsAssumption, CrashesAssumption DEF CrashCli, Undisturbed
    <2>2. CASE s # r
      BY <1>3, <2>1, <2>2, Untouched DEF CrashCli
    <2>3. CASE s = r
      BY <1>3, <2>1, <2>3, TrailsDiffer
         DEF CrashCli, Local, CallerAndRow, RowAndTrail, JudgeAndTrail, Closed,
             Ended, Served, Verified, InFlight
    <2> QED BY <2>2, <2>3
  <1> QED BY <1>1, <1>2, <1>3 DEF Process

\* A submitted run was not in the queue before; starting the head leaves the
\* others waiting.
LEMMA StepQueue ==
  ASSUME IInv, [Next]_vars
  PROVE  QueueAndJudge'
  <1> USE DEF IInv, TypeOK, PoolTypeOK, QueueAndJudge
  <1>1. CASE queue' = queue /\ \A r \in Runs : judge[r] = "queued" => judge'[r] = "queued"
    BY <1>1
  <1>2. ASSUME NEW r \in Runs, Answer(r) PROVE QueueAndJudge'
    <2>1. judge[r] = "none"
      BY <1>2, TrailsDiffer DEF Answer, Local, JudgeAndTrail
    <2>2. \A i \in DOMAIN queue : queue[i] # r
      BY <2>1
    <2>3. /\ queue' = Append(queue, r) /\ queue \in Seq(Runs)
          /\ judge' = [judge EXCEPT ![r] = "queued"]
      BY <1>2 DEF Answer, SubmitJudge
    <2>4. /\ DOMAIN queue' = 1..(Len(queue) + 1) /\ queue'[Len(queue) + 1] = r
          /\ \A i \in 1..Len(queue) : queue'[i] = queue[i]
          /\ DOMAIN queue = 1..Len(queue) /\ Len(queue) \in Nat
      BY <2>3, AppendProperties
    <2> QED BY <2>2, <2>3, <2>4
  <1>3. ASSUME NEW r \in Runs, StartJudge(r) PROVE QueueAndJudge'
    <2>1. /\ queue # <<>> /\ queue \in Seq(Runs) /\ r = queue[1]
          /\ queue' = Tail(queue)
          /\ judge' = [judge EXCEPT ![r] = "investigating"]
      BY <1>3 DEF StartJudge
    <2>2. /\ DOMAIN queue' = 1..(Len(queue) - 1)
          /\ \A i \in 1..(Len(queue) - 1) : queue'[i] = queue[i + 1]
          /\ DOMAIN queue = 1..Len(queue) /\ Len(queue) \in Nat \ {0}
      BY <2>1, HeadTailProperties
    <2>3. \A i \in 1..(Len(queue) - 1) : queue[i + 1] # r
      BY <2>1, <2>2
    <2> QED BY <2>1, <2>2, <2>3
  <1>4. CASE Crash
    BY <1>4 DEF Crash, KillPool
  <1>5. ASSUME NEW r \in Runs, Judge(r) PROVE QueueAndJudge'
    BY <1>1, <1>3, <1>5 DEF Judge, JudgeRaises, ReportVerdict, ReportFailure
  <1>6. ASSUME NEW r \in Runs, Advance(r) PROVE QueueAndJudge'
    BY <1>1, <1>2, <1>6
       DEF Advance, PlannerFails, VerifierFails, ReadBackFails, AnswerCli, OpenRun,
           LogPlan, CloseFailed, CloseCompleted, LogVerification, poolVars
  <1>7. ASSUME NEW r \in Runs, Client(r) PROVE QueueAndJudge'
    BY <1>1, <1>7 DEF Client, Ask, Reject, Disconnect, poolVars
  <1>8. CASE Process
    BY <1>1, <1>4, <1>8
       DEF Process, Shutdown, BeginShutdown, Drained, CloseLog, Exit, Start, CrashCli, poolVars
  <1>9. CASE UNCHANGED vars
    BY <1>1, <1>9 DEF vars
  <1> QED BY <1>5, <1>6, <1>7, <1>8, <1>9 DEF Next

LEMMA StepServer ==
  ASSUME IInv, [Next]_vars
  PROVE  ServerAndWork'
  <1> USE DEF IInv, TypeOK, PoolTypeOK, ServerAndWork, PoolIdle, Served, Goto, InFlight
  <1>1. ASSUME NEW r \in Runs, Advance(r) PROVE ServerAndWork'
    <2>1. server' = server /\ log' = log /\ mode' = mode
      BY <1>1 DEF Advance, PlannerFails, VerifierFails, ReadBackFails, Answer, AnswerCli,
             OpenRun, LogPlan, CloseFailed, CloseCompleted, LogVerification, envVars
    <2>2. pc[r] \in InFlight /\ \A s \in Runs : s # r => pc'[s] = pc[s]
      BY <1>1 DEF Advance, PlannerFails, VerifierFails, ReadBackFails, Answer, AnswerCli,
             OpenRun, LogPlan, CloseFailed, CloseCompleted, LogVerification
    <2>3. judge' = judge \/ (server = "up" /\ Answer(r))
      BY <1>1 DEF Advance, PlannerFails, VerifierFails, ReadBackFails, Answer, AnswerCli,
             OpenRun, LogPlan, CloseFailed, CloseCompleted, LogVerification, poolVars
    <2> QED BY <2>1, <2>2, <2>3
  <1>2. ASSUME NEW r \in Runs, Client(r) PROVE ServerAndWork'
    BY <1>2 DEF Client, Ask, Reject, Disconnect, envVars, poolVars
  <1>3. ASSUME NEW r \in Runs, Judge(r) PROVE ServerAndWork'
    <2>1. judge[r] \in Running \cup {"queued"}
      BY <1>3 DEF Judge, StartJudge, JudgeRaises, ReportVerdict, ReportFailure,
                  QueueAndJudge, Running
    <2> QED BY <1>3, <2>1 DEF Judge, runVars
  <1>4. CASE Process
    <2>1. CASE Shutdown \/ Start
      BY <2>1 DEF Shutdown, BeginShutdown, Drained, CloseLog, Exit, Start, poolVars
    <2>2. CASE Crash
      BY <2>2 DEF Crash, KillPool, Running
    <2>3. ASSUME NEW r \in Runs, CrashCli(r) PROVE ServerAndWork'
      BY <2>3 DEF CrashCli, poolVars
    <2> QED BY <1>4, <2>1, <2>2, <2>3 DEF Process
  <1>5. CASE UNCHANGED vars
    BY <1>5 DEF vars
  <1> QED BY <1>1, <1>2, <1>3, <1>4, <1>5 DEF Next

LEMMA StepIInv == IInv /\ [Next]_vars => IInv'
  <1> SUFFICES ASSUME IInv, [Next]_vars PROVE IInv'
    OBVIOUS
  <1>1. TypeOK'
    BY StepTypeOK DEF IInv
  <1>2. ASSUME NEW s \in Runs PROVE Local(s)'
    <2>1. CASE UNCHANGED vars
      <3>1. faults' >= faults /\ crashes' >= crashes
        BY <2>1, FaultsAssumption, CrashesAssumption DEF vars, IInv, TypeOK, StoreTypeOK
      <3> QED BY <1>1, <2>1, <3>1, Untouched DEF vars, IInv
    <2> QED BY <1>1, <2>1, AdvanceLocal, ClientLocal, JudgeLocal, ProcessLocal DEF Next
  <1> QED BY <1>1, <1>2, StepQueue, StepServer DEF IInv

LEMMA Invariance == Spec => []IInv
  BY InitIInv, StepIInv, PTL DEF Spec

-----------------------------------------------------------------------------

\* For any number of runs, workers, faults and deaths: a COMPLETED run has its
\* plan in the store.
THEOREM CompletedRunsHavePlans == Spec => []CompletedHasPlan
  <1>1. IInv => CompletedHasPlan
    BY LoggedInTrails DEF IInv, Local, RowAndTrail, CompletedHasPlan
  <1> QED BY <1>1, Invariance, PTL

\* The events of a run appear in pipeline order, and verification only on a
\* COMPLETED run.
THEOREM EventsFollowThePipeline == Spec => []PipelineOrder
  <1>1. IInv => PipelineOrder
    <2> SUFFICES ASSUME IInv, NEW r \in Runs
                 PROVE  /\ events[r] \in Trails
                        /\ Logged(events[r], "VERIFICATION") => status[r] = "COMPLETED"
                        /\ Len(events[r]) = 4 => faults > 0
      BY DEF PipelineOrder
    <2>1. {<<>>, P} \cup Verified \subseteq Trails
      BY DEF Trails, Verified, Verdicts, P, PV, PVJ, PVE, PVJE
    <2>2. Len(events[r]) = 4 => events[r] = PVJE
      <3>1. events[r] \in {<<>>, P, PV, PVJ, PVE, PVJE}
        BY DEF IInv, Local, RowAndTrail, Verified
      <3>2. /\ Len(<<>>) # 4 /\ Len(P) # 4 /\ Len(PV) # 4
            /\ Len(PVJ) # 4 /\ Len(PVE) # 4
        BY TrailLengths
      <3> QED BY <3>1, <3>2, Zenon
    <2>3. Logged(events[r], "VERIFICATION") => events[r] \in Verified
      BY LoggedInTrails DEF IInv, Local, RowAndTrail
    <2> QED BY <2>1, <2>2, <2>3 DEF IInv, Local, RowAndTrail, JudgeAndTrail
  <1> QED BY <1>1, Invariance, PTL

\* A client is answered exactly when its run's judge is scheduled, and only after
\* the verification is stored.
THEOREM AnswersScheduleJudges == Spec => []AnsweredIffJudgeScheduled
  <1>1. IInv => AnsweredIffJudgeScheduled
    BY LoggedInTrails
       DEF IInv, Local, CallerAndRow, JudgeAndTrail, AnsweredIffJudgeScheduled
  <1> QED BY <1>1, Invariance, PTL

\* A run whose request ended has a closed row unless a store call raised or the
\* process died.
THEOREM EndedRunsAreClosed == Spec => []EndedRunIsClosed
  <1>1. IInv => EndedRunIsClosed
    BY DEF IInv, Local, Closed, EndedRunIsClosed
  <1> QED BY <1>1, Invariance, PTL

\* However shutdown, requests, judges and crashes interleave, the log is never
\* closed under a request or a judge.
THEOREM LogOutlivesItsUsers == Spec => []LogOpenWhileInUse
  <1>1. IInv => LogOpenWhileInUse
    BY DEF IInv, TypeOK, ServerAndWork, LogOpenWhileInUse
  <1> QED BY <1>1, Invariance, PTL

-----------------------------------------------------------------------------
(* Refinement of RunRecord.                                                  *)

LEMMA InitRecord == Init => Record!Init
  BY DEF Init, StoreInit, Record!Init

LEMMA StepRecord ==
  ASSUME IInv, [Next]_vars
  PROVE  [Record!Next]_<<status, events>>
  <1> USE DEF IInv, TypeOK, StoreTypeOK
  <1>1. ASSUME NEW r \in Runs, Advance(r) PROVE [Record!Next]_<<status, events>>
    <2>1. CASE UNCHANGED <<status, events>>
      BY <2>1
    <2>2. ASSUME NEW o \in Outcomes, OpenRun(r, o) PROVE [Record!Next]_<<status, events>>
      <3>1. Record!Open(r) \/ UNCHANGED <<status, events>>
        BY <2>2 DEF OpenRun, LogRun, Local, CallerAndRow, Record!Open
      <3> QED BY <3>1 DEF Record!Next
    <2>3. ASSUME NEW o \in Outcomes, LogPlan(r, o) PROVE [Record!Next]_<<status, events>>
      <3>1. status[r] = "running" /\ events[r] = <<>>
        BY <2>3 DEF LogPlan, Local, CallerAndRow
      <3>2. events' = [events EXCEPT ![r] = P] \/ events' = events
        BY <2>3, <3>1, TrailsGrow DEF LogPlan, LogEvent
      <3>3. Record!Plan(r) \/ UNCHANGED <<status, events>>
        BY <2>3, <3>1, <3>2 DEF LogPlan, LogEvent, Record!Plan, P
      <3> QED BY <3>3 DEF Record!Next
    <2>4. ASSUME NEW o \in Outcomes, CloseFailed(r, o) PROVE [Record!Next]_<<status, events>>
      <3>1. Record!Fail(r) \/ UNCHANGED <<status, events>>
        BY <2>4 DEF CloseFailed, FinishRun, Local, CallerAndRow, Record!Fail
      <3> QED BY <3>1 DEF Record!Next
    <2>5. ASSUME NEW o \in Outcomes, CloseCompleted(r, o) PROVE [Record!Next]_<<status, events>>
      <3>1. Record!Complete(r) \/ UNCHANGED <<status, events>>
        BY <2>5 DEF CloseCompleted, FinishRun, Local, CallerAndRow, Record!Complete, P
      <3> QED BY <3>1 DEF Record!Next
    <2>6. ASSUME NEW o \in Outcomes, LogVerification(r, o)
          PROVE [Record!Next]_<<status, events>>
      <3>1. status[r] = "COMPLETED" /\ events[r] = P
        BY <2>6 DEF LogVerification, Local, CallerAndRow
      <3>2. events' = [events EXCEPT ![r] = PV] \/ events' = events
        BY <2>6, <3>1, TrailsGrow DEF LogVerification, LogEvent
      <3>3. Record!Verify(r) \/ UNCHANGED <<status, events>>
        BY <2>6, <3>1, <3>2 DEF LogVerification, LogEvent, Record!Verify, P, PV
      <3> QED BY <3>3 DEF Record!Next
    <2> QED BY <1>1, <2>1, <2>2, <2>3, <2>4, <2>5, <2>6
        DEF Advance, PlannerFails, VerifierFails, ReadBackFails, ReadFails, Answer,
            AnswerCli, storeVars
  <1>2. ASSUME NEW r \in Runs, Judge(r) PROVE [Record!Next]_<<status, events>>
    <2>1. CASE StartJudge(r) \/ JudgeRaises(r)
      BY <2>1 DEF StartJudge, JudgeRaises, storeVars
    <2>2. ASSUME NEW o \in Outcomes, ReportVerdict(r, log = "open", o)
          PROVE [Record!Next]_<<status, events>>
      <3>1. events[r] = <<"PLAN", "VERIFICATION">>
        BY <2>2 DEF ReportVerdict, Local, JudgeAndTrail, PV
      <3>2. Record!Report(r, "JUDGE") \/ UNCHANGED <<status, events>>
        BY <2>2, <3>1 DEF ReportVerdict, LogEvent, Record!Report
      <3> QED BY <3>2 DEF Record!Next, Record!Verdicts
    <2>3. ASSUME NEW o \in Outcomes, ReportFailure(r, log = "open", o)
          PROVE [Record!Next]_<<status, events>>
      <3>1. events[r] = <<"PLAN", "VERIFICATION">>
              \/ events[r] = <<"PLAN", "VERIFICATION", "JUDGE">>
        BY <2>3 DEF ReportFailure, Local, JudgeAndTrail, PV, PVJ
      <3>2. \/ Record!Report(r, "JUDGE_ERROR")
            \/ Record!Amend(r)
            \/ UNCHANGED <<status, events>>
        BY <2>3, <3>1 DEF ReportFailure, LogEvent, Record!Report, Record!Amend
      <3> QED BY <3>2 DEF Record!Next, Record!Verdicts
    <2> QED BY <1>2, <2>1, <2>2, <2>3 DEF Judge
  <1>3. CASE Process \/ UNCHANGED vars
    BY <1>3 DEF Process, Shutdown, BeginShutdown, Drained, CloseLog, Exit, Crash, Start,
                CrashCli, storeVars, vars
  <1>4. ASSUME NEW r \in Runs, Client(r) PROVE [Record!Next]_<<status, events>>
    BY <1>4 DEF Client, Ask, Reject, Disconnect, storeVars
  <1> QED BY <1>1, <1>2, <1>3, <1>4 DEF Next

\* The provenance rows and events behave as RunRecord promises.
THEOREM RecordIsImplemented == Spec => ImplementsRecord
  BY InitRecord, StepRecord, Invariance, PTL DEF Spec, ImplementsRecord, Record!Spec

-----------------------------------------------------------------------------
(* The judge status only moves forward.                                      *)

\* How one step may change the events of a run.
LEMMA StepTrail ==
  ASSUME IInv, [Next]_vars, NEW s \in Runs
  PROVE  \/ events'[s] = events[s]
         \/ events[s] = <<>> /\ events'[s] = P
         \/ events[s] = P /\ events'[s] = PV
         \/ events[s] = PV /\ events'[s] \in {PVJ, PVE}
         \/ events[s] = PVJ /\ events'[s] = PVJE /\ faults > 0
  <1> USE DEF IInv, TypeOK, StoreTypeOK
  <1>1. ASSUME NEW r \in Runs, NEW o \in Outcomes, LogPlan(r, o)
        PROVE  events'[s] = events[s] \/ (events[s] = <<>> /\ events'[s] = P)
    BY <1>1, TrailsGrow DEF LogPlan, LogEvent, Local, CallerAndRow
  <1>2. ASSUME NEW r \in Runs, NEW o \in Outcomes, LogVerification(r, o)
        PROVE  events'[s] = events[s] \/ (events[s] = P /\ events'[s] = PV)
    BY <1>2, TrailsGrow DEF LogVerification, LogEvent, Local, CallerAndRow
  <1>3. ASSUME NEW r \in Runs, NEW o \in Outcomes, ReportVerdict(r, log = "open", o)
        PROVE  events'[s] = events[s] \/ (events[s] = PV /\ events'[s] = PVJ)
    BY <1>3, TrailsGrow DEF ReportVerdict, LogEvent, Local, JudgeAndTrail
  <1>4. ASSUME NEW r \in Runs, NEW o \in Outcomes, ReportFailure(r, log = "open", o)
        PROVE  \/ events'[s] = events[s]
               \/ events[s] = PV /\ events'[s] = PVE
               \/ events[s] = PVJ /\ events'[s] = PVJE /\ faults > 0
    BY <1>4, TrailsGrow DEF ReportFailure, LogEvent, Local, JudgeAndTrail
  <1>5. ASSUME NEW r \in Runs, Advance(r)
        PROVE  events' = events \/ \E o \in Outcomes : LogPlan(r, o) \/ LogVerification(r, o)
    BY <1>5 DEF Advance, PlannerFails, VerifierFails, ReadBackFails, ReadFails, Answer,
                AnswerCli, OpenRun, LogRun, CloseFailed, CloseCompleted, FinishRun, storeVars
  <1>6. ASSUME NEW r \in Runs, Judge(r)
        PROVE  events' = events \/ \E o \in Outcomes : \/ ReportVerdict(r, log = "open", o)
                                                      \/ ReportFailure(r, log = "open", o)
    BY <1>6 DEF Judge, StartJudge, JudgeRaises, storeVars
  <1>7. ASSUME NEW r \in Runs, Client(r) PROVE events' = events
    BY <1>7 DEF Client, Ask, Reject, Disconnect, storeVars
  <1>8. CASE Process \/ UNCHANGED vars
    BY <1>8 DEF Process, Shutdown, BeginShutdown, Drained, CloseLog, Exit, Crash, Start,
                CrashCli, storeVars, vars
  <1> QED BY <1>1, <1>2, <1>3, <1>4, <1>5, <1>6, <1>7, <1>8 DEF Next

\* No step takes a judge status back, and a completed judge fails afterwards only
\* if a store call raised.
THEOREM JudgeStatusesAdvance == Spec => JudgeStatusAdvances
  <1> DEFINE Advances ==
        \A r \in Runs :
          LET before == JudgeStatus(events[r])
              after  == JudgeStatus(events'[r])
          IN  /\ Rank[before] <= Rank[after]
              /\ before = "completed" /\ after = "failed" => faults > 0
  <1>1. ASSUME IInv, [Next]_vars PROVE Advances
    <2> SUFFICES ASSUME NEW r \in Runs
                 PROVE  /\ Rank[JudgeStatus(events[r])] <= Rank[JudgeStatus(events'[r])]
                        /\ JudgeStatus(events[r]) = "completed"
                             /\ JudgeStatus(events'[r]) = "failed" => faults > 0
      OBVIOUS
    <2>1. events[r] \in {<<>>, P, PV, PVJ, PVE, PVJE}
      BY <1>1 DEF IInv, Local, RowAndTrail, Verified
    <2>2. /\ Rank["not_started"] = 0 /\ Rank["running"] = 1
          /\ Rank["completed"] = 2 /\ Rank["failed"] = 3
      BY DEF Rank
    <2>3. CASE events'[r] = events[r]
      BY <2>1, <2>2, <2>3, JudgeStatusOfTrails
    <2>4. CASE events'[r] # events[r]
      BY <1>1, <2>2, <2>4, StepTrail, JudgeStatusOfTrails
    <2> QED BY <2>3, <2>4
  <1>2. IInv /\ [Next]_vars => [Advances]_vars
    BY <1>1
  <1> QED BY <1>2, Invariance, PTL DEF Spec, JudgeStatusAdvances
==============================================================================
