----------------------------- MODULE JudgeProofs ------------------------------
(***************************************************************************)
(* The judge's loop is well-formed and, but for rounds that query nothing,    *)
(* bounded, for every attempt budget, batch size and recursion limit that      *)
(* leaves room for the budget.                                              *)
(***************************************************************************)
EXTENDS JudgeGraph, TLAPS

LEMMA Budgets ==
  /\ MaxSqlAttempts \in Nat /\ MaxSqlAttempts > 0
  /\ MaxBatch \in Nat /\ MaxBatch > 0
  /\ RecursionLimit \in Nat /\ RecursionLimit >= 2 * MaxSqlAttempts + 5
  BY JudgeAssumption

LEMMA Sizes ==
  ASSUME NEW c \in Replies
  PROVE  /\ c.query \in 0..MaxBatch /\ c.unknown \in 0..MaxBatch
         /\ Size(c) \in 0..MaxBatch
         /\ c.query <= Size(c)
  BY Budgets DEF Replies, Size

Stage ==
  /\ pc \in {"list_tables", "get_schemas", "present_plan"} => open = 0 /\ attempts = 0
  /\ pc = "investigate" => last # "calls" /\ open = 0
  /\ pc = "run_query" => open = Size(latest) /\ attempts < MaxSqlAttempts
  /\ pc = "emit_verdict" => open = 0

Taken(p) ==
  CASE p = "list_tables" -> 0
    [] p = "get_schemas" -> 1
    [] p = "present_plan" -> 2
    [] p = "investigate" -> 3
    [] p \in {"run_query", "emit_verdict"} -> 4

\* Until a round is idle, each round of two supersteps adds an attempt.
StepCount ==
  idle = 0 => /\ pc # "END" => /\ steps <= 2 * attempts + Taken(pc)
                              /\ steps <= 2 * MaxSqlAttempts + Taken(pc)
              /\ outcome # "recursion"

Finished == pc = "END" <=> outcome # "none"

Inv == TypeOK /\ Stage /\ StepCount /\ Finished

LEMMA InitInv == Init => Inv
  BY Budgets DEF Init, Inv, TypeOK, Stage, StepCount, Taken, Finished, Nodes, Replies

LEMMA StepInv == Inv /\ [Next]_vars => Inv'
<1>. SUFFICES ASSUME Inv, [Next]_vars
              PROVE  Inv'
  OBVIOUS
<1>. USE Budgets DEF Inv, TypeOK, Stage, StepCount, Taken, Finished, Nodes, chat
<1>1. CASE ListTables
  BY <1>1 DEF ListTables, Superstep, Goto
<1>2. CASE GetSchemas
  BY <1>2 DEF GetSchemas, Superstep, Goto
<1>3. CASE PresentPlan
  BY <1>3 DEF PresentPlan, Superstep, Goto
<1>4. CASE Investigate
  <2>1. /\ pc = "investigate" /\ outcome = "none"
        /\ last # "calls" /\ open = 0
        /\ steps < RecursionLimit /\ steps' = steps + 1
        /\ UNCHANGED <<attempts, idle>>
    BY <1>4 DEF Investigate, Superstep
  <2>2. PICK reply \in Replies :
          /\ attempts >= MaxSqlAttempts => Size(reply) = 0
          /\ IF Size(reply) = 0 THEN UNCHANGED <<last, latest, open>>
             ELSE last' = "calls" /\ latest' = reply /\ open' = open + Size(reply)
          /\ Goto(Route(IF Size(reply) = 0 THEN last ELSE "calls"))
    BY <1>4 DEF Investigate, Investigated
  <2>3. CASE Size(reply) = 0
    <3>1. /\ UNCHANGED <<last, latest, open, outcome>>
          /\ pc' = "emit_verdict"
      BY <2>1, <2>2, <2>3 DEF Goto, Route
    <3>2. idle = 0 => steps <= 2 * attempts + 3 /\ steps <= 2 * MaxSqlAttempts + 3
      BY <2>1
    <3>3. idle = 0 => steps' <= 2 * attempts + 4 /\ steps' <= 2 * MaxSqlAttempts + 4
      BY <2>1, <3>2
    <3>. QED
      BY <2>1, <3>1, <3>3
  <2>4. CASE Size(reply) # 0
    <3>1. Size(reply) \in 1..MaxBatch /\ attempts < MaxSqlAttempts
      BY <2>2, <2>4, Sizes
    <3>2. /\ last' = "calls" /\ latest' = reply /\ open' = Size(reply)
          /\ pc' = "run_query" /\ outcome' = outcome
      BY <2>1, <2>2, <2>4, <3>1 DEF Goto, Route
    <3>. QED
      BY <2>1, <3>1, <3>2
  <2>. QED
    BY <2>3, <2>4
<1>5. CASE RunQuery
  <2>1. /\ pc = "run_query" /\ attempts < MaxSqlAttempts /\ open = Size(latest)
        /\ latest.query \in 0..MaxBatch
        /\ steps < RecursionLimit /\ steps' = steps + 1
        /\ pc' = "investigate" /\ outcome = "none" /\ outcome' = "none"
        /\ last' = "result" /\ open' = 0 /\ latest' = latest
        /\ attempts' = attempts + latest.query
        /\ idle' = IF latest.query = 0 THEN idle + 1 ELSE idle
    BY <1>5, Sizes DEF RunQuery, Superstep, Goto
  <2>2. idle' = 0 => idle = 0 /\ latest.query >= 1
    BY <2>1
  <2>. QED
    BY <2>1, <2>2
<1>6. CASE EmitVerdict
  BY <1>6 DEF EmitVerdict, Superstep
<1>7. CASE NodeRaises
  BY <1>7 DEF NodeRaises, Superstep
<1>8. CASE OutOfSteps
  <2>1. idle # 0
    BY <1>8 DEF OutOfSteps
  <2>. QED
    BY <1>8, <2>1 DEF OutOfSteps
<1>9. CASE UNCHANGED vars
  BY <1>9 DEF vars
<1>. QED
  BY <1>1, <1>2, <1>3, <1>4, <1>5, <1>6, <1>7, <1>8, <1>9 DEF Next

LEMMA Invariance == Spec => []Inv
  BY InitInv, StepInv, PTL DEF Spec

\* The judge's state keeps its type: in particular a batch takes the attempts past
\* the budget by MaxBatch - 1 at most.
THEOREM JudgeTypeCorrect == Spec => []TypeOK
<1>1. Inv => TypeOK
  BY DEF Inv
<1>. QED
  BY <1>1, Invariance, PTL

\* No model call ever sees a tool call without its result, whatever tools the
\* model names and however many at once.
THEOREM JudgeAnswersCalls == Spec => []EveryCallAnswered
<1>1. Inv => EveryCallAnswered
  BY DEF Inv, Stage, EveryCallAnswered
<1>. QED
  BY <1>1, Invariance, PTL

\* A judge that queries in every round ends before 2 * MaxSqlAttempts + 5 supersteps:
\* the recursion limit only ends those that had a round without a query.
THEOREM OnlyIdleJudgesRunOut == Spec => []OnlyIdleRoundsRunOut
<1>1. Inv => OnlyIdleRoundsRunOut
  BY DEF Inv, TypeOK, StepCount, OnlyIdleRoundsRunOut
<1>. QED
  BY <1>1, Invariance, PTL

-----------------------------------------------------------------------------
(* Refinement of SqlBudget.                                                  *)

LEMMA StepBudget ==
  ASSUME Inv, [Next]_vars
  PROVE  [Loop!Query \/ Loop!Answer \/ Loop!GiveUp]_<<attempts, Asking[outcome]>>
<1>. USE DEF Inv
<1>1. CASE RunQuery
  <2>1. /\ attempts \in Nat /\ attempts < MaxSqlAttempts
        /\ latest.query \in 0..MaxBatch
        /\ attempts' = attempts + latest.query
        /\ outcome = "none" /\ outcome' = "none"
    BY <1>1, Budgets, Sizes DEF RunQuery, Superstep, Goto, TypeOK, Stage, Finished
  <2>2. CASE latest.query = 0
    BY <2>1, <2>2
  <2>3. CASE latest.query # 0
    <3>1. attempts' \in (attempts + 1)..(attempts + MaxBatch)
      BY <2>1, <2>3, Budgets
    <3>2. Loop!Query
      BY <2>1, <3>1 DEF Loop!Query, Asking
    <3>. QED
      BY <3>2
  <2>. QED
    BY <2>2, <2>3
<1>2. CASE EmitVerdict
  <2>1. /\ attempts' = attempts /\ outcome = "none" /\ outcome' = "verdict"
    BY <1>2 DEF EmitVerdict, Superstep, Finished
  <2>2. Loop!Answer
    BY <2>1 DEF Loop!Answer, Asking
  <2>. QED
    BY <2>2
<1>3. CASE NodeRaises \/ OutOfSteps
  <2>1. /\ attempts' = attempts /\ outcome = "none" /\ outcome' \in {"raised", "recursion"}
    BY <1>3 DEF NodeRaises, OutOfSteps, Superstep, Finished, Nodes
  <2>2. Loop!GiveUp
    BY <2>1 DEF Loop!GiveUp, Asking
  <2>. QED
    BY <2>2
<1>4. CASE ListTables \/ GetSchemas \/ PresentPlan \/ Investigate \/ UNCHANGED vars
  <2>1. UNCHANGED <<attempts, outcome>>
    BY <1>4 DEF ListTables, GetSchemas, PresentPlan, Investigate, Investigated, Goto, vars
  <2>. QED
    BY <2>1
<1>. QED
  BY <1>1, <1>2, <1>3, <1>4 DEF Next

\* The judge keeps the promise of SqlBudget, with batches: none starts once the
\* budget is used.
THEOREM JudgeKeepsBudget == Spec => ImplementsBudget
<1>1. Init => Loop!Init
  BY DEF Init, Loop!Init, Asking
<1>. QED
  BY <1>1, StepBudget, Invariance, PTL DEF Spec, ImplementsBudget, Loop!Spec
=============================================================================
