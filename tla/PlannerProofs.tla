---------------------------- MODULE PlannerProofs -----------------------------
(***************************************************************************)
(* The planner's loop is bounded and well-formed for every attempt budget,   *)
(* recursion limit that leaves room for it, batch size and number of claims.  *)
(***************************************************************************)
EXTENDS PlannerGraph, TLAPS

\* Where the graph stands decides which calls are open and how many supersteps
\* were taken: at most three for each attempt, as calls of sql_db_query at the schema
\* node are attempts without a round of their own.
Stage ==
  /\ pc \in {"list_tables", "call_get_schema"} =>
       last = "text" /\ latest = 0 /\ open = 0 /\ attempts = 0
  /\ pc = "get_schema" => open = latest /\ last = (IF latest > 0 THEN "calls" ELSE "text")
                            /\ attempts = 0
  /\ pc = "generate_query" => last # "calls" /\ open = 0
  /\ pc = "check_query" => last = "calls" /\ open = latest /\ attempts < MaxSqlAttempts
  /\ pc = "run_query" => latest = 1 /\ open = 1 /\ attempts < MaxSqlAttempts
  /\ pc = "emit_claims" => open = 0 /\ attempts > 0

Taken(p) ==
  CASE p = "list_tables" -> 0
    [] p = "call_get_schema" -> 1
    [] p = "get_schema" -> 2
    [] p = "generate_query" -> 3
    [] p \in {"check_query", "emit_claims"} -> 4
    [] p = "run_query" -> 5

StepCount ==
  /\ pc # "END" => /\ steps <= 3 * attempts + Taken(pc)
                   /\ steps <= 3 * MaxSqlAttempts + Taken(pc)
  /\ steps <= 3 * MaxSqlAttempts + 5

Finished == pc = "END" <=> outcome # "none"

Inv == TypeOK /\ Stage /\ StepCount /\ Finished

LEMMA InitInv == Init => Inv
<1>1. <<>> \in Draft
  <2>1. <<>> \in [1..0 -> DraftClaim]
    OBVIOUS
  <2>2. 0 \in 0..MaxClaims
    BY PlannerAssumption
  <2>. QED
    BY <2>1, <2>2 DEF Draft
<1>. QED
  BY <1>1, PlannerAssumption
  DEF Init, Inv, TypeOK, Stage, StepCount, Taken, Finished, Nodes

LEMMA Budgets ==
  /\ MaxSqlAttempts \in Nat /\ MaxSqlAttempts > 0
  /\ MaxBatch \in Nat /\ MaxBatch > 0
  /\ RecursionLimit \in Nat /\ RecursionLimit >= 3 * MaxSqlAttempts + 5
  BY PlannerAssumption

\* Dropping specs keeps a draft a draft.
LEMMA DraftsStayDrafts ==
  ASSUME NEW payload \in Draft
  PROVE  WithoutBadSpecs(payload) \in Draft
<1>1. PICK n \in 0..MaxClaims : payload \in [1..n -> DraftClaim]
  BY DEF Draft
<1>2. WithoutBadSpecs(payload) \in [1..n -> DraftClaim]
  BY <1>1 DEF WithoutBadSpecs, DraftClaim
<1>. QED
  BY <1>2 DEF Draft

LEMMA StepInv == Inv /\ [Next]_vars => Inv'
<1>. SUFFICES ASSUME Inv, [Next]_vars
              PROVE  Inv'
  OBVIOUS
<1>. USE Budgets DEF Inv, TypeOK, Stage, StepCount, Taken, Finished, Nodes, chat, emission
<1>1. CASE ListTables
  BY <1>1 DEF ListTables, Superstep, Goto
<1>2. CASE CallGetSchema
  BY <1>2 DEF CallGetSchema, Superstep, Goto, Calls
<1>3. CASE GetSchema
  <2>1. /\ pc = "get_schema" /\ steps <= 2 /\ steps' = steps + 1
        /\ attempts = 0 /\ latest \in 0..MaxBatch /\ open = latest
        /\ last = (IF latest > 0 THEN "calls" ELSE "text")
        /\ outcome = "none"
    BY <1>3 DEF GetSchema, Superstep
  <2>2. /\ pc' = "generate_query" /\ outcome' = "none"
        /\ attempts' \in 0..latest /\ attempts' \in Nat
        /\ open' = 0 /\ latest' = latest /\ last' \in {"text", "result"}
        /\ UNCHANGED <<usable, draft, answer>>
    BY <1>3, <2>1 DEF GetSchema, Goto, AnswerCalls
  <2>3. attempts' \in 0..MaxBatch
    BY <2>1, <2>2
  <2>4. /\ steps' <= 3 /\ steps' <= 3 * MaxSqlAttempts + 3 /\ steps' <= 3 * attempts' + 3
        /\ steps' \in Nat
    BY <2>1, <2>2
  <2>. QED
    BY <2>1, <2>2, <2>3, <2>4
<1>4. CASE GenerateQuery
  <2>1. /\ pc = "generate_query" /\ outcome = "none"
        /\ last # "calls" /\ open = 0
        /\ steps <= 3 * attempts + 3 /\ steps <= 3 * MaxSqlAttempts + 3
        /\ steps' = steps + 1
        /\ UNCHANGED <<attempts, usable, draft, answer>>
    BY <1>4 DEF GenerateQuery, Superstep
  <2>2. PICK n \in 0..IF attempts >= MaxSqlAttempts THEN 0 ELSE MaxBatch :
          /\ IF n = 0 THEN UNCHANGED <<last, latest, open>> ELSE Calls(n)
          /\ FollowRoute(IF n = 0 THEN last ELSE "calls")
    BY <1>4 DEF GenerateQuery
  <2>3. CASE n = 0
    <3>1. /\ UNCHANGED <<last, latest, open>>
          /\ IF attempts > 0 THEN pc' = "emit_claims" /\ outcome' = outcome
                             ELSE pc' = "END" /\ outcome' = "no_plan"
      BY <2>1, <2>2, <2>3 DEF FollowRoute, Route
    <3>2. CASE attempts > 0
      BY <2>1, <3>1, <3>2
    <3>3. CASE attempts = 0
      BY <2>1, <3>1, <3>3
    <3>. QED
      BY <3>2, <3>3
  <2>4. CASE n # 0
    <3>1. attempts < MaxSqlAttempts /\ n \in 1..MaxBatch
      BY <2>2, <2>4
    <3>2. /\ last' = "calls" /\ latest' = n /\ open' = n
          /\ pc' = "check_query" /\ outcome' = outcome
      BY <2>1, <2>2, <2>4, <3>1 DEF Calls, FollowRoute, Route
    <3>. QED
      BY <2>1, <3>1, <3>2
  <2>. QED
    BY <2>3, <2>4
<1>5. CASE CheckQuery
  BY <1>5 DEF CheckQuery, Superstep, Goto
<1>6. CASE RunQuery
  BY <1>6 DEF RunQuery, Superstep, Goto, AnswerCalls
<1>7. CASE EmitClaims
  BY <1>7, DraftsStayDrafts DEF EmitClaims, Superstep
<1>8. CASE EmitInvalid
  BY <1>8 DEF EmitInvalid, Superstep
<1>9. CASE NodeRaises
  <2>1. /\ pc \in Nodes \ {"run_query"} /\ steps' = steps + 1
        /\ pc' = "END" /\ outcome' = "raised"
        /\ UNCHANGED <<last, latest, open, attempts, usable, draft, answer>>
    BY <1>9 DEF NodeRaises, Superstep
  <2>2. Taken(pc) \in Nat /\ Taken(pc) <= 4
    <3>1. pc \in {"list_tables", "call_get_schema", "get_schema", "generate_query",
                  "check_query", "emit_claims"}
      BY <2>1
    <3>. QED
      BY <3>1
  <2>3. steps' \in Nat /\ steps' <= 3 * MaxSqlAttempts + 5
    <3>1. steps \in Nat /\ steps <= 3 * MaxSqlAttempts + Taken(pc)
      BY <2>1 DEF StepCount
    <3>. HIDE DEF Taken
    <3>. QED
      BY <2>1, <2>2, <3>1
  <2>. QED
    BY <2>1, <2>3
<1>10. CASE UNCHANGED vars
  BY <1>10 DEF vars
<1>. QED
  BY <1>1, <1>2, <1>3, <1>4, <1>5, <1>6, <1>7, <1>8, <1>9, <1>10 DEF Next

LEMMA Invariance == Spec => []Inv
  BY InitInv, StepInv, PTL DEF Spec

\* The planner's state keeps its type: in particular no reply of the model takes
\* the attempts past the budget, unless it calls the query tool that often at once at
\* the schema node.
THEOREM PlannerTypeCorrect == Spec => []TypeOK
<1>1. Inv => TypeOK
  BY DEF Inv
<1>. QED
  BY <1>1, Invariance, PTL

\* No model call ever sees a tool call without its result.
THEOREM PlannerAnswersCalls == Spec => []EveryCallAnswered
<1>1. Inv => EveryCallAnswered
  BY DEF Inv, Stage, EveryCallAnswered
<1>. QED
  BY <1>1, Invariance, PTL

\* A limit of 3 * MaxSqlAttempts + 5 supersteps is never exceeded, whatever the
\* model replies and however many queries fail.
THEOREM PlannerStaysInLimit == Spec => []WithinRecursionLimit
<1>1. Inv => WithinRecursionLimit
  BY Budgets DEF Inv, TypeOK, StepCount, WithinRecursionLimit
<1>. QED
  BY <1>1, Invariance, PTL

-----------------------------------------------------------------------------
(* The answer.                                                              *)

\* A payload that is accepted has lost its misfits and nothing else: a claim with
\* another defect would still offend without its spec.
LEMMA AcceptedLosesMisfits ==
  ASSUME NEW payload \in Draft, Accepted(payload)
  PROVE  WithoutBadSpecs(payload)
           = [i \in DOMAIN payload |->
                IF payload[i].spec = "misfits" THEN [payload[i] EXCEPT !.spec = "none"]
                ELSE payload[i]]
<1>1. PICK n \in 0..MaxClaims : payload \in [1..n -> DraftClaim]
  BY DEF Draft
<1>2. ASSUME NEW i \in DOMAIN payload
      PROVE  Offending(payload[i]) <=> payload[i].spec = "misfits"
  <2>1. payload[i] \in DraftClaim
    BY <1>1
  <2>2. ~Offending(WithoutBadSpecs(payload)[i])
    BY DEF Accepted
  <2>3. payload[i].sound
    BY <2>1, <2>2 DEF Offending, WithoutBadSpecs, DraftClaim
  <2>. QED
    BY <2>3 DEF Offending
<1>. QED
  BY <1>2 DEF WithoutBadSpecs

LEMMA StepMisfits ==
  Inv /\ OnlyMisfitsDropped /\ [Next]_vars => OnlyMisfitsDropped'
<1>. SUFFICES ASSUME Inv, OnlyMisfitsDropped, [Next]_vars
              PROVE  OnlyMisfitsDropped'
  OBVIOUS
<1>1. CASE EmitClaims
  <2>1. draft' \in Draft /\ Accepted(draft') /\ answer' = WithoutBadSpecs(draft')
    BY <1>1 DEF EmitClaims
  <2>. QED
    BY <2>1, AcceptedLosesMisfits DEF OnlyMisfitsDropped
<1>2. CASE UNCHANGED vars
  BY <1>2 DEF OnlyMisfitsDropped, vars, emission
<1>3. CASE Next /\ ~EmitClaims
  <2>1. pc # "END" /\ outcome = "none"
    BY <1>3 DEF Next, Superstep, ListTables, CallGetSchema, GetSchema, GenerateQuery,
         CheckQuery, RunQuery, EmitInvalid, NodeRaises, Inv, Finished, Nodes
  <2>2. outcome' # "plan"
    BY <1>3, <2>1 DEF Next, Goto, FollowRoute, ListTables, CallGetSchema, GetSchema,
         GenerateQuery, CheckQuery, RunQuery, EmitInvalid, NodeRaises
  <2>. QED
    BY <2>2 DEF OnlyMisfitsDropped
<1>. QED
  BY <1>1, <1>2, <1>3

\* An answer keeps every claim the model emitted, and every spec that fits.
THEOREM AnswersLoseOnlyMisfits == Spec => []OnlyMisfitsDropped
<1>1. Init => OnlyMisfitsDropped
  BY DEF Init, OnlyMisfitsDropped
<1>. QED
  BY <1>1, StepMisfits, Invariance, PTL DEF Spec

-----------------------------------------------------------------------------
(* Refinement of SqlBudget.                                                  *)

LEMMA StepBudget ==
  ASSUME Inv, [Next]_vars
  PROVE  /\ [Loop!Query \/ Loop!Answer \/ Loop!GiveUp]_<<attempts, Asking[outcome]>>
         /\ [pc # "get_schema" => attempts' <= attempts + 1]_attempts
<1>. USE DEF Inv
<1>1. CASE RunQuery
  <2>1. /\ attempts \in Nat /\ attempts < MaxSqlAttempts
        /\ attempts' = attempts + latest /\ latest = 1
        /\ outcome = "none" /\ outcome' = "none"
    BY <1>1, Budgets DEF RunQuery, Superstep, Goto, TypeOK, Stage, Finished
  <2>2. attempts' = attempts + 1 /\ attempts' \in (attempts + 1)..(attempts + MaxBatch)
    BY <2>1, Budgets
  <2>3. Loop!Query
    BY <2>1, <2>2 DEF Loop!Query, Asking
  <2>. QED
    BY <2>1, <2>2, <2>3
<1>2. CASE EmitClaims
  <2>1. /\ attempts > 0 /\ attempts' = attempts /\ outcome = "none" /\ outcome' = "plan"
    BY <1>2 DEF EmitClaims, Superstep, Stage, Finished, chat
  <2>2. Loop!Answer
    BY <2>1 DEF Loop!Answer, Asking
  <2>. QED
    BY <2>1, <2>2
<1>3. CASE UNCHANGED <<attempts, outcome>>
  BY <1>3
<1>4. CASE /\ outcome = "none" /\ outcome' \in {"no_plan", "raised"}
           /\ UNCHANGED attempts
  <2>1. Loop!GiveUp
    BY <1>4 DEF Loop!GiveUp, Asking
  <2>. QED
    BY <1>4, <2>1
<1>5. CASE EmitInvalid \/ NodeRaises
  BY <1>4, <1>5 DEF EmitInvalid, NodeRaises, Superstep, Finished, chat, Nodes
<1>6. CASE GenerateQuery
  BY <1>3, <1>4, <1>6 DEF GenerateQuery, FollowRoute, Superstep, Finished
<1>7. CASE ListTables \/ CallGetSchema \/ CheckQuery \/ UNCHANGED vars
  BY <1>3, <1>7 DEF ListTables, CallGetSchema, CheckQuery, Goto, chat, vars
<1>8. CASE GetSchema
  <2>1. /\ pc = "get_schema" /\ attempts = 0 /\ latest \in 0..MaxBatch
        /\ attempts' \in attempts..(attempts + latest)
        /\ outcome = "none" /\ outcome' = "none"
    BY <1>8 DEF GetSchema, Superstep, Goto, TypeOK, Stage, Finished
  <2>2. CASE attempts' = 0
    BY <1>3, <2>1, <2>2
  <2>3. CASE attempts' # 0
    <3>1. attempts < MaxSqlAttempts /\ attempts' \in (attempts + 1)..(attempts + MaxBatch)
      BY <2>1, <2>3, Budgets
    <3>2. Loop!Query
      BY <2>1, <3>1 DEF Loop!Query, Asking
    <3>. QED
      BY <2>1, <3>2
  <2>. QED
    BY <2>2, <2>3
<1>. QED
  BY <1>1, <1>2, <1>5, <1>6, <1>7, <1>8 DEF Next

\* The planner keeps the promise of SqlBudget: no query is started past the budget, and
\* an answer is given only after an attempt; and past the schema node attempts come one
\* at a time.
THEOREM PlannerKeepsBudget == Spec => ImplementsBudget
<1>1. Init => Loop!Init
  BY DEF Init, Loop!Init, Asking
<1>. QED
  BY <1>1, StepBudget, Invariance, PTL DEF Spec, ImplementsBudget, Loop!Spec, OneAtATime
=============================================================================
