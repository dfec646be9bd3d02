------------------------------ MODULE JudgeGraph ------------------------------
(***************************************************************************)
(* The judge's LangGraph (verifier/judge/nodes.py, wired in judge_agent.py): *)
(* load the schema, present the plan, let the model query the database       *)
(* independently within an attempt budget, and emit a verdict.  One action   *)
(* is one superstep, as in PlannerGraph; unlike there, no node reviews the    *)
(* model's tool calls, and what it asks for is run.                          *)
(*                                                                         *)
(*   last       the last message: "text", "calls" or "result"                *)
(*   latest     tool calls of the latest AIMessage: to sql_db_query, and to   *)
(*              names the ToolNode does not know, answered by an error message *)
(*   open       tool calls in the conversation without a ToolMessage          *)
(*   attempts   ToolMessages named sql_db_query, idle rounds that added none   *)
(***************************************************************************)
EXTENDS Naturals

CONSTANTS MaxSqlAttempts,   \* MAX_SQL_ATTEMPTS: 6
          RecursionLimit,   \* supersteps LangGraph runs before it raises
          MaxBatch          \* bound on the tool calls of one reply

ASSUME JudgeAssumption ==
  /\ MaxSqlAttempts \in Nat \ {0}
  /\ MaxBatch \in Nat \ {0}
  /\ RecursionLimit \in Nat
  /\ RecursionLimit >= 2 * MaxSqlAttempts + 5

VARIABLES pc, last, latest, open, attempts, idle, steps, outcome

chat == <<last, latest, open>>
vars == <<pc, chat, attempts, idle, steps, outcome>>

Nodes == {"list_tables", "get_schemas", "present_plan", "investigate",
          "run_query", "emit_verdict"}

Replies == {c \in [query : 0..MaxBatch, unknown : 0..MaxBatch] :
              c.query + c.unknown <= MaxBatch}
Size(c) == c.query + c.unknown

TypeOK ==
  /\ pc \in Nodes \cup {"END"}
  /\ last \in {"text", "calls", "result"}
  /\ latest \in Replies
  /\ open \in 0..MaxBatch
  /\ attempts \in 0..(MaxSqlAttempts - 1 + MaxBatch)
  /\ idle \in Nat
  /\ steps \in 0..RecursionLimit
  /\ outcome \in {"none", "verdict", "raised", "recursion"}

Init ==
  /\ pc = "list_tables"
  /\ last = "text" /\ latest = [query |-> 0, unknown |-> 0] /\ open = 0
  /\ attempts = 0 /\ idle = 0
  /\ steps = 0
  /\ outcome = "none"

-----------------------------------------------------------------------------

Superstep(node) ==
  /\ pc = node
  /\ steps < RecursionLimit
  /\ steps' = steps + 1

Goto(node) == pc' = node /\ UNCHANGED outcome

\* A forced call and its result.
ListTables ==
  /\ Superstep("list_tables")
  /\ last' = "result" /\ UNCHANGED <<latest, open>>
  /\ Goto("get_schemas")
  /\ UNCHANGED <<attempts, idle>>

GetSchemas ==
  /\ Superstep("get_schemas")
  /\ UNCHANGED chat
  /\ Goto("present_plan")
  /\ UNCHANGED <<attempts, idle>>

\* judge() passes the plan in the state, so its absence cannot raise here.
PresentPlan ==
  /\ Superstep("present_plan")
  /\ last' = "text" /\ UNCHANGED <<latest, open>>
  /\ Goto("investigate")
  /\ UNCHANGED <<attempts, idle>>

\* should_continue, on the last message after investigate.
Route(message) ==
  IF attempts < MaxSqlAttempts /\ message = "calls" THEN "run_query"
  ELSE "emit_verdict"

Investigated(replies) ==
  \E reply \in replies :
    /\ IF Size(reply) = 0 THEN UNCHANGED chat
       ELSE last' = "calls" /\ latest' = reply /\ open' = open + Size(reply)
    /\ Goto(Route(IF Size(reply) = 0 THEN last ELSE "calls"))

\* Bug: the budget is left to should_continue.
InvestigatePastBudget ==
  /\ Superstep("investigate")
  /\ Investigated(Replies)
  /\ UNCHANGED <<attempts, idle>>

\* A reply without calls is dropped (and, before the first result, asked for
\* once more).
Investigate ==
  /\ Superstep("investigate")
  /\ Investigated({reply \in Replies : attempts >= MaxSqlAttempts => Size(reply) = 0})
  /\ UNCHANGED <<attempts, idle>>

\* Bug: a query that failed is not counted.
RunQueryCountingSuccesses ==
  /\ Superstep("run_query")
  /\ last' = "result" /\ open' = open - Size(latest) /\ UNCHANGED latest
  /\ \E good \in 0..latest.query : attempts' = attempts + good
  /\ idle' = IF latest.query = 0 THEN idle + 1 ELSE idle
  /\ Goto("investigate")

\* Bug: queries that failed are run again at once.
RunQueryRetrying ==
  /\ Superstep("run_query")
  /\ last' = "result" /\ open' = 0 /\ UNCHANGED latest
  /\ attempts' = attempts + latest.query
  /\ idle' = IF latest.query = 0 THEN idle + 1 ELSE idle
  /\ \E good \in 0..latest.query :
       Goto(IF good < latest.query THEN "run_query" ELSE "investigate")

\* The ToolNode answers every call; an SQL error is an answer too.
RunQuery ==
  /\ Superstep("run_query")
  /\ last' = "result" /\ open' = open - Size(latest) /\ UNCHANGED latest
  /\ attempts' = attempts + latest.query
  /\ idle' = IF latest.query = 0 THEN idle + 1 ELSE idle
  /\ Goto("investigate")

EmitVerdict ==
  /\ Superstep("emit_verdict")
  /\ pc' = "END"
  /\ outcome' = "verdict"
  /\ UNCHANGED <<chat, attempts, idle>>

\* A call to the model or the catalog raises, or its verdict does not validate.
NodeRaises ==
  /\ pc \in Nodes \ {"present_plan", "run_query"}
  /\ Superstep(pc)
  /\ pc' = "END"
  /\ outcome' = "raised"
  /\ UNCHANGED <<chat, attempts, idle>>

\* GraphRecursionError.
OutOfSteps ==
  /\ pc \in Nodes
  /\ steps = RecursionLimit
  /\ pc' = "END"
  /\ outcome' = "recursion"
  /\ UNCHANGED <<chat, attempts, idle, steps>>

Next ==
  \/ ListTables \/ GetSchemas \/ PresentPlan
  \/ Investigate \/ RunQuery \/ EmitVerdict
  \/ NodeRaises \/ OutOfSteps

Spec == Init /\ [][Next]_vars

-----------------------------------------------------------------------------
(* Properties.                                                              *)

\* Whenever the model is given the conversation, each tool call in it has its
\* result, those of a batch and those to unknown tools included.
EveryCallAnswered == pc \in {"investigate", "emit_verdict"} => open = 0

\* The recursion limit ends an investigation only if some round asked for no
\* query: what the attempt budget does not count, it does not bound.
OnlyIdleRoundsRunOut == outcome = "recursion" => idle > 0

\* A batch starts within the budget and may exceed it by MaxBatch - 1 queries;
\* a verdict needs no query.
Asking == [none |-> "asking", verdict |-> "answered", raised |-> "gave_up",
           recursion |-> "gave_up"]
Loop == INSTANCE SqlBudget WITH Budget <- MaxSqlAttempts, Batch <- MaxBatch,
          MustQuery <- FALSE, used <- attempts, phase <- Asking[outcome]
ImplementsBudget == Loop!Spec
=============================================================================
