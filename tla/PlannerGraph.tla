----------------------------- MODULE PlannerGraph -----------------------------
(***************************************************************************)
(* The planner's LangGraph (planner/nodes.py, wired in plan_agent.py): find  *)
(* the schema, let the model query within an attempt budget, have each query *)
(* reviewed before it runs, and emit claims.  One action is one superstep of *)
(* the graph: a node, the writes it makes, and the edge taken after them.    *)
(*                                                                         *)
(* Of the conversation the nodes look at, these are kept:                   *)
(*   last       the last message: "text", "calls" (an AIMessage whose first   *)
(*              tool call has a SQL string) or "result" (a ToolMessage)      *)
(*   latest     tool calls of the latest AIMessage, the ones a ToolNode runs  *)
(*   open       tool calls in the conversation that have no ToolMessage yet   *)
(*   attempts   ToolMessages named sql_db_query, errors included                *)
(* The model's replies are choices: prose, or one to MaxBatch tool calls.  A   *)
(* call is of the tool bound in that node; at the schema node, where the name  *)
(* counts, it may also be of sql_db_query, which is answered by an error.      *)
(***************************************************************************)
EXTENDS Naturals, Sequences

CONSTANTS MaxSqlAttempts,   \* MAX_SQL_ATTEMPTS: 5
          RecursionLimit,   \* supersteps LangGraph runs before it raises
          MaxBatch,         \* bound on the tool calls of one reply
          MaxClaims         \* bound on the claims of a draft answer

ASSUME PlannerAssumption ==
  /\ MaxSqlAttempts \in Nat \ {0}
  /\ MaxBatch \in Nat \ {0}
  /\ MaxClaims \in Nat
  /\ RecursionLimit \in Nat
  /\ RecursionLimit >= 3 * MaxSqlAttempts + 5

VARIABLES pc, last, latest, open, attempts,
          usable,    \* the catalog lists a table outside SKIP_SCHEMA_TABLES
          steps, outcome,
          draft,     \* the payload the model emitted
          answer     \* the claims iter_ask goes on with

chat == <<last, latest, open, attempts>>
emission == <<draft, answer>>
vars == <<pc, chat, usable, steps, outcome, emission>>

Nodes == {"list_tables", "call_get_schema", "get_schema", "generate_query",
          "check_query", "run_query", "emit_claims"}

\* A claim of the payload: its verification_spec, and whether the rest is valid.
DraftClaim == [spec : {"none", "fits", "misfits"}, sound : BOOLEAN]
Draft == UNION {[1..n -> DraftClaim] : n \in 0..MaxClaims}

TypeOK ==
  /\ pc \in Nodes \cup {"END"}
  /\ last \in {"text", "calls", "result"}
  /\ latest \in 0..MaxBatch
  /\ open \in 0..MaxBatch
  /\ attempts \in 0..MaxSqlAttempts \cup 0..MaxBatch
  /\ usable \in BOOLEAN
  /\ steps \in Nat
  /\ outcome \in {"none", "plan", "no_plan", "raised"}
  /\ draft \in Draft
  /\ answer \in Draft

Init ==
  /\ pc = "list_tables"
  /\ last = "text" /\ latest = 0 /\ open = 0    \* the user's question
  /\ attempts = 0
  /\ usable \in BOOLEAN
  /\ steps = 0
  /\ outcome = "none"
  /\ draft = <<>> /\ answer = <<>>

-----------------------------------------------------------------------------

Superstep(node) == pc = node /\ steps' = steps + 1

Goto(node) == pc' = node /\ UNCHANGED outcome

\* The model's message is appended.
Calls(n) == last' = "calls" /\ latest' = n /\ open' = open + n

\* A ToolNode answers every call of the latest AIMessage.
AnswerCalls ==
  /\ last' = IF latest = 0 THEN last ELSE "result"
  /\ open' = open - latest
  /\ UNCHANGED latest

\* The forced call, its result and the "Available tables:" message.
ListTables ==
  /\ Superstep("list_tables")
  /\ Goto("call_get_schema")
  /\ UNCHANGED <<chat, usable, emission>>

\* Prose is replaced by a forced call, unless no table is left to ask about.
CallGetSchema ==
  /\ Superstep("call_get_schema")
  /\ \/ \E n \in 1..MaxBatch : Calls(n)
     \/ usable /\ Calls(1)
     \/ ~usable /\ UNCHANGED <<last, latest, open>>
  /\ Goto("get_schema")
  /\ UNCHANGED <<attempts, usable, emission>>

\* A reply's calls of sql_db_query run nothing here and count as attempts all the same.
GetSchema ==
  /\ Superstep("get_schema")
  /\ AnswerCalls
  /\ attempts' \in attempts..(attempts + latest)
  /\ Goto("generate_query")
  /\ UNCHANGED <<usable, emission>>

\* should_continue, on the last message after generate_query.
Route(message) ==
  IF attempts < MaxSqlAttempts /\ message = "calls" THEN "check_query"
  ELSE IF attempts > 0 THEN "emit_claims"
  ELSE "END"

FollowRoute(message) ==
  /\ pc' = Route(message)
  /\ outcome' = IF Route(message) = "END" THEN "no_plan" ELSE outcome

\* Bug: the budget is left to should_continue.
GenerateQueryPastBudget ==
  /\ Superstep("generate_query")
  /\ \E n \in 0..MaxBatch :
       /\ IF n = 0 THEN UNCHANGED <<last, latest, open>> ELSE Calls(n)
       /\ FollowRoute(IF n = 0 THEN last ELSE "calls")
  /\ UNCHANGED <<attempts, usable, emission>>

\* Only a turn with an executable statement is kept (n > 0); before the first
\* result, a turn without one is asked for once more.
GenerateQuery ==
  /\ Superstep("generate_query")
  /\ \E n \in 0..IF attempts >= MaxSqlAttempts THEN 0 ELSE MaxBatch :
       /\ IF n = 0 THEN UNCHANGED <<last, latest, open>> ELSE Calls(n)
       /\ FollowRoute(IF n = 0 THEN last ELSE "calls")
  /\ UNCHANGED <<attempts, usable, emission>>

\* Bug: the message under review is kept as it is.
CheckQueryKeeping ==
  /\ Superstep("check_query")
  /\ Goto("run_query")
  /\ UNCHANGED <<chat, usable, emission>>

\* The reviewed statement, or the candidate, in one forced call that replaces
\* the message under review, whatever number of calls that had.
CheckQuery ==
  /\ Superstep("check_query")
  /\ latest' = 1 /\ open' = open - latest + 1
  /\ UNCHANGED last
  /\ Goto("run_query")
  /\ UNCHANGED <<attempts, usable, emission>>

\* Bug: an attempt that failed is not counted.
RunQueryCountingSuccesses ==
  /\ Superstep("run_query")
  /\ AnswerCalls
  /\ attempts' \in attempts..(attempts + latest)
  /\ Goto("generate_query")
  /\ UNCHANGED <<usable, emission>>

\* The tool turns an SQL error into a result, so this node never raises.
RunQuery ==
  /\ Superstep("run_query")
  /\ AnswerCalls
  /\ attempts' = attempts + latest
  /\ Goto("generate_query")
  /\ UNCHANGED <<usable, emission>>

-----------------------------------------------------------------------------
(* The answer.                                                              *)

\* Bug: one unusable spec costs every claim its spec.
WithoutBadSpecsAll(payload) == [i \in DOMAIN payload |-> [payload[i] EXCEPT !.spec = "none"]]

\* _validate_output drops the spec of every claim that has an error, ...
Offending(claim) == ~claim.sound \/ claim.spec = "misfits"

WithoutBadSpecs(payload) ==
  [i \in DOMAIN payload |->
     IF Offending(payload[i]) THEN [payload[i] EXCEPT !.spec = "none"] ELSE payload[i]]

\* ... and validates what is left.
Accepted(payload) ==
  \A i \in DOMAIN payload : ~Offending(WithoutBadSpecs(payload)[i])

EmitClaims ==
  /\ Superstep("emit_claims")
  /\ draft' \in Draft
  /\ Accepted(draft')
  /\ answer' = WithoutBadSpecs(draft')
  /\ pc' = "END"
  /\ outcome' = "plan"
  /\ UNCHANGED <<chat, usable>>

\* An invalid payload, of which no claim's spec can be blamed alone, raises.
EmitInvalid ==
  /\ Superstep("emit_claims")
  /\ draft' \in Draft
  /\ ~Accepted(draft')
  /\ pc' = "END"
  /\ outcome' = "raised"
  /\ UNCHANGED <<chat, usable, answer>>

\* A call to the model or the catalog raises.
NodeRaises ==
  /\ pc \in Nodes \ {"run_query"}
  /\ Superstep(pc)
  /\ pc' = "END"
  /\ outcome' = "raised"
  /\ UNCHANGED <<chat, usable, emission>>

Next ==
  \/ ListTables \/ CallGetSchema \/ GetSchema
  \/ GenerateQuery \/ CheckQuery \/ RunQuery
  \/ EmitClaims \/ EmitInvalid \/ NodeRaises

Spec == Init /\ [][Next]_vars

-----------------------------------------------------------------------------
(* Properties.                                                              *)

\* Whenever a model is given the conversation, each tool call in it has its
\* result (providers reject a conversation that leaves one open): check_query
\* replaces the message it reviews, and no query is generated past the budget.
EveryCallAnswered ==
  pc \in {"call_get_schema", "generate_query", "emit_claims"} => open = 0

\* The attempt budget stops the loop before LangGraph's recursion limit does,
\* however many attempts end in an error.
WithinRecursionLimit == steps <= RecursionLimit

\* The graph starts no query once the budget is used and answers only after one, a call
\* of the query tool at the schema node counted as the code counts it; and past that
\* node each attempt is one query, although a reply may hold several.
Asking == [none |-> "asking", plan |-> "answered", no_plan |-> "gave_up",
           raised |-> "gave_up"]
Loop == INSTANCE SqlBudget WITH Budget <- MaxSqlAttempts, Batch <- MaxBatch,
          MustQuery <- TRUE, used <- attempts, phase <- Asking[outcome]
OneAtATime == [][pc # "get_schema" => attempts' <= attempts + 1]_attempts
ImplementsBudget == Loop!Spec /\ OneAtATime

\* An answer keeps every claim of the payload, and every spec but the misfits
\* (the docstring of _validate_output: an unusable spec is dropped, not the answer).
OnlyMisfitsDropped ==
  outcome = "plan" =>
    answer = [i \in DOMAIN draft |->
                IF draft[i].spec = "misfits" THEN [draft[i] EXCEPT !.spec = "none"]
                ELSE draft[i]]
=============================================================================
