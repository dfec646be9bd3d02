# TAQR in TLA+

TAQR answers a question about a Postgres database with *claims*, each backed by
SQL evidence, and then decides how much of the answer can be trusted. A planner
(a LangGraph around a language model) queries the database and emits a plan of
claims and evidence; a deterministic verifier replays the evidence and gives
each claim a status; a second model, the judge, investigates the question
independently in the background. A FastAPI server runs all of it, records every
run in a provenance schema, and streams progress to a React page.

This directory holds TLA+ modules for the parts of the program whose correctness
depends on order, failure, concurrency or case analysis, the TLC configurations
that check them, and TLAPS proofs. Module and definition names follow the
source; `PROJECT.json` maps every definition to the lines it stands for, lists
the hazards the properties are about, and gives each property a mutation of the
code that it detects.

## Inventory

| Component (source) | State | Operations | What makes it correct |
|---|---|---|---|
| Provenance store (`provenance/query_log.py`, `ddl.py`) | a row per run with a status; a list of events per run | `log_run`, `finish_run`, `log_event`, reads | a row is closed once; events appear in pipeline order |
| Schema bootstrap (`query_log.py`, `_ensure_schema`) | the provenance tables | inspect, drop, create, at every start of every process | a start never destroys current data nor runs without tables |
| Run lifecycle (`api.py`, `planner/plan_agent.py`, `main.py`) | position of every request; server phase | plain, streamed and command-line questions; disconnect; start, shutdown, crash | every question is disposed of and its row closed; answered iff a judge is scheduled |
| Judge pool (`api.py`) | executor queue, future of each run | submit, investigate, report, excuse | each scheduled judge leaves a verdict or an error |
| Planner graph (`planner/nodes.py`) | conversation, attempts, supersteps | one node per superstep | bounded; every tool call answered; only bad specs dropped |
| Judge graph (`verifier/judge/nodes.py`) | conversation, attempts, supersteps | one node per superstep | bounded; every tool call answered |
| Trust gate (`verifier/verifier.py`, `base.py`, `context.py`) | a result per claim; the gate's status | reference check, replay, annotation, typed checks, gate | VERIFIED means backed by clean, complete evidence; FAILED means contradicted |
| Typed verifiers (`verifier/trend.py`, `top_k_ranking.py`, `comparison.py`, `distribution.py`, `aggregation.py`, `value_lookup.py`, `existence.py`) | none: functions of claim and rows | one per claim type | a verdict means the same of the rows as of the claim |
| Event stream (`api.py`, `ui/src/lib/api.ts`) | frames on the wire, reader's buffer | yield, cut, read, parse | no event lost, reordered or invented; answered iff done |
| Run watching page (`ui/src/components/taqr/app-shell.tsx`) | selection, detail on screen, calls out | select, ask, load, poll | shows what is selected; polls until the verdict is there |
| Question box (`query-composer.tsx`, `_resolve_benchmark`) | text, id, suggestion, loads out | type, suggest, submit | judged by the benchmark with the words submitted |
| Fingerprints (`provenance/utils.py`, `common/tools.py`) | none | canonicalise, hash, execute again | equal results have equal hashes, different ones have not |
| SQL analysis, resolution, filters (`sql_analysis.py`, `resolve.py`, `filters.py`, `domain_common.py`) | none: functions of a claim and its evidence | read the SELECT list and conditions, resolve names and subjects, reconcile filters | a name is never guessed; a filter that passes is in the evidence's scope, one that fails is not (what the parser makes of a text is an input) |
| Tool tracing, progress (`common/callbacks.py`, `*/progress.py`) | none | append TOOL_CALL events, format | not modelled |
| Tools, database, samples, schemas, configuration, rendering | – | input and output, data declarations | not modelled, but for what `sql_db_query` answers |

How they interact: a request handler calls `PlanAgent.iter_ask`, a generator that
opens the run's row, runs the planner graph, logs the plan and closes the row in a
`finally`; the handler then calls the trust gate, logs its result, reads the run
back, submits the judge to a thread pool and answers. Both graphs call the
language model and the database through tools. The trust gate dispatches each
claim that survived to the verifier of its type. The page receives the handler's
events over a stream, and afterwards learns of the judge by polling. The store is
the only thing that server, judge threads, command line and page share.

Hard behaviours: a client may leave while a generator is suspended at any yield;
a write may raise although it committed; the judge's queue is only in memory;
shutdown has to wait for threads that still write; two loops around a language
model have to end whatever the model says; row and events are read in separate
transactions and several responses are out at once; a result is written by
several phases of the gate, through a dictionary keyed by ids a model invented;
tolerant equality, NULLs, ties and several blocks of evidence meet in the typed
verifiers; a name a model wrote may be like several columns, and like one of the
query's and one of the declared names at different positions; one query is executed
three times, its rows copied by a model in between.

## Modules

```
RunEvents <- RunRecord                        abstract: the life of a run's record
RunEvents <- ProvenanceStore <- JudgePool <- RunLifecycle      implements RunRecord
RunRecord <- RunWatcher                       the page in front of any such record
SqlBudget                                     abstract: a bounded query loop
PlannerGraph, JudgeGraph                      implement SqlBudget
TrustGate                                     verify_response
ClaimChecks <- SeriesVerifiers, LookupVerifiers
NameResolution <- FilterReconciliation <- EvidenceChecks -> ClaimChecks
NameResolution <- SubjectResolution
ResultFingerprint
all of these <- TypedVerifiers                one claim, one verdict
SchemaBootstrap, EventStream, Composer
RunLifecycle <- RunLifecycleProofs            theorems
RunWatcher, Composer <- PageProofs
TypedVerifiers <- VerifierProofs
TrustGateProofs, PlannerProofs, JudgeProofs, SchemaBootstrapProofs, EventStreamProofs
MCRunLifecycle, MCTrustGate, MCTypedVerifiers, MCComposer                    instances
```

**RunEvents, RunRecord.** What a reader of the store sees of a run: the status of
its row and the kinds of its events, from which `api.py` derives `judge_status`.
RunRecord is the promise made to readers: open once, plan while open, close once,
verify only when completed, judge only when verified.

**ProvenanceStore.** `QueryLog` and its transactions. A call has one of three
outcomes: committed; rolled back and raised; committed but raised, because the
connection was lost on COMMIT. `MaxFaults` bounds the calls that raise.

**JudgePool.** `lifespan`'s executor with its unbounded queue, `_submit_judge` and
`_run_judge` with its except branch. A judge's investigation is one step here.

**RunLifecycle.** `pc[r]` is where the code for run r stands between two operations
another process could tell apart; the header of the module lists the points. The three
callers (plain request, streamed request, `main.py`) share the actions and differ in
`Disconnect` (streams), `Answer` and `AnswerCli`. Each action is one store call with
what follows it up to the next; `finally` blocks are the states `completing`, `failing`
and `abandoning`. `Crash` kills a process with everything in memory; the end of
`lifespan` is three steps, between which anything that still runs could act: `Drained`
(`shutdown(wait=True)` has returned), `CloseLog` (`query_log.close()`) and `Exit`
(`db.disconnect()`); `Start` does what `lifespan` does, which is to look at nothing left
over.

**RunWatcher.** `app-shell.tsx`: the two effects that call `GET /api/runs/{id}`, what
starts and cancels them, and `get_run`'s two separate reads. It extends RunRecord,
not RunLifecycle: the page must be right in front of any store that keeps that
promise, and RunLifecycle keeps it. The page is assumed to run its effects before
it handles another response. The first listing may fail or be empty; the contents of
the sidebar are left out.

**SqlBudget, PlannerGraph, JudgeGraph.** One action per LangGraph superstep. Of the
conversation only what the routing functions look at is kept: the kind of the last
message, the calls of the latest model message, the calls without an answer, and
the counted attempts. The model's replies are choices, calls of a tool that a node has
not bound included: at the planner's schema node the error that answers a call of
`sql_db_query` counts as an attempt (`nodes.py:245`). `RecursionLimit` is a
parameter with only a lower bound, since the code leaves LangGraph's default; the
runs give it the smallest values allowed or little more, so that the limit is met.

**TrustGate.** `verify_response` phase by phase; its loops are program counters.
Plans are arbitrary: ids repeated, unknown, unreferenced. What replays,
annotations and typed checks find is a choice of the step; a typed verifier may raise,
and so may the hash of a replay, for rows without a canonical form.

**ClaimChecks, SeriesVerifiers, LookupVerifiers, TypedVerifiers.** Each typed verifier
as the sequence of its checks' outcomes in program order; `Verdict` says what a sequence
is worth, as `refute`, `inconclusive` and `finalize_claim` do. What `collect_rows`
collects is a set of `Records`, each named by its place (block and row), in the order of
`Before`: so "exactly one row" is `Only` and "the first" is `First`. A block of evidence
is its rows, cut down to a key and a value cell, with the traits of its SQL that the
verifier looks at (ORDER BY, LIMIT, OFFSET, grouping, how a name resolved). Keys are
compared as the code compares them, by `ValuesEqual`: periods, labels and ids that read
as numbers are equal within the tolerance, so that ids of seven digits that differ by
one, days written as 20240101 or seconds of an epoch are taken for one another. The
block of an existence claim also has all that its query selects, of which OFFSET and
LIMIT leave the rows that are replayed (`Page`). TypedVerifiers states what each verdict
may be taken for, in terms of the rows and not of the checks, and assumes of the claims
what the code makes sure of before a verifier is called (`EvidenceAssumption` to
`AnnotationAssumption`). Its `kind` is a claim type, or one of the three checks made of
claims of any type, which the next modules describe.

**NameResolution.** `resolve_column` and what it is applied to: the names of a query's
SELECT list, aligned with the names the model declared (`evidence_columns`), and the
declared names alone when the former show nothing. A name is a record of its text,
its case-folded text and its word pieces; `Alike` has the four tiers of likeness, from
the same text to a part of it, and `ResolveColumn` the first tier on which exactly one
column is like the name, or nothing from the first tier on which several are.

**FilterReconciliation, EvidenceChecks.** `reconcile_filter` on the predicates found
anywhere below a block's conditions, then `_check_declared_columns` and `_verify_metric`,
in the order in which `verify_response` makes them. EvidenceChecks also gives evidence
a meaning the code never looks at: `Scope` is the set of rows of a table that the
conditions let through, with their ORs, NOTs and expressions, and the property about
filters is stated in terms of it.

**SubjectResolution.** `resolve_subject` (single columns, a preferred one first, then
runs of up to `MaxCompositeWidth` columns) and `subject_in_literals`, with
`verify_untyped`, which rests on them alone. A cell is a sequence of words; one that
reads as a number (`Reading`) is compared as that number, but not in a literal.

**ResultFingerprint.** Canonical cells and rows, the three executions of a query (by
the model's tool, by `attach_result_fingerprints`, by `verify_replays`), and what is
raised where a value has no canonical form. Numbers are counted in parts of `One`;
`Float` is an arbitrary rounding that is monotonic and keeps whole numbers.

**SchemaBootstrap.** `_ensure_schema`: the inspection is outside the transaction that
acts on it. The rebuild, DDL included, is one transaction, as in Postgres.

**EventStream.** The yields of `_stream_create_run`, the SSE frames as tokens, a
network that delivers them in any pieces or breaks off, and `createRunStream`'s
reader. JSON escapes line ends, so a data line has none.

**Composer.** The callbacks of the question box with `_resolve_benchmark`. The bank is
both files; only the ids of the adversarial questions are known to differ, among
themselves (`adversarial.py:45`), and of several questions with an id or a text an
adversarial one is taken before the others. Its definitions are named after the box
(`BoxInit`, `SubmitQuestion`), so that it stands beside RunWatcher in one module. White
space around a text is a flag, since the box trims what it submits and the bank need not
be trimmed.

## Runs

| Run | Instance | What it shows |
|---|---|---|
| `RunSafety` | 3 runs of any mode, 2 faults, 2 workers, 1 crash | answered iff scheduled, closed rows, log open while used; RunRecord is implemented, which gives the order of a run's records |
| `RunLiveness` | 2 runs, 1 fault, 1 worker, 1 crash | questions end, judges report, shutdown ends |
| `RunJudging` | the same | **violated**: "running" is shown of runs nobody judges |
| `RunWatch` | 2 runs, 2 failed calls | the page's details are consistent, are not taken back, and the verdict reaches the screen |
| `TrustGate` | up to 2 claims of 2 ids, up to 2 evidence of 3 ids | what VERIFIED and FAILED mean, for every plan and outcome |
| `Planner`, `Judge` | the code's budgets 5 and 6, batches of 2 and 3 | bounded loops, answered calls, budgets |
| `Bootstrap` | 3 processes, every initial schema | concurrent starts keep current rows |
| `Stream` | 2 steps, every cut | events survive; answered iff done; always settled |
| `Compose` | 4 benchmark questions, two of them with one id, a trap with the id of a third, 4 typed texts, 2 loads at once | a question is judged by a benchmark with its words, or with its id if the bank has that twice |
| `Verifiers` | some 1 103 000 claims, 1 or 2 blocks, up to 3 rows or columns | what a verdict of each type means; names bind sharply, filters have grounds, replays are faithful |
| `TrendOrder` | the trends of these | **violated**: an unordered series is not always refuted |

*Bounds.* Runs do not interact except through the executor's queue and its
workers, the shared log and the server; three runs on two workers give one waiting
behind two working, and two faults allow a verdict whose write raises followed by
an excuse whose write raises. A crash followed by a start puts old rows in front of
a new server. The page's two effects concern one run each, so two runs give every
overtaking. In the gate two claims and two pieces of evidence give shared and
repeated ids, one claim citing both, and both claims citing one; a third evidence
id is never in the list, or is. The planner's and judge's budgets are the
program's. Three processes let two be overtaken by a third. Two steps are as many
frames as a piece can hold with one more behind. Verdicts look at neighbouring
rows, at the first and last one, at a key's occurrences and at the first block:
three rows (two where rows are only looked up) and two blocks contain each case.
`Precision` is 4 where the code has a relative tolerance of 10^-6, so that 4 and 5, or
5 and 6, are equal within tolerance and 4 and 6, 0 and 4 or 4 and 9 are not; each type
has claims with the keys 4, 5 and 6, which is where a tolerance that is not transitive
shows, next to keys that are far apart. Names are bound among up to
three columns out of names that are alike on every tier (`Total` and `total`, `total_`
and `total`, `sales` and `total_sales`) or have no word at all; two columns make a name
ambiguous, and with a third the ambiguity of one tier meets the choice of the next.
Filters are put on a table of two columns and three values, which tells equality, its
negation, the orders and an expression apart, with two clauses of one or two
predicates. Replayed cells are counted in sixths, of which halves are floats: an int, a
Decimal, a float and a text can be the same number, two Decimals can round to one
float, and a fraction can round to a whole number. A subject of two words on three
columns is met in each single column and each run of two.

Deadlock checking is off where the system really stops: a graph, gate, verifier or
stream that is done, and a page with every question asked. `RunLifecycle`,
`SchemaBootstrap` and `Composer` always have a next step (a stopped server may
start again).

Every type invariant is proved, and so are two invariants of `RunLifecycle` that are not
run, because `ImplementsRecord` would not hold without them (`CompletedHasPlan`,
`PipelineOrder`).

### Fairness

`RunLifecycle` assumes weak fairness of what the code of each run does next, of each
judge, and of the end of shutdown: threads are scheduled, each call to the model or
the database returns or raises (both clients have timeouts, the graphs are bounded)
and `lifespan` resumes. Clients, crashes and starts owe nothing, hence the
exceptions `~Undisturbed` and `crashed` in the properties. `RunWatcher` assumes that a
timer fires and that a GET is answered or fails. `EventStream` assumes that server,
network or page do something while they can.

### What the violated runs show

* `RunJudging`. `judge_status` is "running" from the verification event on
  (`api.py:128`), and `run-reviewer.tsx:315` then tells the reader that the judge is
  checking the claims. If reading the run back raises between the two, no judge is
  ever submitted; if the process dies, its queue is forgotten. The status stays
  "running", and the page polls, for ever.
* `TrendOrder`. The docstring of `_check_sql_shape` (`trend.py:170`) calls multi-row
  evidence without ORDER BY a refutation. The loop returns at the first block with
  an ORDER BY that is not by time, before it has seen the blocks behind it.

Other places where words and code part, without a run: `_validate_output` cannot
keep an answer of which a claim is wrong in something else than its spec;
`emit_claims` may be reached after failed queries only, while its docstring speaks of
successful results; `_fail_all` fails claims without a REFUTED check to show for it;
a top-1 ranking over a NULL metric is VERIFIED, as NULLs are looked for in pairs.

Of filters (`FiltersAreGrounded` has to exclude each of these by a premise, see `Pins`,
`Plain` and `Pointed` of EvidenceChecks): a literal that happens to be compared with
another column confirms a filter (`filters.py:178`); predicates under OR, NOT and in
expressions count like plain ones, and `NOT IN` and `<>` show their literals
(`sql_analysis.py:299`, `:324`); a filter with an empty list as its value is REFUTED
as soon as an equality is on its column; the suffix taken off a key may be part of a
word (`filters.py:59`: "weekend" is read as "week").

Of names: the SELECT list is looked at before the declared names, so that a loose match
there wins over an exact one here (`domain_common.py:58`), which `ReadAsDeclared` rules
out only of evidence whose declared names were confirmed; the empty name of an unaliased
expression, and that of `t.*`, are part of every name; `SELECT t.*` is not a star.

Of the ORDER BY: a plain column keeps its own name and is never looked up among the
projections (`sql_analysis.py:252`), so `SELECT price AS total ... ORDER BY price` is
REFUTED as ordered by another column than the metric `total`, although "the same
expression the projection uses" should resolve (`top_k_ranking.py:121`).

Of subjects: a subject is found in the first column that shows it, preferred or not
(`resolve.py:253`), and any literals with its words pin it; a timestamp is compared
with its own case-folded text, which its `T` never equals (`resolve.py:114`); a claim
with an empty list of subjects counts as pinned.

Of keys: as they are compared within the tolerance (`resolve.py:139`), different
periods, labels or ids of seven and more digits may pass for one another. A sound trend
over days written as 20240101, 20240102 is FAILED, for duplicated periods; a ranking of
the ids 1000001 and 1000002 is VERIFIED in either order; a lookup of the one reads the
other's row as well, and may be FAILED for it; a category takes the first label close to
its own, so that the order of citations may matter. The properties say where they need
keys that are apart (`PeriodsApart`, `TellsApart`, the premise of
`CitationOrderIsIrrelevant`) or count what is close as the same (`RowsFor`).

Of absence: existence.py looks for an OFFSET and not for a LIMIT, so that an empty
result of LIMIT 0 is VERIFIED absence. `ExistenceIsSound` names that case; of any
other LIMIT an empty result does mean that there is nothing. The adversarial bank
(`adversarial_bank.json:20`, `:140`) asks for a count or a flag wherever there is a
LIMIT, which the code does not.

Of values: a text that reads as a number is that number, so that codes lose their
leading zeros; the rows' order is part of the fingerprint, so that a query without
ORDER BY may fail its replay; and a date or an infinite Decimal, of which
`sql_db_query` tells the model an error, is raised by the planner and the verifier,
whose canonical rows are computed outside their `try` (`AttachRaises`, `RAISED`).

## Proofs

TLC checks the instances above; the theorems hold for every number of runs,
workers, faults, crashes, processes, steps, claims and pieces of evidence, every
length of a result, a plan or a stream, and every budget and batch size. They use the
ASSUMEs of the modules and nothing else. Every invariant and every action property that
a run checks is stated by a theorem; only liveness is not.

**RunLifecycleProofs** (eight theorems). A run's progress is known in three places: its
caller's position (`pc`), its row and events in the store, and its judge's future. Every
property relates two of them and none is inductive alone: that a COMPLETED row has its
plan rests on where the caller stood when it closed the row; that a judge finds a
verified run rests on a caller having submitted it past `LogVerification`. `IInv` says
of each run how caller and row (`CallerAndRow`), row and events (`RowAndTrail`) and
judge and events (`JudgeAndTrail`) go together, when a row may stay open (`Closed`), and
of the server that its queue holds runs that are queued, each once (`QueueAndJudge`),
and how the phases of its shutdown go with the work that is left and with its log
(`ServerAndWork`): nothing waits or runs once the executor has returned, and nothing can
be added to it, since requests are drained before. From `IInv` follow the safety
properties of `RunSafety`, `CompletedHasPlan` and `PipelineOrder`, the refinement of
RunRecord, by one step per store operation, and `JudgeStatusAdvances`. The six trails a
run can have come first, as data: how they grow, that they differ, and what `Logged` and
`JudgeStatus` say of them.

**PageProofs** (six theorems). *The details of a run,* for any number of runs and failed
calls: to the page a run has nothing, a plan, or a trail that is verified. A detail
in a response or on screen is a report that may be out of date: `Faithful` ties what it
says to the record, which only moves on (`Kept`). What is hard is two calls for one run,
read at different times and delivered in either order. `Newer` says that a call which
is out has read nothing older than the screen in what must not be taken back. It is kept
because a call for the run on screen can only be overtaken by a poll, a poll is only
made once a verification is on screen (`CallsOK`), and a verification on screen means a
COMPLETED row for every later read; and because an answer arrives on an empty screen
with no call out (`Quiet`). *The question box,* for any benchmark, texts and loads: an id
outlives the suggestion it came with, and `BoxInv` says that the id of the box, and that
of a question on its way, stands next to words of a benchmark question with that id;
where several have it the lookup may find another one of these, and nothing worse.

**TrustGateProofs** (five theorems, for plans of any length over any ids). The record
operations of `base.py` are taken first: each lets a result only *evolve* (`Evolves`),
so that a failed one stays failed, a contradicted one stays contradicted, a new
failure has a contradiction to show, and status and notes go together; these lemmas
compose. A step of the gate either lets results evolve, and writes only where a
claim id leads, or fails every claim of a plan whose reference graph is broken
(`StepResults`). `Inv` then says what each phase has established of a claim that has
not failed when it is over: its citations are known (`RefsChecked`), each evidence
the replay loop has passed replayed cleanly for it, at the evidence's first occurrence
(`ReplaysChecked`), a typed verifier has decided it (`TypedChecked`). Both directions
of `VerifiedIffBacked` need all of it; that a repeated claim id excludes VERIFIED needs
`results_by_id` to lead two claims to one result (`IdsResolve`).

**PlannerProofs, JudgeProofs** (five and four theorems). `Stage` says what the
conversation looks like at each node, `StepCount` ties supersteps to attempts: at most
three per attempt in the planner, two per round in the judge, where a round that queries
nothing adds none. Hence the planner never exceeds the recursion limit that
`PlannerAssumption` leaves it, and a judge exceeds it only after an idle round. Both
graphs refine SqlBudget, the planner one query at a time once it has the schema; the
planner's answer keeps all claims and every spec that fits.

**SchemaBootstrapProofs** (two theorems). The type invariant together with
`ConnectedHasTables` is inductive: a rebuild whose inspection is outdated is refused
over current tables. `RowsSurviveStarts` is the action property from it.

**EventStreamProofs** (three theorems, for any number of steps and pieces of any length).
`Framed` says that what is in the reader's buffer and behind it on the wire are the
frames of the events that were yielded and not handled, token by token, up to where the
body was cut off. A frame of five tokens has an empty line only at its end
(`FrameTokens`), so the first boundary the reader finds is that of the first frame, and
parsing gives back its event (`FrameHandled`); a piece moves tokens from wire to buffer
without a change of what is ahead (`PieceRead`). Since nothing is yielded after `done`
(`EndsOnce`), a question is answered iff `done` was handled.

**VerifierProofs** (thirteen theorems, for any names, numbers, tables, claims and
evidence). First the checks made of any claim.
*Names:* each tier of likeness contains the stricter ones (`TiersNest`), so at most one
tier decides (`OneDecision`); what is bound there is the only column like the name
(`NamesAreNeverGuessed`). If the declared names agree with the query's, a name declared
for a position is alone on the strictest tiers there (`DeclaredNamesAreRead`).
*Filters:* a verdict is traced back to the check that gave it (`ChecksInOrder`,
`VerdictGrounds`). A refuted filter has an equality on its column that leaves a value
out, and the rows let through are among that equality's literals (`RefutedIsExcluded`).
A confirmed one has its values among the literals of predicates on its column, each of
which some row of the scope has (`LiteralsAreInScope`), or in a cell of that column,
which is in the scope as every row of the result is (`FoundIsAdmitted`).
*Replays:* canonical cells are equal only of close cells, and are equal for cells that
are the same number (`CanonicalCells`); writing one again does not change it
(`WrittenAgain`), hence rows copied from the tool have the fingerprint of the execution.

Then the verdicts of the seven claim types. A claim is what it was and its status is its
verifier's verdict (`Judged`), so each theorem is about the sequence of one verifier's
checks: of a VERIFIED claim all were confirmed, of a FAILED one some was refuted
(`VerdictOfFour` to `VerdictOfEight`). The verifiers speak of records by place, the
properties of rows as a set and of how often a key occurs; the bridge is that one record
is one occurrence (`OnlyOne`, `RowsAreRecords`) and that the first record is there
(`Least`). *Comparisons:* exactly one of an operator and its negation holds
(`NegationIsRefuted`), and equality within a tolerance is symmetric, although it is not
transitive (`EqualBothWays`, `MirrorIsTheSame`). *Rankings:* neighbours in order make all
pairs in order (`RanksInOrder`, by induction along the rows, with no ties), and subjects
that pass are close to the keys of the rows, as many as there are (`SubjectsAreKeys`), so
that over rows which are told apart another list fails at the first place it differs.
*Distributions:* no label is close to another row's, so that keys, rows and what is summed
correspond (`CategoriesAreRows`). *Trends:* in one block ordered by time the place of a
period is its place in time (`PeriodsInOrder`), so that steps in row order which keep
the direction (`StepsKeepDirection`) keep it in time (`MonotonicIsSteady`); conversely a
series that is steady in time passes every check of the series (`SteadySeriesHolds`).
*The order of citations:* reversing the blocks maps the places of records one to one
(`TurnedRecords`), and what the three verifiers ask of them (one record, all columns
resolved, some block grouped, no category twice) does not depend on their order
(`TurnedOnly`, `TurnedCategorical`); nor does which record is the first of one
(`TurnedSingle`, `TurnedCovered`). *Lookups:* the place of a subject is the best of the
places that show all of it (`BestPlace`), columns before runs of columns
(`ColumnsBeforeRuns`), the preferred column first; such a place shows each subject in
some row (`QualityShowsSubjects`).

What a theorem about a verifier assumes of claims is what the code has established when
it calls one: evidence is there and its rows are sequences (`EvidenceAssumption`; the
orchestrator fails every claim that does not replay), the contract is one of its type
with its fields (`ContractAssumption`, `ComparisonAssumption`, `TopKAssumption`, `DistributionAssumption`; the
schemas of `domain_types/claims.py` validate it), and periods are numbered in time, as is
the order of rows that are sorted by it (`TrendAssumption`). The rows of an existence
claim are what OFFSET and LIMIT leave (`ExistenceAssumption`). TLC evaluates them all on the
claims of `Verifiers`.

| Theorem | Property | Assumption used |
|---|---|---|
| `TypeCorrect`, `CompletedRunsHavePlans`, `EventsFollowThePipeline`, `AnswersScheduleJudges`, `EndedRunsAreClosed`, `LogOutlivesItsUsers`, `RecordIsImplemented`, `JudgeStatusesAdvance` | those of `RunSafety`, its `TypeOK`, `CompletedHasPlan` and `PipelineOrder` | faults, workers and crashes are numbers |
| `PageTypeCorrect`, `CompletedIsShownWithPlan`, `SelectionIsFollowed`, `ScreenIsNotTakenBack` | those of `RunWatch`, but for liveness, and its `WatchTypeOK` | there is a value that is no run; failures are a number |
| `BoxTypeCorrect`, `QuestionsMeetTheirBenchmark` | `BenchmarkFits` of `Compose`, and its `BoxTypeOK` | adversarial ids are distinct and no id is undefined; at least one suggestion may load |
| `StreamTypeCorrect`, `EventsArriveInOrder`, `OnlyDoneAnswers` | `HandledIsPrefix`, `AnsweredIffDone` of `Stream`, and its `TypeOK` | steps are bounded by a number |
| `GateTypeCorrect`, `NoRehabilitation`, `FailuresHaveGrounds`, `VerifiedClaimsAreBacked`, `GateIsExact` | those of `TrustGate`, and its `TypeOK` | lengths are numbers |
| `PlannerTypeCorrect`, `PlannerAnswersCalls`, `PlannerStaysInLimit`, `AnswersLoseOnlyMisfits`, `PlannerKeepsBudget` | those of `Planner`, and its `TypeOK` | limit >= 3 * budget + 5 |
| `JudgeTypeCorrect`, `JudgeAnswersCalls`, `OnlyIdleJudgesRunOut`, `JudgeKeepsBudget` | those of `Judge`, and its `TypeOK` | limit >= 2 * budget + 5 |
| `StartsAreSafe`, `RowsSurviveStarts` | those of `Bootstrap`, and its `TypeOK` | rows are bounded by a number |
| `NamesAreNeverGuessed`, `DeclaredNamesAreRead`, `NamesAreBoundSharply`, `FiltersHaveGrounds`, `ReplaysAreFaithful` | `NamesBindSharply`, `FiltersAreGrounded`, `ReplayIsFaithful` of `Verifiers` | equal texts are equal names and equal folded texts have equal words; a table's columns have words and its cells are numbers; rounding is monotonic and keeps floats and whole numbers |
| `TrendsHold`, `RankingsAreSound`, `ComparisonsAreDecided`, `DistributionsAreWhole`, `AggregatesAreComputed`, `LookupsAreSound`, `ExistenceIsShown`, `OrderOfCitations` | the typed verdicts of `Verifiers` | the assumptions on claims above; cells are numbers or NULL; the tolerance is a number |

What stays with TLC is liveness, as fairness and ENABLED are out of the prover's reach:
`RequestsEnd`, `JudgesReport` and `ShutdownEnds` of the server, `VerdictIsShown` of the
page, `QuestionSettles` of the stream. What a fold computes (`Sum` of LookupVerifiers) is
not proved either, as that is induction over data: `DistributionsAreWhole` holds whatever
it computes, since the verifier sums exactly the function of the rows that
`DistributionIsSound` sums. `TLC` evaluates the sums.

## Not modelled, and why

* What the SQL parser makes of a text is an input: the terms of the SELECT list, the
  predicates below the conditions and the clauses they stand in, and for the typed
  verifiers ORDER BY, LIMIT, OFFSET and grouping as traits of a block. Joins and
  subqueries are not told apart from the rest, as in the code.
* The typed verifiers still take how a name resolved ("exact", "loose", "none") as a
  trait of the block; NameResolution says when each is the case.
* Typed verifiers see blocks that replayed (the gate has failed every other claim),
  whole numbers (rounding to reported decimals never applies), and comparable
  cells. Infinities, values that do not compare, ragged rows, and composite or several
  subjects (SubjectResolution has these) are left out there.
* Key cells are numbers there, and a text without a number is a number that is close to no
  other. In SubjectResolution every cell is a text: a number cell is compared through the
  number its text reads as, which equals it.
* In fingerprints NaN and nested values; the hash is taken to be injective. In TrustGate
  a replay matches or not.
* TOOL_CALL events, summaries, session and model ids: no status is derived from them.
* Prompts, the wording of notes, progress lines and rendering.
* The table view: that the table last asked for is the one shown is plainly false
  (`app-shell.tsx:128` has no guard) and no text promises it. The contents of the
  sidebar: a list read before a question and arriving after its answer drops the new
  run until the next list; only the selection is modelled.

## Plan

Order: the run's life first, since it is what all parts share and where failures
meet; then what decides the trust in an answer (gate, verifiers); then the loops
around models; then the edges (stream, page, box, schema).

Done: all modules above with their runs; the theorems listed.

Next, in this order: (1) the shape of a query (`order_keys`, limits, grouping) as
operators that replace the traits in ClaimChecks; (2) reported decimals in
`ReportedNumbersEqual`; (3) the sidebar's list in RunWatcher; (4) tool-call tracing in
RunLifecycle; (5) the refinement of a page-level specification of a question (asked, shown,
judged) by RunWatcher and Composer together.
