----------------------------- MODULE RunWatcher ------------------------------
(***************************************************************************)
(* One page of the browser (app-shell.tsx) in front of the run records:      *)
(* asking a question, selecting runs, and the two effects that call GET      *)
(* /api/runs/{id} (api.py, get_run), one to load the selected run and one to  *)
(* poll it while its judge is said to be running.                           *)
(*                                                                         *)
(* get_run reads the row and the events in two transactions, and a response  *)
(* may arrive long after its reads.  Each effect drops its own superseded     *)
(* call (the "active" flags), but a load and a poll of the same run may both  *)
(* be out.  calls[c] for c in {"load", "poll"}:                             *)
(*   for   the run it asks for, or NoRun when no live call is out            *)
(*   row   the status it read first, or "unread"                            *)
(*   got   the response, once the events are read too, else Nothing          *)
(* The page runs its effects before it handles another response.             *)
(***************************************************************************)
EXTENDS RunRecord

CONSTANTS NoRun,
          MaxFailures   \* bound on the calls that fail

ASSUME WatchAssumption == NoRun \notin Runs /\ MaxFailures \in Nat

VARIABLES asking,     \* the run of the question in flight (submitting), or NoRun
          selected,   \* selectedRunId
          shown,      \* run, the detail on screen
          listed,     \* the initial listRuns was answered
          calls, failures

recordVars == <<row, trail>>
pageVars   == <<asking, selected, shown, listed, calls, failures>>
allVars    == <<recordVars, pageVars>>

JudgeStatuses == {"not_started", "running", "completed", "failed"}

Nothing == [of |-> NoRun, row |-> "absent", plan |-> FALSE, judge |-> "not_started"]
Details == [of : Runs, row : RunStatus \cup {"running"}, plan : BOOLEAN,
            judge : JudgeStatuses]

NoCall   == [for |-> NoRun, row |-> "unread", got |-> Nothing]
Issue(r) == [NoCall EXCEPT !.for = r]

WatchTypeOK ==
  /\ asking \in Runs \cup {NoRun}
  /\ selected \in Runs \cup {NoRun}
  /\ shown \in Details \cup {Nothing}
  /\ listed \in BOOLEAN
  /\ calls \in [{"load", "poll"} ->
                  [for : Runs \cup {NoRun}, row : RunStatus \cup {"running", "unread"},
                   got : Details \cup {Nothing}]]
  /\ failures \in 0..MaxFailures

WatchInit ==
  /\ Init
  /\ asking = NoRun /\ selected = NoRun /\ shown = Nothing
  /\ listed = FALSE
  /\ calls = [c \in {"load", "poll"} |-> NoCall]
  /\ failures = 0

-----------------------------------------------------------------------------
(* The effects.                                                             *)

\* On a change of the selected run or of submitting; its cleanup drops the
\* previous load.
LoadEffect(r, ask) == IF r # NoRun /\ ask = NoRun THEN Issue(r) ELSE NoCall

\* Bug: a run is polled until its verification, not after it.
PollNeededBeforeVerification ==
  shown.of = selected /\ selected # NoRun /\ shown.judge = "not_started"

\* Bug: a run is polled from the start, to see its verification arrive.
PollNeededFromStart ==
  shown.of = selected /\ selected # NoRun /\ shown.judge \in {"not_started", "running"}

\* On a change of the detail or of the selected run the poll effect is cleaned
\* up; it is armed again whenever PollNeeded holds.
PollNeeded == shown.of = selected /\ shown.judge = "running"

\* The timer fires.
Poll ==
  /\ PollNeeded
  /\ calls["poll"].for = NoRun
  /\ calls' = [calls EXCEPT !["poll"] = Issue(selected)]
  /\ UNCHANGED <<recordVars, asking, selected, shown, listed, failures>>

-----------------------------------------------------------------------------
(* The user, and the answers to the page's other calls.                      *)

ChangeSelection(r) ==
  /\ selected' = r
  /\ calls' = IF r = selected THEN calls
              ELSE [load |-> LoadEffect(r, asking), poll |-> NoCall]

Select(r) ==
  /\ r # selected
  /\ row[r] # "absent"
  /\ ChangeSelection(r)
  /\ UNCHANGED <<recordVars, asking, shown, listed, failures>>

\* The first of the listed runs is selected, whatever the user did meanwhile; none if
\* the call failed or the list was empty when it was read.
RunsListed ==
  /\ ~listed
  /\ listed' = TRUE
  /\ \/ UNCHANGED <<selected, calls>>
     \/ \E r \in Runs : row[r] # "absent" /\ ChangeSelection(r)
  /\ UNCHANGED <<recordVars, asking, shown, failures>>

\* submitQuestion, up to its await; r is the run the server will open.
Submit(r) ==
  /\ asking = NoRun
  /\ row[r] = "absent"
  /\ asking' = r
  /\ selected' = NoRun
  /\ shown' = Nothing
  /\ calls' = [load |-> LoadEffect(NoRun, r), poll |-> NoCall]
  /\ UNCHANGED <<recordVars, listed, failures>>

Detail(r, s, t) ==
  [of |-> r, row |-> s, plan |-> Logged(t, "PLAN"), judge |-> JudgeStatus(t)]

\* The "done" event: the detail the server read back before it submitted the judge.
Answered(r) ==
  /\ asking = r
  /\ Logged(trail[r], "VERIFICATION")
  /\ asking' = NoRun
  /\ selected' = r
  /\ shown' = Detail(r, row[r], <<"PLAN", "VERIFICATION">>)
  /\ calls' = [load |-> LoadEffect(r, NoRun), poll |-> NoCall]
  /\ UNCHANGED <<recordVars, listed, failures>>

\* Bug: the load effect does not depend on submitting.
AskFailsQuietly ==
  /\ asking # NoRun
  /\ asking' = NoRun
  /\ UNCHANGED <<recordVars, selected, shown, listed, calls, failures>>

\* An "error" event, a stream that ends early, a refused request.
AskFails ==
  /\ asking # NoRun
  /\ asking' = NoRun
  /\ calls' = [calls EXCEPT !["load"] = LoadEffect(selected, NoRun)]
  /\ UNCHANGED <<recordVars, selected, shown, listed, failures>>

-----------------------------------------------------------------------------
(* One GET.                                                                 *)

\* Bug: the events are read before the row.
ReadEventsFirst(c) ==
  LET call == calls[c]
      r    == call.for
  IN  /\ r # NoRun /\ call.row = "unread"
      /\ calls' = [calls EXCEPT ![c] =
           IF call.got = Nothing THEN [call EXCEPT !.got = Detail(r, "running", trail[r])]
           ELSE [call EXCEPT !.row = row[r], !.got.row = row[r]]]
      /\ UNCHANGED <<recordVars, asking, selected, shown, listed, failures>>

\* get_run_metadata, then get_run_events.
Read(c) ==
  LET call == calls[c]
      r    == call.for
  IN  /\ r # NoRun /\ call.got = Nothing
      /\ calls' = [calls EXCEPT ![c] =
           IF call.row = "unread" THEN [call EXCEPT !.row = row[r]]
           ELSE [call EXCEPT !.got = Detail(r, call.row, trail[r])]]
      /\ UNCHANGED <<recordVars, asking, selected, shown, listed, failures>>

\* setRun: a new detail ends the poll effect; the load stays out if it was a poll.
Deliver(c) ==
  /\ calls[c].got # Nothing
  /\ shown' = calls[c].got
  /\ calls' = [calls EXCEPT ![c] = NoCall, !["poll"] = NoCall]
  /\ UNCHANGED <<recordVars, asking, selected, listed, failures>>

\* A failed load is reported and over; a failed poll is repeated.
CallFails(c) ==
  /\ calls[c].for # NoRun
  /\ failures < MaxFailures
  /\ failures' = failures + 1
  /\ calls' = [calls EXCEPT ![c] = NoCall]
  /\ UNCHANGED <<recordVars, asking, selected, shown, listed>>

Get(c) == Read(c) \/ Deliver(c) \/ CallFails(c)

Page ==
  \/ \E c \in {"load", "poll"} : Get(c)
  \/ Poll \/ RunsListed \/ AskFails
  \/ \E r \in Runs : Select(r) \/ Submit(r) \/ Answered(r)

WatchNext == Page \/ (Next /\ UNCHANGED pageVars)

WatchSpec == WatchInit /\ [][WatchNext]_allVars

\* Timers fire and a call out is answered or fails; users owe nothing.
WatchFairSpec ==
  /\ WatchSpec
  /\ WF_allVars(Poll)
  /\ WF_allVars(Get("load")) /\ WF_allVars(Get("poll"))

-----------------------------------------------------------------------------
(* Properties.                                                              *)

\* A run shown as COMPLETED is shown with its plan although row and events are
\* read apart: the plan is logged before the row is closed, and the row is read
\* first.
ShownCompletedHasPlan == shown.row = "COMPLETED" => shown.plan

\* The page is never left behind the selection: what is selected is shown, on
\* its way, waiting for the question in flight, or its load failed.
SelectedIsShown ==
  selected # NoRun /\ shown.of # selected =>
    asking # NoRun \/ calls["load"].for = selected \/ failures > 0

\* Of one run, a later detail may be older than the one before it (a slow load
\* overtaken by a poll), but only in its verdict: a closed row is not shown open
\* or otherwise closed, and a verification is not taken back, which would end
\* the polling before the verdict.
VerificationIsNotTakenBack ==
  [][shown.of # NoRun /\ shown'.of = shown.of =>
       /\ shown.row \in RunStatus => shown'.row = shown.row
       /\ shown'.judge = "not_started" => shown.judge = "not_started"]_allVars

\* A verdict in the store eventually replaces the running judge on screen, while
\* the user stays with that run.
VerdictIsShown ==
  \A r \in Runs :
    (selected = r /\ shown.of = r /\ shown.judge = "running"
       /\ JudgeStatus(trail[r]) # "running") ~>
      \/ shown.of = r /\ shown.judge \in {"completed", "failed"}
      \/ selected # r
=============================================================================
