--------------------------- MODULE ProvenanceStore ---------------------------
(***************************************************************************)
(* The provenance schema in Postgres and the QueryLog object through which *)
(* every other part of TAQR writes to it (provenance/query_log.py).        *)
(*                                                                         *)
(* The store keeps one row per run (its status) and, per run, the events   *)
(* in commit order.                                                         *)
(*                                                                         *)
(* Every write is one transaction, so it either commits or it does not,    *)
(* and a caller that sees an exception cannot tell which:                  *)
(*   "ok"       committed, the call returns                                 *)
(*   "lost"     nothing committed, the call raises                          *)
(*   "ackLost"  committed, but the call raises (connection lost on COMMIT)   *)
(***************************************************************************)
EXTENDS RunEvents

CONSTANTS Runs,        \* run ids, fresh uuid4s
          MaxFaults    \* bound on the store operations that raise

ASSUME FaultsAssumption == MaxFaults \in Nat

VARIABLES status,   \* status[r]: the status column of r's row, or "absent"
          events,   \* events[r]: kinds of r's events, in commit order
          faults    \* number of store operations that raised so far

storeVars == <<status, events, faults>>

Outcomes == {"ok", "lost", "ackLost"}

StoreTypeOK ==
  /\ status \in [Runs -> Statuses]
  /\ events \in [Runs -> Seq(EventType)]
  /\ faults \in 0..MaxFaults

StoreInit ==
  /\ status = [r \in Runs |-> "absent"]
  /\ events = [r \in Runs |-> <<>>]
  /\ faults = 0

-----------------------------------------------------------------------------
(* What a store operation may report.  Each method first raises if its      *)
(* QueryLog has no engine (not open); otherwise the outcome is the          *)
(* database's choice, within the bound on faults.                           *)

Committed(o) == o # "lost"
Raised(o)    == o # "ok"

Call(open, o) ==
  /\ o \in IF ~open THEN {"lost"}
           ELSE IF faults < MaxFaults THEN Outcomes ELSE {"ok"}
  /\ faults' = IF open /\ Raised(o) THEN faults + 1 ELSE faults

\* INSERT into runs; the column default of status is 'running' (ddl.py).
LogRun(r, open, o) ==
  /\ Call(open, o)
  /\ status' = [status EXCEPT ![r] = IF Committed(o) THEN "running" ELSE @]
  /\ UNCHANGED events

\* The UPDATE has no guard on the row's present status.
FinishRun(r, s, open, o) ==
  /\ Call(open, o)
  /\ status' = [status EXCEPT ![r] = IF Committed(o) THEN s ELSE @]
  /\ UNCHANGED events

LogEvent(r, e, open, o) ==
  /\ Call(open, o)
  /\ events' = [events EXCEPT ![r] = IF Committed(o) THEN Append(@, e) ELSE @]
  /\ UNCHANGED status

\* A read that raises; one that succeeds changes nothing.
ReadFails(open) == Call(open, "lost") /\ UNCHANGED <<status, events>>
=============================================================================
