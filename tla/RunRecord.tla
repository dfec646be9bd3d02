------------------------------ MODULE RunRecord ------------------------------
(***************************************************************************)
(* What the provenance store promises its readers about each run, with no   *)
(* mention of requests, threads, processes or failures: the row is opened   *)
(* once and closed at most once, the plan is recorded while the row is open, *)
(* only a completed run is verified, only a verified run is judged, and a   *)
(* verdict may be followed by one failed verdict at most.                   *)
(***************************************************************************)
EXTENDS RunEvents

CONSTANT Runs

VARIABLES row, trail

Init == /\ row = [r \in Runs |-> "absent"]
        /\ trail = [r \in Runs |-> <<>>]

Open(r) == /\ row[r] = "absent"
           /\ row' = [row EXCEPT ![r] = "running"]
           /\ UNCHANGED trail

Plan(r) == /\ row[r] = "running"
           /\ trail[r] = <<>>
           /\ trail' = [trail EXCEPT ![r] = <<"PLAN">>]
           /\ UNCHANGED row

Complete(r) == /\ row[r] = "running"
               /\ trail[r] = <<"PLAN">>
               /\ row' = [row EXCEPT ![r] = "COMPLETED"]
               /\ UNCHANGED trail

Fail(r) == /\ row[r] = "running"
           /\ row' = [row EXCEPT ![r] = "FAILED"]
           /\ UNCHANGED trail

Verify(r) == /\ row[r] = "COMPLETED"
             /\ trail[r] = <<"PLAN">>
             /\ trail' = [trail EXCEPT ![r] = <<"PLAN", "VERIFICATION">>]
             /\ UNCHANGED row

Report(r, v) == /\ trail[r] = <<"PLAN", "VERIFICATION">>
                /\ trail' = [trail EXCEPT ![r] = Append(@, v)]
                /\ UNCHANGED row

Amend(r) == /\ trail[r] = <<"PLAN", "VERIFICATION", "JUDGE">>
            /\ trail' = [trail EXCEPT ![r] = Append(@, "JUDGE_ERROR")]
            /\ UNCHANGED row

Next == \E r \in Runs : \/ Open(r) \/ Plan(r) \/ Complete(r) \/ Fail(r)
                        \/ Verify(r) \/ Amend(r)
                        \/ \E v \in Verdicts : Report(r, v)

Spec == Init /\ [][Next]_<<row, trail>>
=============================================================================
