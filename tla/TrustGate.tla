------------------------------ MODULE TrustGate ------------------------------
(***************************************************************************)
(* The trust gate (verifier/verifier.py, verify_response): the orchestrator *)
(* that decides how much of a plan can be trusted, with the record          *)
(* operations of verifier/base.py.  It runs in one thread; the steps below   *)
(* are its loop bodies, in program order.                                   *)
(*                                                                         *)
(* A plan is data: claims with an id and the evidence ids they cite, and a   *)
(* list of evidence ids, any of which the language model may repeat, forget  *)
(* or invent.  What a check finds in the database or in the SQL is a choice   *)
(* of the step that makes it: a replay outcome per evidence, annotation        *)
(* findings and a typed verdict per claim.                                   *)
(***************************************************************************)
EXTENDS Naturals, Sequences, FiniteSets

CONSTANTS ClaimIds, EvidenceIds,
          MaxClaims, MaxEvidence   \* bounds on the lengths of a plan's lists

ASSUME BoundsAssumption == MaxClaims \in Nat /\ MaxEvidence \in Nat

VARIABLES claims,    \* claims[i] = [id, cites]
          evidence,  \* ids of the evidence list
          byId,      \* results_by_id: the last position of each claim id
          replays,   \* context.replays: what replaying each cited evidence gave
          results,   \* results[i]: the ClaimVerification of claims[i]
          gate,      \* VerifiedResponse.status
          pc, at     \* the loop being run and its position

vars == <<claims, evidence, byId, replays, results, gate, pc, at>>
plan == <<claims, evidence, byId>>

VerificationStatus == {"VERIFIED", "PARTIALLY_VERIFIED", "NOT_VERIFIED", "FAILED"}

\* A replay that is not "clean" names the check it fails; sql_safety fails for
\* SQL that does not parse as one read-only query ("unparsed") or that the
\* database rejects ("rejected").
ReplayOutcomes == {"clean", "unparsed", "rejected", "row_count", "row_shape", "hash"}

\* GROUNDING_CHECKS as the gate uses them; "typed_grounding" stands for those of
\* the typed verifiers, "typed" for their refutable checks.
GroundingChecks == {"columns", "metric", "filters", "typed_grounding"}
IntegrityChecks == {"sql_safety", "row_count", "row_shape", "hash"}
Checks == GroundingChecks \cup IntegrityChecks
            \cup {"evidence_refs", "filters_conflict", "typed"}

Result == [status : VerificationStatus, confirmed : SUBSET Checks,
           refuted : SUBSET Checks, notes : SUBSET Checks]

Blank == [status |-> "NOT_VERIFIED", confirmed |-> {}, refuted |-> {}, notes |-> {}]

Positions == DOMAIN claims
Known     == {evidence[k] : k \in DOMAIN evidence}
Cited     == UNION {claims[i].cites : i \in Positions}

TypeOK ==
  /\ claims \in Seq([id : ClaimIds, cites : SUBSET EvidenceIds])
  /\ evidence \in Seq(EvidenceIds)
  /\ byId \in [{claims[i].id : i \in Positions} -> Positions]
  /\ replays \in [Known \cap Cited -> ReplayOutcomes \cup {"unread"}]
  /\ results \in [Positions -> Result]
  /\ gate \in VerificationStatus
  /\ pc \in {"entry", "refs", "context", "replay", "annotate", "typed", "gate",
             "done", "raised"}
  /\ at \in Nat \ {0}

SeqsUpTo(S, n) == UNION {[1..k -> S] : k \in 0..n}

Init ==
  /\ claims \in SeqsUpTo([id : ClaimIds, cites : SUBSET EvidenceIds], MaxClaims)
  /\ evidence \in SeqsUpTo(EvidenceIds, MaxEvidence)
  /\ byId \in [{claims[i].id : i \in Positions} -> Positions]
  /\ \A i \in Positions : /\ claims[byId[claims[i].id]].id = claims[i].id
                          /\ i <= byId[claims[i].id]
  /\ replays = [e \in Known \cap Cited |-> "unread"]
  /\ results = [i \in Positions |-> Blank]
  /\ gate = "NOT_VERIFIED"
  /\ pc = "entry"
  /\ at = 1

-----------------------------------------------------------------------------
(* base.py: the only functions that write a result.                          *)

Failed(res) == res.status = "FAILED"

Confirm(res, check) == [res EXCEPT !.confirmed = @ \cup {check}]

\* Bug: a soft failure fails the claim.
InconclusiveAsFailure(res, check) ==
  [res EXCEPT !.status = "FAILED", !.notes = @ \cup {check}]

Inconclusive(res, check) ==
  [res EXCEPT !.status = IF @ = "FAILED" THEN @ ELSE "PARTIALLY_VERIFIED",
              !.notes = @ \cup {check}]

Refute(res, check) ==
  IF check \in GroundingChecks THEN Inconclusive(res, check)
  ELSE [res EXCEPT !.status = "FAILED", !.refuted = @ \cup {check}]

FinalizeClaim(res) ==
  IF Failed(res) THEN res
  ELSE [res EXCEPT !.status = IF res.notes # {} THEN "PARTIALLY_VERIFIED"
                              ELSE "VERIFIED"]

\* _fail_all
FailAll(checks) ==
  [i \in Positions |-> [results[i] EXCEPT !.confirmed = @ \cup checks,
                                          !.status = "FAILED"]]

-----------------------------------------------------------------------------
(* verify_response.                                                          *)

ResultOf(i) == byId[claims[i].id]

Enter(p) == pc' = p /\ at' = 1

NoClaims ==
  /\ pc = "entry" /\ claims = <<>>
  /\ gate' = "FAILED"
  /\ pc' = "done"
  /\ UNCHANGED <<plan, replays, results, at>>

NoEvidence ==
  /\ pc = "entry" /\ claims # <<>> /\ evidence = <<>>
  /\ results' = FailAll({})
  /\ gate' = "FAILED"
  /\ pc' = "done"
  /\ UNCHANGED <<plan, replays, at>>

Duplicated == \E j, k \in DOMAIN evidence : j # k /\ evidence[j] = evidence[k]

\* verify_evidence_refs, before its loop: it returns, and verification goes on.
DuplicateEvidence ==
  /\ pc = "entry" /\ claims # <<>> /\ evidence # <<>>
  /\ Duplicated
  /\ results' = FailAll({"evidence_refs"})
  /\ gate' = "FAILED"
  /\ Enter("context")
  /\ UNCHANGED <<plan, replays>>

DistinctEvidence ==
  /\ pc = "entry" /\ claims # <<>> /\ evidence # <<>>
  /\ ~Duplicated
  /\ Enter("refs")
  /\ UNCHANGED <<plan, replays, results, gate>>

\* Bug: an unknown evidence id is skipped, as context.cited() skips it.
CheckRefsOfKnown(i) ==
  LET res == results[ResultOf(i)]
  IN  IF Failed(res) THEN res
      ELSE IF claims[i].cites = {} THEN Refute(res, "evidence_refs")
      ELSE Confirm(res, "evidence_refs")

CheckRefs(i) ==
  LET res == results[ResultOf(i)]
  IN  IF Failed(res) THEN res
      ELSE IF claims[i].cites = {} \/ ~(claims[i].cites \subseteq Known)
           THEN Refute(res, "evidence_refs")
      ELSE Confirm(res, "evidence_refs")

RefsOfClaim ==
  /\ pc = "refs" /\ at <= Len(claims)
  /\ results' = [results EXCEPT ![ResultOf(at)] = CheckRefs(at)]
  /\ at' = at + 1
  /\ UNCHANGED <<plan, replays, gate, pc>>

\* Evidence that no claim cites fails the response as a whole.
RefsDone ==
  /\ pc = "refs" /\ at > Len(claims)
  /\ Known \subseteq Cited
  /\ Enter("context")
  /\ UNCHANGED <<plan, replays, results, gate>>

UnreferencedEvidence ==
  /\ pc = "refs" /\ at > Len(claims)
  /\ ~(Known \subseteq Cited)
  /\ results' = FailAll({"evidence_refs"})
  /\ gate' = "FAILED"
  /\ Enter("context")
  /\ UNCHANGED <<plan, replays>>

\* build_context: each cited evidence id is parsed and replayed once.
BuildContext ==
  /\ pc = "context"
  /\ replays' \in [Known \cap Cited -> ReplayOutcomes]
  /\ Enter("replay")
  /\ UNCHANGED <<plan, results, gate>>

\* The integrity checks of one replay, up to the first one that fails.
Passed(outcome) ==
  CASE outcome \in {"unparsed", "rejected"} -> {}
    [] outcome = "row_count" -> {"sql_safety"}
    [] outcome = "row_shape" -> {"sql_safety", "row_count"}
    [] outcome = "hash" -> {"sql_safety", "row_count", "row_shape"}
    [] outcome = "clean" -> IntegrityChecks

Broken(outcome) == IF outcome \in {"unparsed", "rejected"} THEN "sql_safety" ELSE outcome

\* named: _check_declared_columns, reached by replays that pass row_shape.
CheckReplay(res, outcome, named) ==
  LET shaped == "row_shape" \in Passed(outcome)
      base   == [res EXCEPT !.confirmed = @ \cup Passed(outcome)]
      cols   == IF ~shaped \/ named = "NONE" THEN base
                ELSE IF named = "CONFIRMED" THEN Confirm(base, "columns")
                ELSE Inconclusive(base, "columns")
  IN  IF outcome = "clean" THEN cols ELSE Refute(cols, Broken(outcome))

FirstOccurrence(k) == \A j \in 1..(k - 1) : evidence[j] # evidence[k]
Replayed(k)        == evidence[k] \in Cited /\ FirstOccurrence(k)

\* Bug: only the first claim that cites an evidence hears of its replay.
CitingFirst(e) ==
  {ResultOf(i) : i \in {i \in Positions :
     /\ e \in claims[i].cites
     /\ \A j \in 1..(i - 1) : e \notin claims[j].cites}}

\* _claim_results_for_evidence
Citing(e) == {ResultOf(i) : i \in {i \in Positions : e \in claims[i].cites}}

ReplayEvidence ==
  /\ pc = "replay" /\ at <= Len(evidence)
  /\ Replayed(at)
  /\ \E named \in {"NONE", "CONFIRMED", "INCONCLUSIVE"} :
       results' = [i \in Positions |->
                     IF i \in Citing(evidence[at])
                     THEN CheckReplay(results[i], replays[evidence[at]], named)
                     ELSE results[i]]
  /\ at' = at + 1
  /\ UNCHANGED <<plan, replays, gate, pc>>

\* The rows have no canonical form, which only the hash check finds: it raises outside
\* any handler, and the response so far is dropped.
ReplayRaises ==
  /\ pc = "replay" /\ at <= Len(evidence)
  /\ Replayed(at)
  /\ replays[evidence[at]] \in {"hash", "clean"}
  /\ pc' = "raised"
  /\ UNCHANGED <<plan, replays, results, gate, at>>

SkipEvidence ==
  /\ pc = "replay" /\ at <= Len(evidence)
  /\ ~Replayed(at)
  /\ at' = at + 1
  /\ UNCHANGED <<plan, replays, results, gate, pc>>

ReplaysDone ==
  /\ pc = "replay" /\ at > Len(evidence)
  /\ Enter("annotate")
  /\ UNCHANGED <<plan, replays, results, gate>>

\* verify_metrics_and_filters for one claim: metric is "NONE" when the claim
\* names none, filters likewise; a filter contradicted by an equality predicate
\* is the one annotation that refutes.
Annotate(res, metric, filters) ==
  LET m == IF metric = "CONFIRMED" THEN Confirm(res, "metric")
           ELSE IF metric = "INCONCLUSIVE" THEN Inconclusive(res, "metric")
           ELSE res
  IN  CASE filters = "NONE" -> m
        [] filters = "CONFIRMED" -> Confirm(m, "filters")
        [] filters = "INCONCLUSIVE" -> Inconclusive(m, "filters")
        [] filters = "REFUTED" -> Refute(m, "filters_conflict")

HasParsed(i) == \E e \in claims[i].cites \cap DOMAIN replays : replays[e] # "unparsed"

AnnotateClaim ==
  /\ pc = "annotate" /\ at <= Len(claims)
  /\ \E metric \in {"NONE", "CONFIRMED", "INCONCLUSIVE"},
        filters \in {"NONE", "CONFIRMED", "INCONCLUSIVE", "REFUTED"} :
       results' = [results EXCEPT ![ResultOf(at)] =
                     IF Failed(@) THEN @
                     ELSE IF ~HasParsed(at) THEN Refute(@, "sql_safety")
                     ELSE Annotate(@, metric, filters)]
  /\ at' = at + 1
  /\ UNCHANGED <<plan, replays, gate, pc>>

AnnotateDone ==
  /\ pc = "annotate" /\ at > Len(claims)
  /\ Enter("typed")
  /\ UNCHANGED <<plan, replays, results, gate>>

\* A typed verifier refutes the claim, leaves notes, or is satisfied; except
\* after a refutation it ends in finalize_claim.
Verdict(res, finding) ==
  CASE finding = "REFUTED" -> Refute(res, "typed")
    [] finding = "INCONCLUSIVE" -> FinalizeClaim(Inconclusive(res, "typed_grounding"))
    [] finding = "CONFIRMED" -> FinalizeClaim(Confirm(res, "typed"))

\* Bug: a claim that already failed is dispatched like the others.
VerdictOnFailed(res, finding) ==
  IF finding = "CONFIRMED" THEN [res EXCEPT !.status = "VERIFIED"]
  ELSE Verdict(res, finding)

Dispatch(res, finding) == IF Failed(res) THEN res ELSE Verdict(res, finding)

TypedClaim ==
  /\ pc = "typed" /\ at <= Len(claims)
  /\ \E finding \in {"REFUTED", "INCONCLUSIVE", "CONFIRMED"} :
       results' = [results EXCEPT ![ResultOf(at)] = Dispatch(@, finding)]
  /\ at' = at + 1
  /\ UNCHANGED <<plan, replays, gate, pc>>

\* A typed verifier raises: verify_response has no handler.
TypedRaises ==
  /\ pc = "typed" /\ at <= Len(claims)
  /\ ~Failed(results[ResultOf(at)])
  /\ pc' = "raised"
  /\ UNCHANGED <<plan, replays, results, gate, at>>

TypedDone ==
  /\ pc = "typed" /\ at > Len(claims)
  /\ Enter("gate")
  /\ UNCHANGED <<plan, replays, results, gate>>

\* _gate_status
GateStatus(statuses) ==
  IF statuses = {} THEN "FAILED"
  ELSE IF statuses = {"VERIFIED"} THEN "VERIFIED"
  ELSE IF statuses \cap {"VERIFIED", "PARTIALLY_VERIFIED"} # {} THEN "PARTIALLY_VERIFIED"
  ELSE IF "FAILED" \in statuses THEN "FAILED"
  ELSE "NOT_VERIFIED"

Decide ==
  /\ pc = "gate"
  /\ gate' = GateStatus({results[i].status : i \in Positions})
  /\ pc' = "done"
  /\ UNCHANGED <<plan, replays, results, at>>

Next ==
  \/ NoClaims \/ NoEvidence \/ DuplicateEvidence \/ DistinctEvidence
  \/ RefsOfClaim \/ RefsDone \/ UnreferencedEvidence
  \/ BuildContext \/ ReplayEvidence \/ ReplayRaises \/ SkipEvidence \/ ReplaysDone
  \/ AnnotateClaim \/ AnnotateDone
  \/ TypedClaim \/ TypedRaises \/ TypedDone \/ Decide

Spec == Init /\ [][Next]_vars

-----------------------------------------------------------------------------
(* Properties.                                                              *)

GraphOK == ~Duplicated /\ Known \subseteq Cited /\ evidence # <<>>

\* What the gate exists to establish of claim i: it cites something, everything
\* it cites is in the plan, and each citation replayed safely to the declared
\* rows.
Backed(i) ==
  /\ claims[i].cites # {}
  /\ claims[i].cites \subseteq DOMAIN replays
  /\ \A e \in claims[i].cites : replays[e] = "clean"

DistinctClaims == \A i, j \in Positions : claims[i].id = claims[j].id => i = j

\* The gate says VERIFIED exactly when the reference graph is complete and
\* unambiguous, each claim is backed, and no check refuted or doubted it.  Two
\* claims that share an id are never VERIFIED together: only the last one's
\* result is ever written.
VerifiedIffBacked ==
  pc = "done" =>
    (gate = "VERIFIED" <=>
       /\ claims # <<>> /\ GraphOK /\ DistinctClaims
       /\ \A i \in Positions : /\ Backed(i)
                               /\ results[i].refuted = {} /\ results[i].notes = {})

\* A single VERIFIED result means the same whatever happens to other claims, for
\* every claim that shares it.
VerifiedClaimIsBacked ==
  \A i \in Positions :
    pc \in {"gate", "done"} /\ results[ResultOf(i)].status = "VERIFIED" =>
      GraphOK /\ Backed(i) /\ results[ResultOf(i)].notes = {}

\* A claim fails for a contradiction with its evidence or for a defect of the
\* reference graph, never for an annotation the verifier could not line up.
FailedIsContradicted ==
  \A i \in Positions :
    Failed(results[i]) => results[i].refuted \ GroundingChecks # {} \/ ~GraphOK

\* Once failed, a claim stays failed: no later phase rehabilitates it.
FailureIsFinal ==
  [][\A i \in Positions : Failed(results[i]) => Failed(results[i])']_vars
=============================================================================
