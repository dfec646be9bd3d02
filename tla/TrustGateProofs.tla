--------------------------- MODULE TrustGateProofs ----------------------------
(***************************************************************************)
(* What the trust gate's answer means, for plans of any length over any ids.  *)
(*                                                                         *)
(* Every step either changes results through the operations of base.py,       *)
(* which let them evolve in a few ways only (Evolves), or fails all claims     *)
(* of a plan whose reference graph is broken.  From this follows what each      *)
(* phase has established of a claim that has not failed when it is over.       *)
(***************************************************************************)
EXTENDS TrustGate, SequenceTheorems, TLAPS

-----------------------------------------------------------------------------
(* The operations on a result.                                               *)

Contradicted(res) == res.refuted \ GroundingChecks # {}

\* How status, notes and refutations of one result go together.
Sane(res) ==
  /\ res.status = "VERIFIED" => res.notes = {}
  /\ res.status = "PARTIALLY_VERIFIED" => res.notes # {}
  /\ res.refuted # {} => Failed(res)

\* What may become of a result.
Evolves(res, new) ==
  /\ new \in Result
  /\ Failed(res) => Failed(new)
  /\ Contradicted(res) => Contradicted(new)
  /\ Failed(new) => Failed(res) \/ Contradicted(new)
  /\ Sane(res) => Sane(new)

LEMMA EvolvesReflexive ==
  ASSUME NEW res \in Result
  PROVE  Evolves(res, res)
  BY DEF Evolves

LEMMA EvolvesTransitive ==
  ASSUME NEW res \in Result, NEW mid \in Result, NEW new \in Result,
         Evolves(res, mid), Evolves(mid, new)
  PROVE  Evolves(res, new)
<1>1. Failed(new) => Failed(res) \/ Contradicted(new)
  <2>1. SUFFICES ASSUME Failed(new), ~Contradicted(new)
                 PROVE  Failed(res)
    OBVIOUS
  <2>2. Failed(mid)
    BY <2>1 DEF Evolves
  <2>3. ~Contradicted(mid)
    BY <2>1 DEF Evolves
  <2>. QED
    BY <2>2, <2>3 DEF Evolves
<1>. QED
  BY <1>1 DEF Evolves

\* A check that is confirmed changes neither status nor notes.
LEMMA Confirming ==
  ASSUME NEW res \in Result, NEW checks \in SUBSET Checks
  PROVE  LET new == [res EXCEPT !.confirmed = @ \cup checks]
         IN  /\ Evolves(res, new) /\ new.status = res.status /\ new.notes = res.notes
             /\ new.refuted = res.refuted
<1>. DEFINE new == [res EXCEPT !.confirmed = @ \cup checks]
<1>1. /\ new \in Result
      /\ new.status = res.status /\ new.notes = res.notes /\ new.refuted = res.refuted
  BY DEF Result
<1>2. Evolves(res, new)
  BY <1>1 DEF Evolves, Contradicted, Sane, Failed
<1>. QED
  BY <1>1, <1>2

LEMMA Noting ==
  ASSUME NEW res \in Result, NEW check \in Checks
  PROVE  LET new == Inconclusive(res, check)
         IN  /\ Evolves(res, new) /\ new.notes # {}
             /\ new.status = IF Failed(res) THEN "FAILED" ELSE "PARTIALLY_VERIFIED"
<1>. DEFINE new == Inconclusive(res, check)
<1>1. /\ new \in Result
      /\ new.status = IF Failed(res) THEN "FAILED" ELSE "PARTIALLY_VERIFIED"
      /\ new.notes = res.notes \cup {check} /\ new.refuted = res.refuted
  BY DEF Inconclusive, Result, VerificationStatus, Failed
<1>2. Evolves(res, new)
  BY <1>1 DEF Evolves, Contradicted, Sane, Failed
<1>. QED
  BY <1>1, <1>2

\* A refutation fails the claim, but of a grounding check it is only a note.
LEMMA Refuting ==
  ASSUME NEW res \in Result, NEW check \in Checks
  PROVE  LET new == Refute(res, check)
         IN  /\ Evolves(res, new)
             /\ check \notin GroundingChecks => Failed(new)
<1>. DEFINE new == Refute(res, check)
<1>1. CASE check \in GroundingChecks
  BY <1>1, Noting DEF Refute
<1>2. CASE check \notin GroundingChecks
  <2>1. /\ new \in Result /\ new.status = "FAILED"
        /\ new.refuted = res.refuted \cup {check} /\ new.notes = res.notes
    BY <1>2 DEF Refute, Result, VerificationStatus
  <2>2. Evolves(res, new)
    BY <1>2, <2>1 DEF Evolves, Contradicted, Sane, Failed
  <2>. QED
    BY <2>1, <2>2 DEF Failed
<1>. QED
  BY <1>1, <1>2

LEMMA Finalizing ==
  ASSUME NEW res \in Result
  PROVE  LET new == FinalizeClaim(res)
         IN  /\ Evolves(res, new)
             /\ new.status \in {"VERIFIED", "PARTIALLY_VERIFIED", "FAILED"}
<1>. DEFINE new == FinalizeClaim(res)
<1>1. CASE Failed(res)
  BY <1>1, EvolvesReflexive DEF FinalizeClaim, Failed
<1>2. CASE ~Failed(res)
  <2>1. /\ new \in Result /\ new.notes = res.notes /\ new.refuted = res.refuted
        /\ new.status = IF res.notes # {} THEN "PARTIALLY_VERIFIED" ELSE "VERIFIED"
    BY <1>2 DEF FinalizeClaim, Result, VerificationStatus
  <2>2. Evolves(res, new)
    BY <1>2, <2>1 DEF Evolves, Contradicted, Sane, Failed
  <2>. QED
    BY <2>1, <2>2
<1>. QED
  BY <1>1, <1>2

-----------------------------------------------------------------------------
(* What the phases do to a result.                                           *)

LEMMA CheckNames ==
  /\ {"columns", "metric", "filters", "typed_grounding"} \subseteq Checks
  /\ {"sql_safety", "row_count", "row_shape", "hash", "evidence_refs", "filters_conflict",
      "typed"} \subseteq Checks
  /\ {"sql_safety", "row_count", "row_shape", "hash", "evidence_refs", "filters_conflict",
      "typed"} \cap GroundingChecks = {}
  BY DEF Checks, GroundingChecks, IntegrityChecks

LEMMA CheckingRefs ==
  ASSUME NEW i \in Positions, results[ResultOf(i)] \in Result
  PROVE  /\ Evolves(results[ResultOf(i)], CheckRefs(i))
         /\ ~Failed(CheckRefs(i)) => claims[i].cites # {} /\ claims[i].cites \subseteq Known
<1>. DEFINE res == results[ResultOf(i)]
<1>1. CASE Failed(res)
  BY <1>1, EvolvesReflexive DEF CheckRefs
<1>2. CASE ~Failed(res) /\ (claims[i].cites = {} \/ ~(claims[i].cites \subseteq Known))
  BY <1>2, Refuting, CheckNames DEF CheckRefs
<1>3. CASE ~Failed(res) /\ ~(claims[i].cites = {} \/ ~(claims[i].cites \subseteq Known))
  BY <1>3, Confirming, CheckNames DEF CheckRefs, Confirm
<1>. QED
  BY <1>1, <1>2, <1>3

\* A claim whose evidence does not replay cleanly fails.
LEMMA CheckingReplay ==
  ASSUME NEW res \in Result, NEW outcome \in ReplayOutcomes,
         NEW named \in {"NONE", "CONFIRMED", "INCONCLUSIVE"}
  PROVE  /\ Evolves(res, CheckReplay(res, outcome, named))
         /\ outcome # "clean" => Failed(CheckReplay(res, outcome, named))
<1>. DEFINE base == [res EXCEPT !.confirmed = @ \cup Passed(outcome)]
            cols == IF "row_shape" \notin Passed(outcome) \/ named = "NONE" THEN base
                    ELSE IF named = "CONFIRMED" THEN Confirm(base, "columns")
                    ELSE Inconclusive(base, "columns")
<1>1. Passed(outcome) \in SUBSET Checks
  BY DEF Passed, ReplayOutcomes, Checks, IntegrityChecks
<1>2. base \in Result /\ Evolves(res, base)
  BY <1>1, Confirming DEF Evolves
<1>3. cols \in Result /\ Evolves(base, cols)
  <2>1. Confirm(base, "columns") \in Result /\ Evolves(base, Confirm(base, "columns"))
    BY <1>2, Confirming, CheckNames DEF Confirm, Evolves
  <2>2. Inconclusive(base, "columns") \in Result
          /\ Evolves(base, Inconclusive(base, "columns"))
    BY <1>2, Noting, CheckNames DEF Evolves
  <2>. QED
    BY <1>2, <2>1, <2>2, EvolvesReflexive
<1>4. Evolves(res, cols)
  BY <1>2, <1>3, EvolvesTransitive
<1>5. CASE outcome = "clean"
  <2>1. CheckReplay(res, outcome, named) = cols
    BY <1>5 DEF CheckReplay
  <2>. QED
    BY <1>4, <1>5, <2>1
<1>6. CASE outcome # "clean"
  <2>1. CheckReplay(res, outcome, named) = Refute(cols, Broken(outcome))
    BY <1>6 DEF CheckReplay
  <2>2. Broken(outcome) \in Checks \ GroundingChecks
    BY <1>6, CheckNames DEF Broken, ReplayOutcomes
  <2>3. /\ Evolves(cols, Refute(cols, Broken(outcome)))
        /\ Failed(Refute(cols, Broken(outcome)))
    BY <1>3, <2>2, Refuting
  <2>. QED
    BY <1>3, <1>4, <2>1, <2>3, EvolvesTransitive DEF Evolves
<1>. QED
  BY <1>5, <1>6

LEMMA Annotating ==
  ASSUME NEW res \in Result,
         NEW metric \in {"NONE", "CONFIRMED", "INCONCLUSIVE"},
         NEW filters \in {"NONE", "CONFIRMED", "INCONCLUSIVE", "REFUTED"}
  PROVE  Evolves(res, Annotate(res, metric, filters))
<1>. DEFINE m == IF metric = "CONFIRMED" THEN Confirm(res, "metric")
                 ELSE IF metric = "INCONCLUSIVE" THEN Inconclusive(res, "metric")
                 ELSE res
<1>1. m \in Result /\ Evolves(res, m)
  <2>1. Evolves(res, Confirm(res, "metric"))
    BY Confirming, CheckNames DEF Confirm
  <2>2. Evolves(res, Inconclusive(res, "metric"))
    BY Noting, CheckNames
  <2>. QED
    BY <2>1, <2>2, EvolvesReflexive DEF Evolves
<1>2. Evolves(m, Confirm(m, "filters"))
  BY <1>1, Confirming, CheckNames DEF Confirm
<1>3. Evolves(m, Inconclusive(m, "filters"))
  BY <1>1, Noting, CheckNames
<1>4. Evolves(m, Refute(m, "filters_conflict"))
  BY <1>1, Refuting, CheckNames
<1>5. Annotate(res, metric, filters) \in
        {m, Confirm(m, "filters"), Inconclusive(m, "filters"), Refute(m, "filters_conflict")}
  BY DEF Annotate
<1>. QED
  BY <1>1, <1>2, <1>3, <1>4, <1>5, EvolvesTransitive DEF Evolves

LEMMA Dispatching ==
  ASSUME NEW res \in Result, NEW finding \in {"REFUTED", "INCONCLUSIVE", "CONFIRMED"}
  PROVE  /\ Evolves(res, Dispatch(res, finding))
         /\ Dispatch(res, finding).status \in {"VERIFIED", "PARTIALLY_VERIFIED", "FAILED"}
<1>1. CASE Failed(res)
  BY <1>1, EvolvesReflexive DEF Dispatch, Failed
<1>2. CASE ~Failed(res) /\ finding = "REFUTED"
  BY <1>2, Refuting, CheckNames DEF Dispatch, Verdict, Failed
<1>3. CASE ~Failed(res) /\ finding = "INCONCLUSIVE"
  <2>. DEFINE mid == Inconclusive(res, "typed_grounding")
  <2>1. mid \in Result /\ Evolves(res, mid)
    BY Noting, CheckNames DEF Evolves
  <2>2. Dispatch(res, finding) = FinalizeClaim(mid)
    BY <1>3 DEF Dispatch, Verdict
  <2>. QED
    BY <2>1, <2>2, Finalizing, EvolvesTransitive DEF Evolves
<1>4. CASE ~Failed(res) /\ finding = "CONFIRMED"
  <2>. DEFINE mid == Confirm(res, "typed")
  <2>1. mid \in Result /\ Evolves(res, mid)
    BY Confirming, CheckNames DEF Confirm, Evolves
  <2>2. Dispatch(res, finding) = FinalizeClaim(mid)
    BY <1>4 DEF Dispatch, Verdict
  <2>. QED
    BY <2>1, <2>2, Finalizing, EvolvesTransitive DEF Evolves
<1>. QED
  BY <1>1, <1>2, <1>3, <1>4

-----------------------------------------------------------------------------
(* The inductive invariant.                                                  *)

\* results_by_id leads from each claim to a claim with its id, the same for all
\* that share it.
IdsResolve ==
  \A i \in Positions : /\ ResultOf(i) \in Positions
                       /\ claims[ResultOf(i)].id = claims[i].id

Past(phases) == pc \notin {"entry", "refs"} \cup phases

AllFailed == \A i \in Positions : Failed(results[i])

ResultsSane ==
  \A i \in Positions :
    /\ Sane(results[i])
    /\ Failed(results[i]) => Contradicted(results[i]) \/ ~GraphOK
    /\ results[i].status \in {"VERIFIED", "PARTIALLY_VERIFIED"} => ResultOf(i) = i

GraphChecked ==
  /\ pc = "refs" => evidence # <<>> /\ ~Duplicated
  /\ Past({}) => GraphOK \/ AllFailed

\* What a phase has established of the claims, or of the evidence, it has passed.
RefsChecked ==
  \A i \in Positions :
    (pc = "refs" /\ i < at) \/ Past({}) =>
      (~Failed(results[ResultOf(i)]) =>
         claims[i].cites # {} /\ claims[i].cites \subseteq Known)

ReplayChosen == Past({"context"}) => \A e \in DOMAIN replays : replays[e] # "unread"

ReplaysChecked ==
  /\ pc = "replay" =>
       \A i \in Positions, k \in DOMAIN evidence :
         k < at /\ evidence[k] \in claims[i].cites /\ ~Failed(results[ResultOf(i)]) =>
           replays[evidence[k]] = "clean"
  /\ Past({"context", "replay", "raised"}) =>
       \A i \in Positions : ~Failed(results[ResultOf(i)]) => Backed(i)

TypedChecked ==
  \A i \in Positions :
    (pc = "typed" /\ i < at) \/ pc \in {"gate", "done"} =>
      results[ResultOf(i)].status \in {"VERIFIED", "PARTIALLY_VERIFIED", "FAILED"}

GateChecked ==
  pc = "done" =>
    (gate = "VERIFIED" <=>
       claims # <<>> /\ \A i \in Positions : results[i].status = "VERIFIED")

Inv == /\ TypeOK /\ IdsResolve /\ ResultsSane
       /\ GraphChecked /\ RefsChecked /\ ReplayChosen /\ ReplaysChecked
       /\ TypedChecked /\ GateChecked

\* The claims are a sequence: its positions.
LEMMA PlanPositions ==
  ASSUME TypeOK
  PROVE  /\ Positions = 1..Len(claims) /\ Len(claims) \in Nat
         /\ \A i \in Positions : claims[i] \in [id : ClaimIds, cites : SUBSET EvidenceIds]
         /\ DOMAIN evidence = 1..Len(evidence) /\ Len(evidence) \in Nat
         /\ claims = <<>> <=> Positions = {}
         /\ DOMAIN replays = Known \cap Cited
<1>. DEFINE Claim == [id : ClaimIds, cites : SUBSET EvidenceIds]
<1>1. claims \in Seq(Claim) /\ evidence \in Seq(EvidenceIds)
  BY DEF TypeOK
<1>2. /\ Positions = 1..Len(claims) /\ Len(claims) \in Nat
      /\ DOMAIN evidence = 1..Len(evidence) /\ Len(evidence) \in Nat
  BY <1>1, LenProperties DEF Positions
<1>3. \A i \in Positions : claims[i] \in Claim
  BY <1>1, <1>2, ElementOfSeq
<1>4. claims = <<>> <=> Positions = {}
  <2>1. CASE claims = <<>>
    BY <1>2, <2>1
  <2>2. CASE claims # <<>>
    <3>1. Len(claims) > 0
      BY <1>1, <1>2, <2>2, EmptySeq
    <3>2. 1 \in Positions
      BY <1>2, <3>1
    <3>. QED
      BY <2>2, <3>2
  <2>. QED
    BY <2>1, <2>2
<1>5. DOMAIN replays = Known \cap Cited
  BY DEF TypeOK
<1>. QED
  BY <1>2, <1>3, <1>4, <1>5

LEMMA SeqsAreSeqs ==
  ASSUME NEW S, NEW n \in Nat, NEW s \in SeqsUpTo(S, n)
  PROVE  s \in Seq(S)
  BY DEF SeqsUpTo

LEMMA InitInv == Init => Inv
<1>. SUFFICES ASSUME Init
              PROVE  Inv
  OBVIOUS
<1>1. claims \in Seq([id : ClaimIds, cites : SUBSET EvidenceIds])
  BY BoundsAssumption, SeqsAreSeqs DEF Init
<1>2. evidence \in Seq(EvidenceIds)
  BY BoundsAssumption, SeqsAreSeqs DEF Init
<1>3. Blank \in Result /\ ~Failed(Blank) /\ Sane(Blank)
        /\ Blank.status = "NOT_VERIFIED"
  BY DEF Blank, Result, VerificationStatus, Failed, Sane
<1>4. TypeOK
  BY <1>1, <1>2, <1>3 DEF Init, TypeOK, VerificationStatus
<1>5. IdsResolve
  BY DEF Init, IdsResolve, ResultOf
<1>6. ResultsSane
  BY <1>3 DEF Init, ResultsSane
<1>. QED
  BY <1>4, <1>5, <1>6
  DEF Init, Inv, GraphChecked, RefsChecked, ReplayChosen, ReplaysChecked,
      TypedChecked, GateChecked, Past

-----------------------------------------------------------------------------
(* How a step changes the results.                                           *)

\* Results evolve, and only those a claim id leads to are written.
Advanced ==
  \A i \in Positions : /\ Evolves(results[i], results'[i])
                       /\ results'[i] # results[i] => ResultOf(i) = i

GivenUp ==
  /\ ~GraphOK
  /\ \A i \in Positions : Failed(results'[i]) /\ Sane(results'[i])

\* FailAll, for a plan whose reference graph is broken.
LEMMA FailingAll ==
  ASSUME TypeOK, NEW checks \in SUBSET Checks, results' = FailAll(checks), ~GraphOK
  PROVE  results' \in [Positions -> Result] /\ GivenUp
<1>1. ASSUME NEW i \in Positions
      PROVE  LET new == [results[i] EXCEPT !.confirmed = @ \cup checks, !.status = "FAILED"]
             IN  new \in Result /\ Failed(new) /\ Sane(new)
  <2>1. results[i] \in Result
    BY DEF TypeOK
  <2>. QED
    BY <2>1 DEF Result, VerificationStatus, Failed, Sane
<1>. QED
  BY <1>1 DEF FailAll, GivenUp

\* A write through the id of claim j.
LEMMA WritingOne ==
  ASSUME TypeOK, IdsResolve, NEW j \in Positions, NEW new,
         Evolves(results[ResultOf(j)], new),
         results' = [results EXCEPT ![ResultOf(j)] = new]
  PROVE  results' \in [Positions -> Result] /\ Advanced
<1>1. ResultOf(j) \in Positions /\ ResultOf(ResultOf(j)) = ResultOf(j)
  BY DEF IdsResolve, ResultOf
<1>2. results \in [Positions -> Result]
  BY DEF TypeOK
<1>3. new \in Result
  BY DEF Evolves
<1>4. results' \in [Positions -> Result]
  BY <1>1, <1>2, <1>3
<1>5. ASSUME NEW i \in Positions
      PROVE  /\ Evolves(results[i], results'[i])
             /\ results'[i] # results[i] => ResultOf(i) = i
  <2>1. CASE i = ResultOf(j)
    BY <1>1, <1>2, <2>1
  <2>2. CASE i # ResultOf(j)
    BY <1>1, <1>2, <2>2, EvolvesReflexive
  <2>. QED
    BY <2>1, <2>2
<1>. QED
  BY <1>4, <1>5 DEF Advanced

LEMMA KeepingAll ==
  ASSUME TypeOK, results' = results
  PROVE  results' \in [Positions -> Result] /\ Advanced
<1>1. results \in [Positions -> Result]
  BY DEF TypeOK
<1>. QED
  BY <1>1, EvolvesReflexive DEF Advanced

LEMMA StepResults ==
  ASSUME Inv, [Next]_vars
  PROVE  /\ UNCHANGED plan
         /\ results' \in [Positions -> Result]
         /\ Advanced \/ GivenUp
<1>. USE DEF Inv
<1>1. CASE NoEvidence
  BY <1>1, FailingAll, CheckNames DEF NoEvidence, GraphOK
<1>2. CASE DuplicateEvidence
  BY <1>2, FailingAll, CheckNames DEF DuplicateEvidence, GraphOK
<1>3. CASE UnreferencedEvidence
  BY <1>3, FailingAll, CheckNames DEF UnreferencedEvidence, GraphOK
<1>4. CASE RefsOfClaim
  <2>1. at \in Positions /\ results' = [results EXCEPT ![ResultOf(at)] = CheckRefs(at)]
    BY <1>4, PlanPositions DEF RefsOfClaim, TypeOK
  <2>2. results[ResultOf(at)] \in Result
    BY <2>1 DEF TypeOK, IdsResolve
  <2>3. Evolves(results[ResultOf(at)], CheckRefs(at))
    BY <2>1, <2>2, CheckingRefs
  <2>. QED
    BY <1>4, <2>1, <2>3, WritingOne DEF RefsOfClaim
<1>5. CASE ReplayEvidence
  <2>. DEFINE e == evidence[at]
  <2>1. PICK named \in {"NONE", "CONFIRMED", "INCONCLUSIVE"} :
          results' = [i \in Positions |->
                        IF i \in Citing(e) THEN CheckReplay(results[i], replays[e], named)
                        ELSE results[i]]
    BY <1>5 DEF ReplayEvidence
  <2>2. replays[e] \in ReplayOutcomes
    <3>1. at \in DOMAIN evidence /\ e \in Cited /\ e \in Known
      BY <1>5, PlanPositions DEF ReplayEvidence, Replayed, Known, TypeOK
    <3>2. e \in DOMAIN replays /\ replays[e] # "unread"
      BY <1>5, <3>1, PlanPositions DEF ReplayEvidence, ReplayChosen, Past
    <3>. QED
      BY <3>2 DEF TypeOK
  <2>3. ASSUME NEW i \in Positions
        PROVE  /\ results'[i] \in Result
               /\ Evolves(results[i], results'[i])
               /\ results'[i] # results[i] => ResultOf(i) = i
    <3>1. results[i] \in Result
      BY DEF TypeOK
    <3>2. CASE i \in Citing(e)
      <4>1. ResultOf(i) = i
        BY <3>2 DEF Citing, IdsResolve, ResultOf
      <4>2. Evolves(results[i], results'[i])
        BY <2>1, <2>2, <3>1, <3>2, CheckingReplay
      <4>. QED
        BY <4>1, <4>2 DEF Evolves
    <3>3. CASE i \notin Citing(e)
      BY <2>1, <3>1, <3>3, EvolvesReflexive
    <3>. QED
      BY <3>2, <3>3
  <2>4. results' \in [Positions -> Result]
    BY <2>1, <2>3
  <2>. QED
    BY <1>5, <2>3, <2>4 DEF ReplayEvidence, Advanced
<1>6. CASE AnnotateClaim
  <2>. DEFINE res == results[ResultOf(at)]
  <2>1. at \in Positions
    BY <1>6, PlanPositions DEF AnnotateClaim, TypeOK
  <2>2. results \in [Positions -> Result] /\ ResultOf(at) \in Positions /\ res \in Result
    BY <2>1 DEF TypeOK, IdsResolve
  <2>3. PICK metric \in {"NONE", "CONFIRMED", "INCONCLUSIVE"},
             filters \in {"NONE", "CONFIRMED", "INCONCLUSIVE", "REFUTED"} :
          results' = [results EXCEPT ![ResultOf(at)] =
                        IF Failed(res) THEN res
                        ELSE IF ~HasParsed(at) THEN Refute(res, "sql_safety")
                        ELSE Annotate(res, metric, filters)]
    BY <1>6, <2>2 DEF AnnotateClaim
  <2>4. Evolves(res, Annotate(res, metric, filters))
    BY <2>2, Annotating
  <2>5. Evolves(res, Refute(res, "sql_safety"))
    BY <2>2, Refuting, CheckNames
  <2>6. Evolves(res, IF Failed(res) THEN res
                     ELSE IF ~HasParsed(at) THEN Refute(res, "sql_safety")
                     ELSE Annotate(res, metric, filters))
    BY <2>2, <2>4, <2>5, EvolvesReflexive
  <2>. QED
    BY <1>6, <2>1, <2>3, <2>6, WritingOne DEF AnnotateClaim
<1>7. CASE TypedClaim
  <2>. DEFINE res == results[ResultOf(at)]
  <2>1. at \in Positions
    BY <1>7, PlanPositions DEF TypedClaim, TypeOK
  <2>2. results \in [Positions -> Result] /\ ResultOf(at) \in Positions /\ res \in Result
    BY <2>1 DEF TypeOK, IdsResolve
  <2>3. PICK finding \in {"REFUTED", "INCONCLUSIVE", "CONFIRMED"} :
          results' = [results EXCEPT ![ResultOf(at)] = Dispatch(res, finding)]
    BY <1>7, <2>2 DEF TypedClaim
  <2>4. Evolves(res, Dispatch(res, finding))
    BY <2>2, Dispatching
  <2>. QED
    BY <1>7, <2>1, <2>3, <2>4, WritingOne DEF TypedClaim
<1>8. CASE UNCHANGED <<plan, results>>
  BY <1>8, KeepingAll
<1>. QED
  BY <1>1, <1>2, <1>3, <1>4, <1>5, <1>6, <1>7, <1>8
  DEF Next, NoClaims, DistinctEvidence, RefsDone, BuildContext, SkipEvidence, ReplaysDone,
      AnnotateDone, ReplayRaises, TypedRaises, TypedDone, Decide, vars, plan

LEMMA PlanStays ==
  ASSUME UNCHANGED plan
  PROVE  /\ Positions' = Positions /\ Known' = Known /\ Cited' = Cited
         /\ GraphOK' <=> GraphOK
         /\ \A i : ResultOf(i)' = ResultOf(i)
         /\ claims' = claims /\ evidence' = evidence /\ byId' = byId
  BY DEF plan, Positions, Known, Cited, GraphOK, Duplicated, ResultOf

\* The three ways to give up, and the plan without claims, end with all failed.
LEMMA GivingUp ==
  ASSUME Inv, NoClaims \/ NoEvidence \/ DuplicateEvidence \/ UnreferencedEvidence
  PROVE  AllFailed'
<1>. USE DEF Inv
<1>1. UNCHANGED plan
  BY DEF NoClaims, NoEvidence, DuplicateEvidence, UnreferencedEvidence
<1>2. CASE NoClaims
  <2>1. Positions = {}
    BY <1>2, PlanPositions DEF NoClaims
  <2>. QED
    BY <1>1, <2>1, PlanStays DEF AllFailed
<1>3. CASE NoEvidence \/ DuplicateEvidence \/ UnreferencedEvidence
  <2>1. GivenUp
    BY <1>3, FailingAll, CheckNames
    DEF NoEvidence, DuplicateEvidence, UnreferencedEvidence, GraphOK
  <2>. QED
    BY <1>1, <2>1, PlanStays DEF GivenUp, AllFailed
<1>. QED
  BY <1>2, <1>3

LEMMA StepTypeOK == Inv /\ [Next]_vars => TypeOK'
<1>. SUFFICES ASSUME Inv, [Next]_vars
              PROVE  TypeOK'
  OBVIOUS
<1>1. /\ UNCHANGED plan /\ results' \in [Positions -> Result]
      /\ Positions' = Positions /\ Known' = Known /\ Cited' = Cited
      /\ claims' = claims /\ evidence' = evidence /\ byId' = byId
  BY StepResults, PlanStays
<1>2. TypeOK
  BY DEF Inv
<1>3. /\ replays' \in [Known \cap Cited -> ReplayOutcomes \cup {"unread"}]
      /\ gate' \in VerificationStatus
      /\ pc' \in {"entry", "refs", "context", "replay", "annotate", "typed", "gate",
                  "done", "raised"}
      /\ at' \in Nat \ {0}
  <2>1. CASE BuildContext
    BY <1>2, <2>1 DEF BuildContext, TypeOK, Enter
  <2>2. CASE Decide
    BY <1>2, <2>2 DEF Decide, TypeOK, GateStatus, VerificationStatus
  <2>3. CASE UNCHANGED vars
    BY <1>2, <2>3 DEF TypeOK, vars
  <2>4. CASE Next /\ ~BuildContext /\ ~Decide
    <3>1. UNCHANGED replays /\ gate' \in {gate, "FAILED"} /\ at' \in {at, at + 1, 1}
      BY <2>4 DEF Next, NoClaims, NoEvidence, DuplicateEvidence, DistinctEvidence,
           RefsOfClaim, RefsDone, UnreferencedEvidence, ReplayEvidence, SkipEvidence,
           ReplaysDone, AnnotateClaim, AnnotateDone, TypedClaim, ReplayRaises, TypedRaises,
           TypedDone, Enter
    <3>2. pc' \in {pc, "refs", "context", "annotate", "typed", "gate", "done", "raised"}
      BY <2>4 DEF Next, NoClaims, NoEvidence, DuplicateEvidence, DistinctEvidence,
           RefsOfClaim, RefsDone, UnreferencedEvidence, ReplayEvidence, SkipEvidence,
           ReplaysDone, AnnotateClaim, AnnotateDone, TypedClaim, ReplayRaises, TypedRaises,
           TypedDone, Enter
    <3>. QED
      BY <1>2, <3>1, <3>2 DEF TypeOK, VerificationStatus
  <2>. QED
    BY <2>1, <2>2, <2>3, <2>4
<1>. QED
  BY <1>1, <1>2, <1>3 DEF TypeOK

LEMMA StepResultsSane == Inv /\ [Next]_vars => IdsResolve' /\ ResultsSane'
<1>. SUFFICES ASSUME Inv, [Next]_vars
              PROVE  IdsResolve' /\ ResultsSane'
  OBVIOUS
<1>1. /\ Positions' = Positions /\ claims' = claims
      /\ GraphOK' <=> GraphOK
      /\ \A i : ResultOf(i)' = ResultOf(i)
      /\ Advanced \/ GivenUp
  BY StepResults, PlanStays
<1>2. IdsResolve'
  BY <1>1 DEF Inv, IdsResolve
<1>3. ASSUME NEW i \in Positions
      PROVE  /\ Sane(results'[i])
             /\ Failed(results'[i]) => Contradicted(results'[i]) \/ ~GraphOK
             /\ results'[i].status \in {"VERIFIED", "PARTIALLY_VERIFIED"} => ResultOf(i) = i
  <2>1. /\ Sane(results[i])
        /\ Failed(results[i]) => Contradicted(results[i]) \/ ~GraphOK
        /\ results[i].status \in {"VERIFIED", "PARTIALLY_VERIFIED"} => ResultOf(i) = i
    BY DEF Inv, ResultsSane
  <2>2. CASE Advanced
    BY <2>1, <2>2 DEF Advanced, Evolves
  <2>3. CASE GivenUp
    BY <2>3 DEF GivenUp, Failed
  <2>. QED
    BY <1>1, <2>2, <2>3
<1>. QED
  BY <1>1, <1>2, <1>3 DEF ResultsSane

\* A result that failed has failed for good.
LEMMA StepFailed ==
  ASSUME Inv, [Next]_vars, NEW i \in Positions, Failed(results[i])
  PROVE  Failed(results'[i])
<1>1. CASE Advanced
  BY <1>1 DEF Advanced, Evolves
<1>2. CASE GivenUp
  BY <1>2 DEF GivenUp
<1>. QED
  BY <1>1, <1>2, StepResults
\* So a claim that has not failed after a step had not failed before it.
LEMMA StepUnfailed ==
  ASSUME Inv, [Next]_vars
  PROVE  /\ AllFailed => AllFailed'
         /\ \A i \in Positions :
              /\ ResultOf(i) \in Positions
              /\ ~Failed(results'[ResultOf(i)]) => ~Failed(results[ResultOf(i)])
<1>1. Positions' = Positions
  BY StepResults, PlanStays
<1>2. \A i \in Positions : Failed(results[i]) => Failed(results'[i])
  BY StepFailed
<1>3. \A i \in Positions : ResultOf(i) \in Positions
  BY DEF Inv, IdsResolve
<1>. QED
  BY <1>1, <1>2, <1>3 DEF AllFailed, Failed

-----------------------------------------------------------------------------
(* What each phase establishes.                                              *)

GivesUp == NoClaims \/ NoEvidence \/ DuplicateEvidence \/ UnreferencedEvidence

\* The steps after the reference checks.
Later == \/ BuildContext \/ ReplayEvidence \/ ReplayRaises \/ SkipEvidence \/ ReplaysDone
         \/ AnnotateClaim \/ AnnotateDone
         \/ TypedClaim \/ TypedRaises \/ TypedDone \/ Decide

LEMMA StepKinds ==
  ASSUME [Next]_vars
  PROVE  \/ GivesUp \/ DistinctEvidence \/ RefsOfClaim \/ RefsDone
         \/ Later \/ UNCHANGED vars
  BY DEF Next, GivesUp, Later

LEMMA LaterIsPast ==
  ASSUME Later
  PROVE  Past({}) /\ pc' # "refs"
  BY DEF Later, Past, Enter, BuildContext, ReplayEvidence, SkipEvidence, ReplaysDone,
     AnnotateClaim, AnnotateDone, TypedClaim, ReplayRaises, TypedRaises, TypedDone, Decide

LEMMA StepGraphChecked == Inv /\ [Next]_vars => GraphChecked'
<1>. SUFFICES ASSUME Inv, [Next]_vars
              PROVE  GraphChecked'
  OBVIOUS
<1>1. /\ evidence' = evidence /\ (Duplicated' <=> Duplicated)
      /\ GraphOK' <=> GraphOK
      /\ AllFailed => AllFailed'
  BY StepResults, PlanStays, StepUnfailed DEF Duplicated
<1>2. /\ pc = "refs" => evidence # <<>> /\ ~Duplicated
      /\ Past({}) => GraphOK \/ AllFailed
  BY DEF Inv, GraphChecked
<1>3. CASE GivesUp
  <2>1. AllFailed'
    BY <1>3, GivingUp DEF GivesUp
  <2>2. pc' # "refs"
    BY <1>3 DEF GivesUp, NoClaims, NoEvidence, DuplicateEvidence, UnreferencedEvidence, Enter
  <2>. QED
    BY <2>1, <2>2 DEF GraphChecked
<1>4. CASE DistinctEvidence
  <2>1. pc' = "refs" /\ evidence # <<>> /\ ~Duplicated
    BY <1>4 DEF DistinctEvidence, Enter
  <2>. QED
    BY <1>1, <2>1 DEF GraphChecked, Past
<1>5. CASE RefsOfClaim
  <2>1. pc = "refs" /\ pc' = "refs"
    BY <1>5 DEF RefsOfClaim
  <2>. QED
    BY <1>1, <1>2, <2>1 DEF GraphChecked, Past
<1>6. CASE RefsDone
  <2>1. pc = "refs" /\ pc' = "context" /\ Known \subseteq Cited
    BY <1>6 DEF RefsDone, Enter
  <2>2. GraphOK
    BY <1>2, <2>1 DEF GraphOK
  <2>. QED
    BY <1>1, <2>1, <2>2 DEF GraphChecked
<1>7. CASE Later
  BY <1>1, <1>2, <1>7, LaterIsPast DEF GraphChecked
<1>8. CASE UNCHANGED vars
  BY <1>1, <1>2, <1>8 DEF GraphChecked, Past, vars
<1>. QED
  BY <1>3, <1>4, <1>5, <1>6, <1>7, <1>8, StepKinds

LEMMA StepRefsChecked == Inv /\ [Next]_vars => RefsChecked'
<1>. DEFINE Checked(i) == claims[i].cites # {} /\ claims[i].cites \subseteq Known
<1>. SUFFICES ASSUME Inv, [Next]_vars, NEW i \in Positions,
                     (pc' = "refs" /\ i < at') \/ Past({})',
                     ~Failed(results'[ResultOf(i)])
              PROVE  Checked(i)
  BY StepResults, PlanStays DEF RefsChecked, Failed
<1>1. ~Failed(results[ResultOf(i)]) /\ ResultOf(i) \in Positions
  BY StepUnfailed
<1>2. (pc = "refs" /\ i < at) \/ Past({}) => Checked(i)
  BY <1>1 DEF Inv, RefsChecked
<1>3. i \in Nat /\ 1 <= i /\ i <= Len(claims) /\ Len(claims) \in Nat /\ at \in Nat \ {0}
  BY PlanPositions DEF Inv, TypeOK
<1>4. CASE GivesUp
  <2>1. Positions' = Positions /\ AllFailed'
    BY <1>4, GivingUp, StepResults, PlanStays DEF GivesUp
  <2>2. Failed(results'[ResultOf(i)])
    BY <1>1, <2>1 DEF AllFailed, Failed
  <2>. QED
    BY <2>2
<1>5. CASE DistinctEvidence
  BY <1>3, <1>5 DEF DistinctEvidence, Enter, Past
<1>6. CASE RefsOfClaim
  <2>1. pc = "refs" /\ pc' = "refs" /\ at' = at + 1 /\ at <= Len(claims)
        /\ results' = [results EXCEPT ![ResultOf(at)] = CheckRefs(at)]
    BY <1>6 DEF RefsOfClaim
  <2>2. i < at \/ i = at
    BY <1>3, <2>1 DEF Past
  <2>3. CASE i = at
    <3>1. results \in [Positions -> Result]
      BY DEF Inv, TypeOK
    <3>2. results'[ResultOf(i)] = CheckRefs(i)
      BY <1>1, <2>1, <2>3, <3>1
    <3>3. results[ResultOf(i)] \in Result
      BY <1>1, <3>1
    <3>. QED
      BY <3>2, <3>3, CheckingRefs
  <2>. QED
    BY <1>2, <2>1, <2>2, <2>3
<1>7. CASE RefsDone
  <2>1. pc = "refs" /\ at > Len(claims)
    BY <1>7 DEF RefsDone
  <2>. QED
    BY <1>2, <1>3, <2>1
<1>8. CASE Later
  BY <1>2, <1>8, LaterIsPast
<1>9. CASE UNCHANGED vars
  BY <1>2, <1>9 DEF vars, Past
<1>. QED
  BY <1>4, <1>5, <1>6, <1>7, <1>8, <1>9, StepKinds

LEMMA StepReplayChosen == Inv /\ [Next]_vars => ReplayChosen'
<1>. SUFFICES ASSUME Inv, [Next]_vars, Past({"context"})'
              PROVE  \A e \in DOMAIN replays' : replays'[e] # "unread"
  BY DEF ReplayChosen
<1>1. Past({"context"}) => \A e \in DOMAIN replays : replays[e] # "unread"
  BY DEF Inv, ReplayChosen
<1>2. CASE BuildContext
  BY <1>2 DEF BuildContext, ReplayOutcomes
<1>3. CASE NoClaims \/ NoEvidence
  <2>1. DOMAIN replays = {}
    <3>1. DOMAIN replays = Known \cap Cited
      BY PlanPositions DEF Inv
    <3>2. CASE NoClaims
      <4>1. Positions = {}
        BY <3>2, PlanPositions DEF NoClaims, Inv
      <4>. QED
        BY <3>1, <4>1 DEF Cited
    <3>3. CASE NoEvidence
      <4>1. DOMAIN evidence = {}
        BY <3>3 DEF NoEvidence
      <4>. QED
        BY <3>1, <4>1 DEF Known
    <3>. QED
      BY <1>3, <3>2, <3>3
  <2>2. replays' = replays
    BY <1>3 DEF NoClaims, NoEvidence
  <2>. QED
    BY <2>1, <2>2
<1>4. CASE pc' \in {"refs", "context"}
  BY <1>4 DEF Past
<1>5. CASE Later /\ ~BuildContext
  <2>1. replays' = replays /\ pc # "context"
    BY <1>5 DEF Later, ReplayEvidence, SkipEvidence, ReplaysDone, AnnotateClaim,
         AnnotateDone, TypedClaim, ReplayRaises, TypedRaises, TypedDone, Decide
  <2>2. Past({})
    BY <1>5, LaterIsPast
  <2>. QED
    BY <1>1, <2>1, <2>2 DEF Past
<1>6. CASE UNCHANGED vars
  BY <1>1, <1>6 DEF vars, Past
<1>7. GivesUp \/ DistinctEvidence \/ RefsOfClaim \/ RefsDone
        => NoClaims \/ NoEvidence \/ pc' \in {"refs", "context"}
  BY DEF GivesUp, DuplicateEvidence, UnreferencedEvidence, DistinctEvidence, RefsOfClaim,
     RefsDone, Enter
<1>. QED
  BY <1>2, <1>3, <1>4, <1>5, <1>6, <1>7, StepKinds

\* The replay loop visits an evidence id at its first occurrence.
LEMMA OccursFirst ==
  ASSUME Inv, NEW k \in DOMAIN evidence, evidence[k] \in Cited, ~FirstOccurrence(k)
  PROVE  \E j \in DOMAIN evidence : j < k /\ evidence[j] = evidence[k]
<1>1. PICK j \in 1..(k - 1) : evidence[j] = evidence[k]
  BY DEF FirstOccurrence
<1>2. j \in DOMAIN evidence /\ j < k
  BY <1>1, PlanPositions DEF Inv
<1>. QED
  BY <1>1, <1>2

\* During the loop: the evidence it has passed replayed cleanly for every claim
\* that cites it and has not failed.
LEMMA StepReplaying ==
  ASSUME Inv, [Next]_vars, pc' = "replay",
         NEW i \in Positions, NEW k \in DOMAIN evidence,
         k < at', evidence[k] \in claims[i].cites, ~Failed(results'[ResultOf(i)])
  PROVE  replays'[evidence[k]] = "clean"
<1>1. ~Failed(results[ResultOf(i)]) /\ ResultOf(i) \in Positions
  BY StepUnfailed
<1>2. \A j \in DOMAIN evidence :
        pc = "replay" /\ j < at /\ evidence[j] = evidence[k] => replays[evidence[k]] = "clean"
  BY <1>1 DEF Inv, ReplaysChecked
<1>3. k \in Nat /\ 1 <= k /\ at \in Nat \ {0}
  BY PlanPositions DEF Inv, TypeOK
<1>4. evidence[k] \in Cited /\ evidence[k] \in DOMAIN replays
  BY PlanPositions DEF Inv, Cited, Known
<1>5. CASE BuildContext
  BY <1>3, <1>5 DEF BuildContext, Enter
<1>6. CASE ReplayEvidence
  <2>1. pc = "replay" /\ at' = at + 1 /\ replays' = replays /\ at <= Len(evidence)
    BY <1>6 DEF ReplayEvidence
  <2>2. CASE k < at
    BY <1>2, <2>1, <2>2
  <2>3. CASE k = at
    <3>1. PICK named \in {"NONE", "CONFIRMED", "INCONCLUSIVE"} :
            results' = [p \in Positions |->
                          IF p \in Citing(evidence[at])
                          THEN CheckReplay(results[p], replays[evidence[at]], named)
                          ELSE results[p]]
      BY <1>6 DEF ReplayEvidence
    <3>2. ResultOf(i) \in Citing(evidence[at])
      BY <2>3 DEF Citing
    <3>3. replays[evidence[k]] \in ReplayOutcomes
      <4>1. replays[evidence[k]] # "unread"
        BY <1>4, <2>1 DEF Inv, ReplayChosen, Past
      <4>. QED
        BY <1>4, <4>1 DEF Inv, TypeOK
    <3>4. results[ResultOf(i)] \in Result
      BY <1>1 DEF Inv, TypeOK
    <3>5. results'[ResultOf(i)] = CheckReplay(results[ResultOf(i)], replays[evidence[k]], named)
      BY <1>1, <2>3, <3>1, <3>2
    <3>. QED
      BY <2>1, <3>3, <3>4, <3>5, CheckingReplay
  <2>. QED
    BY <1>3, <2>1, <2>2, <2>3
<1>7. CASE SkipEvidence
  <2>1. pc = "replay" /\ at' = at + 1 /\ replays' = replays
    BY <1>7 DEF SkipEvidence
  <2>2. CASE k < at
    BY <1>2, <2>1, <2>2
  <2>3. CASE k = at
    <3>1. ~FirstOccurrence(k)
      BY <1>4, <1>7, <2>3 DEF SkipEvidence, Replayed
    <3>2. PICK j \in DOMAIN evidence : j < k /\ evidence[j] = evidence[k]
      BY <1>4, <3>1, OccursFirst
    <3>. QED
      BY <1>2, <2>1, <2>3, <3>2
  <2>. QED
    BY <1>3, <2>1, <2>2, <2>3
<1>8. CASE UNCHANGED vars
  BY <1>2, <1>8 DEF vars
<1>9. BuildContext \/ ReplayEvidence \/ SkipEvidence \/ UNCHANGED vars
  BY DEF Next, NoClaims, NoEvidence, DuplicateEvidence, DistinctEvidence, RefsOfClaim,
     RefsDone, UnreferencedEvidence, ReplaysDone, AnnotateClaim, AnnotateDone, TypedClaim,
     ReplayRaises, TypedRaises, TypedDone, Decide, Enter
<1>. QED
  BY <1>5, <1>6, <1>7, <1>8, <1>9

\* After it: a claim that has not failed is backed.
LEMMA StepBacked ==
  ASSUME Inv, [Next]_vars, Past({"context", "replay", "raised"})',
         NEW i \in Positions, ~Failed(results'[ResultOf(i)])
  PROVE  Backed(i)'
<1>1. ~Failed(results[ResultOf(i)]) /\ ResultOf(i) \in Positions
  BY StepUnfailed
<1>2. Past({"context", "replay", "raised"}) => Backed(i)
  BY <1>1 DEF Inv, ReplaysChecked
<1>3. CASE GivesUp
  <2>1. Positions' = Positions /\ AllFailed'
    BY <1>3, GivingUp, StepResults, PlanStays DEF GivesUp
  <2>2. Failed(results'[ResultOf(i)])
    BY <1>1, <2>1 DEF AllFailed, Failed
  <2>. QED
    BY <2>2
<1>4. CASE ReplaysDone
  <2>1. pc = "replay" /\ at > Len(evidence) /\ replays' = replays /\ claims' = claims
    BY <1>4 DEF ReplaysDone, plan
  <2>2. claims[i].cites # {} /\ claims[i].cites \subseteq Known
    BY <1>1, <2>1 DEF Inv, RefsChecked, Past
  <2>3. claims[i].cites \subseteq DOMAIN replays
    BY <2>2, PlanPositions DEF Inv, Cited
  <2>4. ASSUME NEW e \in claims[i].cites
        PROVE  replays[e] = "clean"
    <3>1. PICK k \in DOMAIN evidence : e = evidence[k]
      BY <2>2 DEF Known
    <3>2. k < at
      BY <2>1, PlanPositions DEF Inv, TypeOK
    <3>. QED
      BY <1>1, <2>1, <3>1, <3>2 DEF Inv, ReplaysChecked
  <2>. QED
    BY <2>1, <2>2, <2>3, <2>4 DEF Backed
<1>5. CASE Later /\ ~ReplaysDone
  <2>1. replays' = replays /\ claims' = claims /\ pc \notin {"context", "replay", "raised"}
    BY <1>5 DEF Later, BuildContext, ReplayEvidence, SkipEvidence, AnnotateClaim,
         AnnotateDone, TypedClaim, ReplayRaises, TypedRaises, TypedDone, Decide, Enter,
         Past, plan
  <2>2. Backed(i)
    BY <1>2, <1>5, <2>1, LaterIsPast DEF Past
  <2>. QED
    BY <2>1, <2>2 DEF Backed
<1>6. CASE UNCHANGED vars
  BY <1>2, <1>6 DEF vars, Past, Backed
<1>7. ~(DistinctEvidence \/ RefsOfClaim \/ RefsDone)
  BY DEF DistinctEvidence, RefsOfClaim, RefsDone, Enter, Past
<1>. QED
  BY <1>3, <1>4, <1>5, <1>6, <1>7, StepKinds

LEMMA StepReplaysChecked == Inv /\ [Next]_vars => ReplaysChecked'
<1>. SUFFICES ASSUME Inv, [Next]_vars
              PROVE  ReplaysChecked'
  OBVIOUS
<1>1. Positions' = Positions /\ claims' = claims /\ evidence' = evidence
        /\ \A i : ResultOf(i)' = ResultOf(i)
  BY StepResults, PlanStays
<1>2. pc' = "replay" =>
        \A i \in Positions, k \in DOMAIN evidence :
          k < at' /\ evidence[k] \in claims[i].cites /\ ~Failed(results'[ResultOf(i)]) =>
            replays'[evidence[k]] = "clean"
  BY StepReplaying
<1>3. Past({"context", "replay", "raised"})' =>
        \A i \in Positions : ~Failed(results'[ResultOf(i)]) => Backed(i)'
  BY StepBacked
<1>. QED
  BY <1>1, <1>2, <1>3 DEF ReplaysChecked, Failed
LEMMA StepTypedChecked == Inv /\ [Next]_vars => TypedChecked'
<1>. DEFINE Decided(res) == res.status \in {"VERIFIED", "PARTIALLY_VERIFIED", "FAILED"}
<1>. SUFFICES ASSUME Inv, [Next]_vars, NEW i \in Positions,
                     (pc' = "typed" /\ i < at') \/ pc' \in {"gate", "done"}
              PROVE  Decided(results'[ResultOf(i)])
  BY StepResults, PlanStays DEF TypedChecked
<1>1. ResultOf(i) \in Positions /\ results \in [Positions -> Result]
  BY DEF Inv, IdsResolve, TypeOK
<1>2. (pc = "typed" /\ i < at) \/ pc \in {"gate", "done"} => Decided(results[ResultOf(i)])
  BY DEF Inv, TypedChecked
<1>3. i \in Nat /\ 1 <= i /\ i <= Len(claims) /\ Len(claims) \in Nat /\ at \in Nat \ {0}
  BY PlanPositions DEF Inv, TypeOK
<1>4. CASE GivesUp
  <2>1. Positions' = Positions /\ AllFailed'
    BY <1>4, GivingUp, StepResults, PlanStays DEF GivesUp
  <2>. QED
    BY <1>1, <2>1 DEF AllFailed, Failed
<1>5. CASE AnnotateDone
  BY <1>3, <1>5 DEF AnnotateDone, Enter
<1>6. CASE TypedClaim
  <2>1. pc = "typed" /\ pc' = "typed" /\ at' = at + 1
    BY <1>6 DEF TypedClaim
  <2>2. at \in Positions
    BY <1>6, PlanPositions DEF TypedClaim, Inv, TypeOK
  <2>3. PICK finding \in {"REFUTED", "INCONCLUSIVE", "CONFIRMED"} :
          results' = [results EXCEPT ![ResultOf(at)] =
                        Dispatch(results[ResultOf(at)], finding)]
    <3>1. ResultOf(at) \in Positions
      BY <2>2 DEF Inv, IdsResolve
    <3>. QED
      BY <1>1, <1>6, <3>1 DEF TypedClaim
  <2>4. CASE ResultOf(i) = ResultOf(at)
    BY <1>1, <2>3, <2>4, Dispatching
  <2>5. CASE ResultOf(i) # ResultOf(at)
    <3>1. results'[ResultOf(i)] = results[ResultOf(i)]
      BY <1>1, <2>3, <2>5
    <3>2. i < at
      BY <1>3, <2>1, <2>5
    <3>. QED
      BY <1>2, <2>1, <3>1, <3>2
  <2>. QED
    BY <2>4, <2>5
<1>7. CASE TypedDone
  <2>1. pc = "typed" /\ i < at /\ results' = results
    BY <1>3, <1>7 DEF TypedDone
  <2>. QED
    BY <1>2, <2>1
<1>8. CASE Decide \/ UNCHANGED vars
  BY <1>2, <1>8 DEF Decide, vars
<1>9. GivesUp \/ AnnotateDone \/ TypedClaim \/ TypedDone \/ Decide \/ UNCHANGED vars
  BY DEF Next, GivesUp, DistinctEvidence, RefsOfClaim, RefsDone, BuildContext,
     ReplayEvidence, SkipEvidence, ReplaysDone, AnnotateClaim, ReplayRaises, TypedRaises, Enter
<1>. QED
  BY <1>4, <1>5, <1>6, <1>7, <1>8, <1>9

LEMMA StepGateChecked == Inv /\ [Next]_vars => GateChecked'
<1>. DEFINE AllVerified == claims # <<>> /\ \A i \in Positions : results[i].status = "VERIFIED"
<1>. SUFFICES ASSUME Inv, [Next]_vars, pc' = "done"
              PROVE  gate' = "VERIFIED" <=> AllVerified'
  BY DEF GateChecked
<1>1. Positions' = Positions /\ claims' = claims
        /\ (claims = <<>> <=> Positions = {})
  BY StepResults, PlanStays, PlanPositions DEF Inv
<1>2. CASE NoClaims \/ NoEvidence
  <2>1. gate' = "FAILED" /\ (claims = <<>> \/ AllFailed')
    BY <1>2, GivingUp DEF NoClaims, NoEvidence
  <2>2. ~AllVerified'
    BY <1>1, <2>1 DEF AllFailed, Failed
  <2>. QED
    BY <2>1, <2>2
<1>3. CASE Decide
  <2>. DEFINE statuses == {results[i].status : i \in Positions}
  <2>1. gate' = GateStatus(statuses) /\ results' = results
    BY <1>3 DEF Decide
  <2>2. gate' = "VERIFIED" <=> statuses = {"VERIFIED"}
    BY <2>1 DEF GateStatus
  <2>3. statuses = {"VERIFIED"} <=> AllVerified
    BY <1>1
  <2>. QED
    BY <1>1, <2>1, <2>2, <2>3
<1>4. CASE UNCHANGED vars
  BY <1>1, <1>4 DEF Inv, GateChecked, vars
<1>5. NoClaims \/ NoEvidence \/ Decide \/ UNCHANGED vars
  BY DEF Next, DuplicateEvidence, UnreferencedEvidence, DistinctEvidence, RefsOfClaim,
     RefsDone, BuildContext, ReplayEvidence, SkipEvidence, ReplaysDone, AnnotateClaim,
     AnnotateDone, TypedClaim, ReplayRaises, TypedRaises, TypedDone, Enter
<1>. QED
  BY <1>2, <1>3, <1>4, <1>5

LEMMA Invariance == Spec => []Inv
<1>1. Init => Inv
  BY InitInv
<1>2. Inv /\ [Next]_vars => Inv'
  BY StepTypeOK, StepResultsSane, StepGraphChecked, StepRefsChecked, StepReplayChosen,
     StepReplaysChecked, StepTypedChecked, StepGateChecked
  DEF Inv
<1>. QED
  BY <1>1, <1>2, PTL DEF Spec

-----------------------------------------------------------------------------
(* The theorems.                                                            *)

\* Every variable of the gate stays in its type: in particular results has a
\* result for each claim, and only cited evidence of the plan has a replay.
THEOREM GateTypeCorrect == Spec => []TypeOK
<1>1. Inv => TypeOK
  BY DEF Inv
<1>. QED
  BY <1>1, Invariance, PTL

\* No later phase rehabilitates a claim that a phase failed: what the typed
\* verifiers and the gate do to results leaves a failed one failed.
THEOREM NoRehabilitation == Spec => FailureIsFinal
<1>1. Inv /\ [Next]_vars => [\A i \in Positions : Failed(results[i]) => Failed(results[i])']_vars
  <2>. SUFFICES ASSUME Inv, Next
                PROVE  \A i \in Positions : Failed(results[i]) => Failed(results[i])'
    BY DEF vars
  <2>. QED
    BY StepFailed DEF Failed
<1>. QED
  BY <1>1, Invariance, PTL DEF Spec, FailureIsFinal

\* A claim fails only for a refutation that no grounding check made, or for a
\* broken reference graph: what the verifier merely cannot line up never fails it.
THEOREM FailuresHaveGrounds == Spec => []FailedIsContradicted
<1>1. Inv => FailedIsContradicted
  BY DEF Inv, ResultsSane, FailedIsContradicted, Contradicted
<1>. QED
  BY <1>1, Invariance, PTL

\* What is established of a result that reads VERIFIED once typed checks are over.
LEMMA VerifiedMeansBacked ==
  ASSUME Inv, NEW i \in Positions, pc \in {"gate", "done"},
         results[ResultOf(i)].status = "VERIFIED"
  PROVE  GraphOK /\ Backed(i) /\ results[ResultOf(i)].notes = {}
<1>1. ResultOf(i) \in Positions /\ ~Failed(results[ResultOf(i)])
  BY DEF Inv, IdsResolve, Failed
<1>2. Past({"context", "replay", "raised"}) /\ Past({})
  BY DEF Past
<1>3. GraphOK
  BY <1>1, <1>2 DEF Inv, GraphChecked, AllFailed
<1>4. Backed(i)
  BY <1>1, <1>2 DEF Inv, ReplaysChecked
<1>5. results[ResultOf(i)].notes = {}
  BY <1>1 DEF Inv, ResultsSane, Sane
<1>. QED
  BY <1>3, <1>4, <1>5

\* Whatever happens to the other claims, one whose result is VERIFIED cites
\* evidence of a sound plan that replayed cleanly, and no check doubted it.
THEOREM VerifiedClaimsAreBacked == Spec => []VerifiedClaimIsBacked
<1>1. Inv => VerifiedClaimIsBacked
  BY VerifiedMeansBacked DEF VerifiedClaimIsBacked
<1>. QED
  BY <1>1, Invariance, PTL

\* The gate's answer is VERIFIED exactly for a plan whose reference graph is
\* complete and unambiguous, whose claims have different ids and are all backed,
\* and of which no check refuted or doubted anything.
THEOREM GateIsExact == Spec => []VerifiedIffBacked
<1>. DEFINE Clean(i) == Backed(i) /\ results[i].refuted = {} /\ results[i].notes = {}
<1>1. ASSUME Inv, pc = "done", gate = "VERIFIED"
      PROVE  /\ claims # <<>> /\ GraphOK /\ DistinctClaims
             /\ \A i \in Positions : Clean(i)
  <2>1. claims # <<>> /\ \A i \in Positions : results[i].status = "VERIFIED"
    BY <1>1 DEF Inv, GateChecked
  <2>2. \A i \in Positions : ResultOf(i) = i
    BY <1>1, <2>1 DEF Inv, ResultsSane
  <2>3. DistinctClaims
    BY <2>2 DEF DistinctClaims, ResultOf
  <2>4. ASSUME NEW i \in Positions
        PROVE  GraphOK /\ Clean(i)
    <3>1. GraphOK /\ Backed(i) /\ results[i].notes = {}
      BY <1>1, <2>1, <2>2, VerifiedMeansBacked
    <3>2. results[i].refuted = {}
      BY <1>1, <2>1 DEF Inv, ResultsSane, Sane, Failed
    <3>. QED
      BY <3>1, <3>2
  <2>5. Positions # {}
    BY <1>1, <2>1, PlanPositions DEF Inv
  <2>. QED
    BY <2>1, <2>3, <2>4, <2>5
<1>2. ASSUME Inv, pc = "done", claims # <<>>, GraphOK, DistinctClaims,
             \A i \in Positions : Clean(i)
      PROVE  gate = "VERIFIED"
  <2>1. ASSUME NEW i \in Positions
        PROVE  results[i].status = "VERIFIED"
    <3>1. ResultOf(i) = i
      BY <1>2 DEF DistinctClaims, Inv, IdsResolve
    <3>2. results[i].status \in {"VERIFIED", "PARTIALLY_VERIFIED", "FAILED"}
      BY <1>2, <3>1 DEF Inv, TypedChecked
    <3>3. results[i].status # "PARTIALLY_VERIFIED"
      BY <1>2 DEF Inv, ResultsSane, Sane
    <3>4. results[i].status # "FAILED"
      BY <1>2 DEF Inv, ResultsSane, Contradicted, Failed
    <3>. QED
      BY <3>2, <3>3, <3>4
  <2>. QED
    BY <1>2, <2>1 DEF Inv, GateChecked
<1>3. Inv => VerifiedIffBacked
  BY <1>1, <1>2 DEF VerifiedIffBacked
<1>. QED
  BY <1>3, Invariance, PTL
=============================================================================
