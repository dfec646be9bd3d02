---------------------------- MODULE TypedVerifiers ----------------------------
(***************************************************************************)
(* The dispatch table CLAIM_VERIFIERS: one claim is handed to the verifier   *)
(* of its type, which ends in one of three verdicts (in TrustGate they are    *)
(* a choice; here they follow from the claim and its evidence).  Next to the   *)
(* types stand the checks made of claims of any type: REPLAY of one evidence,   *)
(* ANNOTATIONS (names and filters) and SUBJECT.  The claims are parameters:     *)
(* sets of records whose fields are described with each verifier.             *)
(***************************************************************************)
EXTENDS SeriesVerifiers, LookupVerifiers, EvidenceChecks, SubjectResolution,
        ResultFingerprint

CONSTANTS TrendClaims, TopKClaims, ComparisonClaims, DistributionClaims,
          AggregationClaims, ValueLookupClaims, ExistenceClaims,
          ReplayClaims, AnnotationClaims, SubjectClaims

VARIABLES kind,    \* claim_type, or a check of any claim
          claim,
          status   \* of its ClaimVerification

vars == <<kind, claim, status>>

ClaimsOf(type) ==
  CASE type = "TREND" -> TrendClaims
    [] type = "RANKING_TOP_K" -> TopKClaims
    [] type = "COMPARISON" -> ComparisonClaims
    [] type = "DISTRIBUTION" -> DistributionClaims
    [] type = "AGGREGATION" -> AggregationClaims
    [] type = "VALUE_LOOKUP" -> ValueLookupClaims
    [] type = "EXISTENCE" -> ExistenceClaims
    [] type = "REPLAY" -> ReplayClaims
    [] type = "ANNOTATIONS" -> AnnotationClaims
    [] type = "SUBJECT" -> SubjectClaims

ClaimType == {"TREND", "RANKING_TOP_K", "COMPARISON", "DISTRIBUTION", "AGGREGATION",
              "VALUE_LOOKUP", "EXISTENCE"}

AnyClaim == {"REPLAY", "ANNOTATIONS", "SUBJECT"}

-----------------------------------------------------------------------------
(* The claims.  Rows are a sequence, and so are the blocks a claim cites.       *)

IsSequence(s) == s \in Seq(Range(s))

\* A key or a value is a whole number or, like a NULL, none.
Tabular(cited) ==
  /\ IsSequence(cited)
  /\ \A i \in DOMAIN cited :
       /\ IsSequence(cited[i].rows)
       /\ \A j \in DOMAIN cited[i].rows : /\ cited[i].rows[j].key \in Int \cup {NULL}
                                           /\ cited[i].rows[j].value \in Int \cup {NULL}

ASSUME EvidenceAssumption ==
  \A type \in ClaimType : \A c \in ClaimsOf(type) : Tabular(c.cited)

ASSUME ContractAssumption ==
  \A type \in ClaimType \ {"RANKING_TOP_K"} : \A c \in ClaimsOf(type) :
    /\ {"contract", "spec", "cited"} \subseteq DOMAIN c
    /\ c.contract \in {"sound", "noise", "missing"}
    /\ type \in {"COMPARISON", "DISTRIBUTION"} => "listed" \in DOMAIN c
    /\ type = "AGGREGATION" => "selector" \in DOMAIN c

\* Periods are numbered in time.
ASSUME TrendAssumption ==
  \A c \in TrendClaims :
    /\ c.spec.start \in Int /\ c.spec.end \in Int
    /\ c.spec.direction \in {"increased", "decreased", "unchanged"}
    /\ \A i \in DOMAIN c.cited :
         LET rows == c.cited[i].rows
         IN  /\ \A j \in DOMAIN rows : rows[j].key \in Int
             /\ c.cited[i].order = "time" =>
                  \A j, l \in DOMAIN rows : j < l => rows[j].key <= rows[l].key

\* The orchestrator has failed every claim that cites nothing.
ASSUME TopKAssumption ==
  \A c \in TopKClaims :
    /\ {"k", "metric", "subjects", "cited"} \subseteq DOMAIN c
    /\ c.k \in Nat /\ c.cited # <<>>
    /\ c.subjects = NULL \/ IsSequence(c.subjects)
    /\ \A i \in DOMAIN c.cited : c.cited[i].filters \in {"CONFIRMED", "INCONCLUSIVE", "REFUTED"}

ASSUME ComparisonAssumption ==
  \A c \in ComparisonClaims :
    /\ {"left", "right", "operator", "leftValue", "rightValue"} \subseteq DOMAIN c.spec
    /\ c.spec.left \in Int /\ c.spec.right \in Int
    /\ c.spec.operator \in {"GT", "GTE", "LT", "LTE", "EQ", "NE"}

ASSUME DistributionAssumption ==
  \A c \in DistributionClaims : DOMAIN c.spec.expected \subseteq Int

\* The rows are what OFFSET and LIMIT leave of all that the query selects.
ASSUME ExistenceAssumption ==
  \A c \in ExistenceClaims : \A i \in DOMAIN c.cited :
    LET block == c.cited[i]
    IN  /\ IsSequence(block.all)
        /\ block.offset \in Nat \cup {NULL} /\ block.limit \in Nat \cup {NULL}
        /\ block.rows = Page(block)

ASSUME SubjectAssumption ==
  \A c \in SubjectClaims :
    /\ c.preferred \in Names /\ IsSequence(c.cited)
    /\ \A i \in DOMAIN c.cited :
         LET block == c.cited[i]
         IN  /\ block.projection \in Seq(Terms) /\ block.declared \in Seq(Names)
             /\ IsSequence(block.rows)
             /\ \A j \in DOMAIN block.rows : IsSequence(block.rows[j])

ASSUME ReplayAssumption ==
  \A c \in ReplayClaims :
    c.attached.rows \in Seq(Seq(Cells)) /\ c.replayed.rows \in Seq(Seq(Cells))

ASSUME AnnotationAssumption ==
  AnnotationClaims \subseteq [metric : Names, filters : Seq(Filters), cited : Seq(Results)]

-----------------------------------------------------------------------------

Init ==
  /\ kind \in ClaimType \cup AnyClaim
  /\ claim \in ClaimsOf(kind)
  /\ status = "NOT_VERIFIED"

Verify(type, verdict) ==
  /\ kind = type
  /\ status = "NOT_VERIFIED"
  /\ status' = verdict
  /\ UNCHANGED <<kind, claim>>

Next ==
  \/ Verify("TREND", TrendVerdict(claim))
  \/ Verify("RANKING_TOP_K", TopKVerdict(claim))
  \/ Verify("COMPARISON", ComparisonVerdict(claim))
  \/ Verify("DISTRIBUTION", DistributionVerdict(claim))
  \/ Verify("AGGREGATION", AggregationVerdict(claim))
  \/ Verify("VALUE_LOOKUP", ValueLookupVerdict(claim))
  \/ Verify("EXISTENCE", ExistenceVerdict(claim))
  \/ Verify("REPLAY", ReplayVerdict(claim))
  \/ Verify("ANNOTATIONS", AnnotationVerdict(claim))
  \/ Verify("SUBJECT", SubjectVerdict(claim))

Spec == Init /\ [][Next]_vars

-----------------------------------------------------------------------------
(* Properties.  Each says of one type what a reader may take from a verdict,  *)
(* in terms of the rows as a set and not of the checks.                       *)

Verified(type) == kind = type /\ status = "VERIFIED"
Refuted(type)  == kind = type /\ status = "FAILED"

\* The rows a claim may rest on: of every block that shows both its columns.
Rows ==
  UNION {{claim.cited[i].rows[j] : j \in DOMAIN claim.cited[i].rows} :
           i \in {i \in DOMAIN claim.cited : Resolves(claim.cited[i], Both)}}

\* The rows whose key is, within the tolerance, the given one.
RowsFor(key) == {r \in Rows : ValuesEqual(r.key, key)}

\* How many such rows there are, over all blocks.
Occurrences(key) ==
  Cardinality({p \in Places(claim.cited) : /\ Resolves(claim.cited[p[1]], Both)
                                           /\ ValuesEqual(At(claim.cited, p).key, key)})

\* The endpoints of a trend are there once, as declared, and in the direction.
EndpointsHold ==
  /\ Occurrences(claim.spec.start) = 1 /\ Occurrences(claim.spec.end) = 1
  /\ \A a \in RowsFor(claim.spec.start), b \in RowsFor(claim.spec.end) :
       /\ NumbersEqual(a.value, claim.spec.first)
       /\ NumbersEqual(b.value, claim.spec.last)
       /\ CASE claim.spec.direction = "increased" -> a.value < b.value
            [] claim.spec.direction = "decreased" -> a.value > b.value
            [] claim.spec.direction = "unchanged" -> a.value = b.value

\* In time, from start to end, no value goes against the direction.
SteadyInTime ==
  \A s \in RowsFor(claim.spec.start), e \in RowsFor(claim.spec.end), a, b \in Rows :
    s.key <= a.key /\ a.key <= b.key /\ b.key <= e.key =>
      /\ a.value # NULL /\ b.value # NULL
      /\ InDirection(claim.spec.direction, a.value, b.value)

\* The start is found before the end, and no two periods are close to each other.
PeriodsApart ==
  /\ \A s \in RowsFor(claim.spec.start), e \in RowsFor(claim.spec.end) : s.key < e.key
  /\ \A r \in Rows : Occurrences(r.key) = 1

OneSeriesInTime == Len(claim.cited) = 1 /\ claim.cited[1].order = "time"

\* A VERIFIED trend has the declared endpoints, moves as declared and, when it
\* is called monotonic and its one block is ordered by time, does so in time and
\* not only in the order of the rows.  Conversely such a series is never FAILED if
\* no derived change is declared and its periods are apart: of periods that are
\* distinct but within the tolerance of each other it would be.
TrendIsSound ==
  /\ Verified("TREND") =>
       /\ EndpointsHold
       /\ OneSeriesInTime /\ claim.spec.monotonic => SteadyInTime
  /\ Refuted("TREND") =>
       ~(/\ OneSeriesInTime /\ EndpointsHold /\ SteadyInTime /\ PeriodsApart
         /\ claim.spec.mode = "none")

\* Stated by _check_sql_shape (verifier/trend.py:170-172): multi-row evidence
\* without an ORDER BY refutes a trend.
UnorderedSeriesIsRefuted ==
  kind = "TREND" /\ status # "NOT_VERIFIED" /\ claim.contract # "missing"
    /\ (\E i \in DOMAIN claim.cited :
          Len(claim.cited[i].rows) > 1 /\ claim.cited[i].order = "none")
  => status = "FAILED"

\* Row a ranks before row b.
Beats(a, b, desc) == IF desc THEN a.value > b.value ELSE a.value < b.value

\* The rows of a block are told apart: each is for one of the subjects only.
TellsApart(block) ==
  \A j, l \in 1..claim.k :
    ValuesEqual(claim.subjects[l], block.rows[j].key) => l = j

\* A VERIFIED ranking names, within the tolerance, the rows of each of its blocks,
\* each of which beats all that follow when there is a metric to read; so any other
\* list of the same subjects is FAILED over the same evidence, if some block tells
\* them apart (ids within the tolerance of each other could be exchanged).
RankingIsSound ==
  Verified("RANKING_TOP_K") =>
    /\ \A i \in DOMAIN claim.cited :
         LET block == claim.cited[i]
         IN  /\ Len(block.rows) = claim.k
             /\ \A j \in 1..claim.k : ValuesEqual(claim.subjects[j], block.rows[j].key)
             /\ block.scored =>
                  \A j, l \in 1..claim.k : j < l =>
                    Beats(block.rows[j], block.rows[l], Descending(claim, block))
    /\ (\E i \in DOMAIN claim.cited : TellsApart(claim.cited[i])) =>
       \A p \in [1..claim.k -> 1..claim.k] :
         LET other == [j \in 1..claim.k |-> claim.subjects[p[j]]]
         IN  other # claim.subjects =>
               TopKVerdict([claim EXCEPT !.subjects = other]) = "FAILED"

Mirror(operator) ==
  CASE operator = "GT" -> "LT" [] operator = "LT" -> "GT"
    [] operator = "GTE" -> "LTE" [] operator = "LTE" -> "GTE" [] OTHER -> operator

Negation(operator) ==
  CASE operator = "GT" -> "LTE" [] operator = "LTE" -> "GT"
    [] operator = "LT" -> "GTE" [] operator = "GTE" -> "LT"
    [] operator = "EQ" -> "NE" [] operator = "NE" -> "EQ"

Mirrored ==
  [claim EXCEPT !.spec = [claim.spec EXCEPT !.left = claim.spec.right,
                                            !.right = claim.spec.left,
                                            !.leftValue = claim.spec.rightValue,
                                            !.rightValue = claim.spec.leftValue,
                                            !.operator = Mirror(claim.spec.operator)]]

\* Over the same evidence a comparison and its negation are never both VERIFIED;
\* told from the other side it gets the same verdict; and the two subjects of a
\* VERIFIED one have one row each in all of its evidence.
ComparisonIsSound ==
  /\ Verified("COMPARISON") =>
       /\ Occurrences(claim.spec.left) = 1 /\ Occurrences(claim.spec.right) = 1
       /\ ComparisonVerdict([claim EXCEPT !.spec.operator = Negation(claim.spec.operator)])
            = "FAILED"
  /\ kind = "COMPARISON" /\ status # "NOT_VERIFIED" /\ claim.spec.mode = "none" =>
       ComparisonVerdict(Mirrored) = status

\* The one value of each key in those rows.
ValueOf == [k \in {r.key : r \in Rows} |-> (CHOOSE r \in Rows : r.key = k).value]

\* The row shows the category as declared.
Shows(r, category) ==
  ValuesEqual(r.key, category) /\ NumbersEqual(r.value, claim.spec.expected[category])

\* A VERIFIED distribution accounts for every row of its evidence, of which no two
\* are for one category, and every category it declares, each close to what is
\* declared, and its shares are of one whole.
DistributionIsSound ==
  Verified("DISTRIBUTION") =>
    /\ \A c \in DOMAIN claim.spec.expected : \E r \in Rows : Shows(r, c)
    /\ \A r \in Rows : /\ \E c \in DOMAIN claim.spec.expected : Shows(r, c)
                       /\ Occurrences(r.key) = 1
    /\ claim.spec.mode # "count" => NumbersEqual(Sum(ValueOf), Whole(claim.spec.mode))

\* A VERIFIED aggregate is computed by every block that shows its column.  If one
\* of these is grouped the group is named and has one row in all blocks that
\* show the group, with the declared value; if none is they show one row, with it.
AggregationIsSound ==
  Verified("AGGREGATION") =>
    LET shows == {i \in DOMAIN claim.cited : claim.cited[i].cols["value"] # "none"}
    IN  /\ shows # {} /\ \A i \in shows : claim.cited[i].computes
        /\ IF \E i \in shows : claim.cited[i].grouped
           THEN /\ claim.selector # NULL
                /\ Occurrences(claim.selector) = 1
                /\ \A r \in RowsFor(claim.selector) : NumbersEqual(r.value, claim.spec.expected)
           ELSE \E i \in shows :
                  /\ Len(claim.cited[i].rows) = 1
                  /\ NumbersEqual(claim.cited[i].rows[1].value, claim.spec.expected)
                  /\ \A j \in shows \ {i} : claim.cited[j].rows = <<>>

\* Where the claim's subject was found, each of its subjects has rows; a column
\* that shows all of them is not passed over for a run of columns, nor is the
\* preferred column for any other.
ReadAsFound ==
  LET block == claim.cited[MatchedBlock(claim)]
      place == Match(claim).indices
      shows(i) == SubjectQuality(claim.subjects, block.rows, <<i>>) # {}
  IN  /\ \A s \in claim.subjects : RowsOf(claim, s) # {}
      /\ Len(place) > 1 => \A i \in 1..Width(block) : ~shows(i)
      /\ \A m \in ResolveColumn(SubSeq(ReplayColumns(block), 1, Width(block)),
                                claim.preferred) :
           shows(m.index) => place = <<m.index>>

\* A VERIFIED lookup names a subject that the evidence shows as spelled or pins;
\* in the one block with the subject none of its rows shows another value, and the
\* rows of others do not count, unless their key is a number within the tolerance
\* of the subject's: those are read as its own.  Wherever a subject is found, it is
\* read there.
LookupIsSound ==
  /\ kind = "SUBJECT" /\ status # "NOT_VERIFIED" /\ Found(claim) # {} => ReadAsFound
  /\ kind = "VALUE_LOOKUP" /\ claim.subject # NULL /\ Len(claim.cited) = 1
       /\ claim.cited[1].cols["value"] # "none" =>
         LET rows == claim.cited[1].rows
             own  == {rows[j] : j \in {j \in DOMAIN rows :
                                        ValuesEqual(rows[j].key, claim.subject)}}
         IN  /\ status = "VERIFIED" =>
                  \/ /\ \E r \in own : r.key = claim.subject
                     /\ \E r \in own : /\ ValuesEqual(r.value, claim.spec.expected)
                                        /\ \A o \in own : ValuesEqual(o.value, r.value)
                  \/ own = {} /\ claim.pinned
             /\ status = "FAILED" /\ own # {} =>
                  \E r \in own : ~ (r.value # NULL /\ r.value = claim.spec.expected)

\* The one row of those that show the column holds a count, or a flag, that says
\* what the claim says.
OneCell ==
  LET shows == {i \in DOMAIN claim.cited : claim.cited[i].cols["value"] # "none"}
  IN  \E i \in shows :
        /\ Len(claim.cited[i].rows) = 1
        /\ LET cell == claim.cited[i].rows[1]
           IN  /\ cell.value # NULL /\ (cell.value > 0) = claim.spec.exists
               /\ cell.flag <=> claim.spec.by = "boolean"
        /\ \A j \in shows \ {i} : claim.cited[j].rows = <<>>

\* VERIFIED presence by rows shows a row and, of a subject, the subject; VERIFIED
\* absence by rows shows that no cited query selects anything at all, unless it
\* says LIMIT 0, which leaves nothing to see; and a count or a flag is the only
\* one in the evidence and agrees.  No absence is read behind an OFFSET.
ExistenceIsSound ==
  Verified("EXISTENCE") =>
    /\ ~claim.spec.exists => \A i \in DOMAIN claim.cited : claim.cited[i].offset = NULL
    /\ claim.spec.by # "rows" => OneCell
    /\ claim.spec.by = "rows" /\ claim.spec.exists =>
         /\ \E i \in DOMAIN claim.cited : claim.cited[i].all # <<>>
         /\ claim.subject # NULL /\ ~claim.pinned => Holding(claim.cited, claim.subject) # {}
    /\ claim.spec.by = "rows" /\ ~claim.spec.exists =>
         \A i \in DOMAIN claim.cited : claim.cited[i].limit # 0 => claim.cited[i].all = <<>>

Reversed == [claim EXCEPT !.cited = Reverse(claim.cited)]

\* What a comparison, a distribution or an aggregate is worth does not depend on
\* the order in which the claim cites its evidence, unless a category is within the
\* tolerance of two rows: the first of them is read.
CitationOrderIsIrrelevant ==
  status # "NOT_VERIFIED" =>
    CASE kind = "COMPARISON" -> ComparisonVerdict(Reversed) = status
      [] kind = "DISTRIBUTION" ->
           (\A c \in DOMAIN claim.spec.expected : Occurrences(c) <= 1)
             => DistributionVerdict(Reversed) = status
      [] kind = "AGGREGATION" -> AggregationVerdict(Reversed) = status
      [] OTHER -> TRUE

-----------------------------------------------------------------------------
(* Properties of the checks made of every claim.                             *)

\* A name that the model declared for one position, and no other like it, is read
\* at that position.
ReadAsDeclared(block) ==
  \A i \in DOMAIN block.declared :
    LET name == block.declared[i]
    IN  /\ name # Blank
        /\ \A j \in DOMAIN block.declared \ {i} : block.declared[j].fold # name.fold
        => \E m \in ResolveReplayColumn(block, name) : m.index = i

\* resolve_column never binds a name to one of several columns that are equally
\* like it ("an ambiguous reference is never silently bound"); and if the columns
\* of a claim's evidence were confirmed, the names declared for them are read at
\* their own positions, though the query's names are looked at first.
NamesBindSharply ==
  kind = "ANNOTATIONS" =>
    \A i \in DOMAIN claim.cited :
      LET block == claim.cited[i]
      IN  /\ BindsSharply(ReplayColumns(block), claim.metric)
          /\ BindsSharply(block.declared, claim.metric)
          /\ Verified("ANNOTATIONS") => ReadAsDeclared(block)

\* A claim that its filters fail has one whose value the scope of its evidence
\* excludes, if equalities on that column hold of all rows; and the filters of one
\* they do not even cast doubt on are in the scope of its evidence, if their values
\* are compared with nothing else: each but for the tolerance (reconcile_filter).
FiltersAreGrounded ==
  LET filters == {claim.filters[i] : i \in DOMAIN claim.filters}
      blocks  == {claim.cited[i] : i \in DOMAIN claim.cited}
  IN  /\ /\ Refuted("ANNOTATIONS")
         /\ \A f \in filters : /\ f.value.members # {}
                               /\ \A b \in blocks : Pins(f, b)
         => \E f \in filters : Excluded(f, claim.cited)
      /\ /\ Verified("ANNOTATIONS")
         /\ \A b \in blocks : /\ Plain(b) /\ FromScope(b)
                              /\ \A f \in filters : Pointed(f, b)
         => \A f \in filters : Admitted(f, claim.cited)

\* Evidence whose replay is VERIFIED shows the rows that were fingerprinted, cell
\* by cell in their order, but for the rounding of fractions; two executions that
\* return the same numbers, however typed, are never FAILED by their hash; and rows
\* copied from the query tool's answer have the fingerprint of the replayed ones,
\* unless a fraction rounds to a whole number.
ReplayIsFaithful ==
  /\ Verified("REPLAY") => CloseRows(claim.attached.rows, claim.replayed.rows)
  /\ Refuted("REPLAY") /\ ReplayFits(claim) /\ ~claim.attached.fails =>
       ~SameRows(claim.attached.rows, claim.replayed.rows)
  /\ kind = "REPLAY" =>
       \A answer \in SqlDbQuery(claim.attached) :
         NoneRoundsToWhole(claim.attached.rows) =>
           FingerprintRows(answer) = FingerprintRows(claim.attached.rows)
=============================================================================
