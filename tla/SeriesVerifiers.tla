--------------------------- MODULE SeriesVerifiers ----------------------------
(***************************************************************************)
(* The verifiers that read rows as a series: verifier/trend.py and           *)
(* verifier/top_k_ranking.py.                                                *)
(***************************************************************************)
EXTENDS ClaimChecks

-----------------------------------------------------------------------------
(* Trend.  A block's order is "none", "time" (leading key), "then_time" (the   *)
(* time column after another key), both ascending, or "other".               *)

\* _check_sql_shape: the first multi-row block not ordered by time decides.
TrendShape(cited) ==
  LET unordered == {i \in DOMAIN cited : /\ Len(cited[i].rows) > 1
                                         /\ cited[i].order \notin {"time", "then_time"}}
  IN  IF unordered = {} THEN "CONFIRMED"
      ELSE IF cited[Min(unordered)].order = "none" THEN "REFUTED"
      ELSE "INCONCLUSIVE"

\* Bug: a period may resolve to several rows.
IndexesFirst(cited, records, period) ==
  LET all == With(cited, records, period)
  IN  IF all = {} THEN {} ELSE {First(all)}

Indexes(cited, records, period) == With(cited, records, period)

\* At least two periods, all different, the declared ones among them, each to be
\* told from the others, in order.
TrendPeriods(cited, records, spec) ==
  /\ \E p, q \in records : p # q
  /\ \A p \in records : Only(Indexes(cited, records, At(cited, p).key))
  /\ Only(Indexes(cited, records, spec.start)) /\ Only(Indexes(cited, records, spec.end))
  /\ \E p \in Indexes(cited, records, spec.start), q \in Indexes(cited, records, spec.end) :
       Before(p, q)

Direction(first, last) ==
  IF last > first THEN "increased" ELSE IF last < first THEN "decreased" ELSE "unchanged"

InDirection(direction, left, right) ==
  CASE direction = "increased" -> left <= right
    [] direction = "decreased" -> left >= right
    [] direction = "unchanged" -> left = right

\* Consecutive records between the endpoints, in the order they were read.
Monotonic(cited, records, from, to, direction) ==
  LET span == {p \in records : ~Before(p, from) /\ ~Before(to, p)}
  IN  /\ \A p \in span : At(cited, p).value # NULL
      /\ \A p, q \in span :
           Before(p, q) /\ (\A r \in span : ~(Before(p, r) /\ Before(r, q)))
             => InDirection(direction, At(cited, p).value, At(cited, q).value)

\* The series has its endpoints, and goes from one to the other, as declared.
TrendHolds(claim) ==
  LET spec    == claim.spec
      records == Records(claim.cited, {"key", "value"})
      from    == First(Indexes(claim.cited, records, spec.start))
      to      == First(Indexes(claim.cited, records, spec.end))
      first   == At(claim.cited, from).value
      last    == At(claim.cited, to).value
  IN  /\ TrendPeriods(claim.cited, records, spec)
      /\ NumbersEqual(first, spec.first) /\ NumbersEqual(last, spec.last)
      /\ Direction(first, last) = spec.direction
      /\ \/ spec.mode = "none"
         \/ /\ ChangeDefined(first, spec.mode)
            /\ ReportedNumbersEqual(DerivedChange(first, last, spec.mode), spec.change)
      /\ spec.monotonic => Monotonic(claim.cited, records, from, to, spec.direction)

TrendVerdict(claim) ==
  Verdict(<<
    Contract(claim),
    TrendShape(claim.cited),
    Columns(claim.cited, {"key", "value"}),
    Check(TrendHolds(claim))>>)

-----------------------------------------------------------------------------
(* Top-k.  A block has the keys of its ORDER BY (named after the metric,       *)
(* another column or nothing that resolves), its LIMIT, whether the metric's   *)
(* column is found, and how its filters reconcile.                            *)

MetricKeys(block) == {i \in DOMAIN block.order : block.order[i].name = "metric"}

\* The metric is claimed but no key bears its name.
OffMetric(claim, block) == claim.metric /\ MetricKeys(block) = {}

\* _check_sql_shape
TopKShape(claim, block) ==
  IF block.order = <<>> THEN "REFUTED"
  ELSE IF /\ OffMetric(claim, block)
          /\ \A i \in DOMAIN block.order : block.order[i].name # "unknown"
       THEN "REFUTED"
  ELSE Doubt(block.limit = claim.k /\ ~OffMetric(claim, block))

Descending(claim, block) ==
  IF claim.metric /\ MetricKeys(block) # {} THEN block.order[Min(MetricKeys(block))].desc
  ELSE block.order # <<>> /\ block.order[1].desc

\* _check_subjects: the claimed subjects are the leading rows, in their order.
TopKSubjects(claim, rows) ==
  IF claim.subjects = NULL THEN "REFUTED"
  ELSE IF \/ Len(claim.subjects) > Len(rows)
          \/ \E i \in DOMAIN claim.subjects : ~ValuesEqual(claim.subjects[i], rows[i].key)
       THEN "REFUTED"
  ELSE Doubt(Len(claim.subjects) = Len(rows))

\* Bug: a ranking is taken for descending.
InRankOrderDescending(rows, desc) ==
  \A i \in 2..Len(rows) :
    /\ rows[i - 1].value # NULL /\ rows[i].value # NULL
    /\ rows[i].value <= rows[i - 1].value

InRankOrder(rows, desc) ==
  \A i \in 2..Len(rows) :
    /\ rows[i - 1].value # NULL /\ rows[i].value # NULL
    /\ IF desc THEN rows[i].value <= rows[i - 1].value
               ELSE rows[i].value >= rows[i - 1].value

Tied(rows) ==
  \E i \in 2..Len(rows) : rows[i].value # NULL /\ rows[i].value = rows[i - 1].value

NonNegative(rows) ==
  \A i \in DOMAIN rows : rows[i].value # NULL => rows[i].value >= 0

\* _check_filters: "REFUTED" is reported as top_k_filters_conflict.
TopKBlock(claim, block) ==
  LET rows == block.rows
  IN  Verdict(<<
        TopKShape(claim, block),
        Doubt(Len(rows) = claim.k),
        Check(\A i \in DOMAIN rows : rows[i].key # NULL),
        TopKSubjects(claim, rows),
        Check(block.scored => InRankOrder(rows, Descending(claim, block))),
        Doubt(block.scored => ~Tied(rows)),
        Check(block.scored => NonNegative(rows)),
        block.filters>>)

\* No check of a block is unreadable: what one block refutes fails the claim,
\* and it passes only if all blocks do.
TopKVerdict(claim) ==
  LET verdicts == {TopKBlock(claim, claim.cited[i]) : i \in DOMAIN claim.cited}
  IN  IF claim.k = 0 \/ "FAILED" \in verdicts THEN "FAILED"
      ELSE IF "PARTIALLY_VERIFIED" \in verdicts THEN "PARTIALLY_VERIFIED"
      ELSE "VERIFIED"
=============================================================================
