--------------------------- MODULE LookupVerifiers ----------------------------
(***************************************************************************)
(* The verifiers that look values up by a key: comparison.py,                *)
(* distribution.py, aggregation.py, value_lookup.py and existence.py of        *)
(* verifier/.                                                               *)
(***************************************************************************)
EXTENDS ClaimChecks

Both == {"key", "value"}

-----------------------------------------------------------------------------
(* Comparison of a left and a right subject.                                 *)

Relation(left, operator, right) ==
  CASE operator = "GT"  -> left > right
    [] operator = "GTE" -> left >= right
    [] operator = "LT"  -> left < right
    [] operator = "LTE" -> left <= right
    [] operator = "EQ"  -> NumbersEqual(left, right)
    [] operator = "NE"  -> ~NumbersEqual(left, right)

\* Each side has one record, with its declared value, and these relate as declared.
Compared(claim) ==
  LET spec    == claim.spec
      records == Records(claim.cited, Both)
      lefts   == With(claim.cited, records, spec.left)
      rights  == With(claim.cited, records, spec.right)
      left    == At(claim.cited, First(lefts)).value
      right   == At(claim.cited, First(rights)).value
  IN  /\ Only(lefts) /\ Only(rights)
      /\ NumbersEqual(left, spec.leftValue) /\ NumbersEqual(right, spec.rightValue)
      /\ Relation(left, spec.operator, right)
      /\ \/ spec.mode = "none"
         \/ /\ ChangeDefined(right, spec.mode)
            /\ ReportedNumbersEqual(DerivedChange(right, left, spec.mode), spec.delta)

\* listed: claim.subject names both sides.
ComparisonVerdict(claim) ==
  Verdict(<<
    Contract(claim),
    Check(~ValuesEqual(claim.spec.left, claim.spec.right)),
    Doubt(claim.listed),
    Columns(claim.cited, Both),
    Check(Compared(claim))>>)

-----------------------------------------------------------------------------
(* Distribution over categories.  spec.expected is a function from categories  *)
(* to numbers; a block may be grouped with an aggregate.                      *)

CONSTANT EmptyText  \* the key of a label without a character

ASSUME EmptyTextAssumption == EmptyText \in Int

Whole(mode) == IF mode = "share" THEN 1 ELSE 100

InRange(value, mode) ==
  value >= 0 /\ (mode # "count" => value <= Whole(mode))

\* Bug: a category that comes twice keeps a value.
CategoricalOverwriting(cited, records) == \A p \in records : At(cited, p).key # NULL

\* No NULL category and none twice, in all blocks together.
Categorical(cited, records) ==
  \A p, q \in records : /\ At(cited, p).key # NULL
                        /\ ValuesEqual(At(cited, p).key, At(cited, q).key) => p = q

\* _canonical_key: of the records a name may stand for the first.
CanonicalKey(cited, records, name) == First(With(cited, records, name))

\* Every category is there and, in a complete distribution, nothing else; a name
\* that resolves to the empty text is no name of it.
Covered(cited, records, names, complete) ==
  /\ \A c \in names : With(cited, records, c) # {}
  /\ complete => \A p \in records :
       At(cited, p).key # EmptyText /\ \E c \in names : p = CanonicalKey(cited, records, c)

Sum(actual) == FoldFunction(LAMBDA x, y : x + y, 0, actual)

\* listed: claim.subject is empty or lists every category of the contract.
DistributionVerdict(claim) ==
  LET spec    == claim.spec
      names   == DOMAIN spec.expected
      records == Records(claim.cited, Both)
      value(c) == At(claim.cited, CanonicalKey(claim.cited, records, c)).value
      actual  == [k \in {At(claim.cited, p).key : p \in records} |-> value(k)]
      shown   == /\ Categorical(claim.cited, records)
                 /\ Covered(claim.cited, records, names, spec.complete)
  IN  Verdict(<<
        Contract(claim),
        Doubt(spec.complete => \A i \in DOMAIN claim.cited : claim.cited[i].grouped),
        Columns(claim.cited, Both),
        Check(shown),
        Doubt(claim.listed),
        Check(shown =>
                /\ \A c \in names : /\ NumbersEqual(value(c), spec.expected[c])
                                    /\ InRange(value(c), spec.mode)
                /\ spec.complete /\ spec.mode # "count" =>
                     /\ \A k \in DOMAIN actual : actual[k] # NULL
                     /\ NumbersEqual(Sum(actual), Whole(spec.mode))),
        Doubt(spec.complete)>>)

-----------------------------------------------------------------------------
(* Aggregation.  A block may be grouped, and compute the declared operation in *)
(* its outermost scope; the claim's subject or filters may select a group.     *)

AggregationVerdict(claim) ==
  LET spec     == claim.spec
      relevant == Readable(claim.cited, {"value"})
      grouped  == \E i \in relevant : claim.cited[i].grouped
      columns  == IF grouped THEN Both ELSE {"value"}
      records  == Records(claim.cited, columns)
      matches  == IF grouped THEN With(claim.cited, records, claim.selector) ELSE records
      actual   == At(claim.cited, First(matches)).value
  IN  Verdict(<<
        Contract(claim),
        Need(relevant # {}),
        Check(\A i \in relevant : claim.cited[i].computes),
        Doubt(spec.scope = IF grouped THEN "grouped" ELSE "scalar"),
        Need(grouped => claim.selector # NULL),
        Columns(claim.cited, columns),
        Check(/\ Only(matches)
              /\ NumbersEqual(actual, spec.expected)
              /\ spec.operation = "COUNT" \/ spec.nonNegative => actual >= 0)>>)

-----------------------------------------------------------------------------
(* Value lookup.  The subject is searched in the key cells of each block in     *)
(* turn; spelled tells whether a block spells a key as the claim does.        *)

\* resolve_subject_match, over blocks of one key column.
Holding(cited, subject) ==
  {i \in DOMAIN cited :
     \E j \in DOMAIN cited[i].rows : ValuesEqual(cited[i].rows[j].key, subject)}

Spelled(block, subject) ==
  block.spelled /\ \E j \in DOMAIN block.rows : block.rows[j].key = subject

\* resolve_subject_match, else subject_in_predicates (pinned).
SubjectCheck(claim, otherwise) ==
  LET holding == Holding(claim.cited, claim.subject)
  IN  IF claim.subject = NULL THEN "CONFIRMED"
      ELSE IF holding # {} THEN Doubt(Spelled(claim.cited[Min(holding)], claim.subject))
      ELSE IF claim.pinned THEN "CONFIRMED"
      ELSE otherwise

\* Bug: the subject selects rows in no block.
CandidatesOfAll(claim) == Records(claim.cited, {"value"})

\* _candidate_values: only the block the subject was found in is filtered.
Candidates(claim) ==
  LET holding == Holding(claim.cited, claim.subject)
  IN  {p \in Records(claim.cited, {"value"}) :
         claim.subject # NULL /\ holding # {} /\ p[1] = Min(holding)
           => ValuesEqual(At(claim.cited, p).key, claim.subject)}

ValueLookupVerdict(claim) ==
  LET places   == Candidates(claim)
      value(p) == At(claim.cited, p).value
  IN  Verdict(<<
        Contract(claim),
        SubjectCheck(claim, "INCONCLUSIVE"),
        Need(Readable(claim.cited, {"value"}) # {}),
        Check(/\ places # {}
              /\ \A p \in places : ValuesEqual(value(p), value(First(places)))
              /\ ValuesEqual(value(First(places)), claim.spec.expected))>>)

-----------------------------------------------------------------------------
(* Existence, shown by rows, by a count or by a flag.  A block has all rows its  *)
(* query selects, and its own OFFSET and LIMIT (NULL if it has none), which       *)
(* leave the rows that are replayed.                                          *)

\* External: how SQL cuts a result.
Page(block) ==
  LET skipped == IF block.offset = NULL THEN 0 ELSE block.offset
      end     == IF block.limit = NULL THEN Len(block.all) ELSE skipped + block.limit
  IN  SubSeq(block.all, skipped + 1, Min({end, Len(block.all)}))

\* Bug: an empty result after an offset proves absence.
OffsetIgnored(claim) == FALSE

\* The check of an absence, which no LIMIT fails.
OffsetHides(claim) ==
  ~claim.spec.exists /\ \E i \in DOMAIN claim.cited : claim.cited[i].offset # NULL

ByRows(claim) ==
  LET some == \E i \in DOMAIN claim.cited : claim.cited[i].rows # <<>>
  IN  Verdict(<<
        Contract(claim),
        Check(~OffsetHides(claim)),
        Check(some = claim.spec.exists),
        IF claim.spec.exists THEN SubjectCheck(claim, "REFUTED") ELSE "CONFIRMED">>)

\* A flag cell is a truth value, as not every database returns one.
ByValue(claim) ==
  LET records == Records(claim.cited, {"value"})
      cell    == At(claim.cited, First(records))
  IN  Verdict(<<
        Contract(claim),
        Check(~OffsetHides(claim)),
        Need(claim.spec.column),
        Columns(claim.cited, {"value"}),
        Check(/\ Only(records)
              /\ cell.value # NULL
              /\ cell.flag <=> claim.spec.by = "boolean"
              /\ cell.value >= 0
              /\ (cell.value > 0) = claim.spec.exists)>>)

ExistenceVerdict(claim) ==
  IF claim.spec.by = "rows" THEN ByRows(claim) ELSE ByValue(claim)
=============================================================================
