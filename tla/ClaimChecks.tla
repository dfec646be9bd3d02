----------------------------- MODULE ClaimChecks ------------------------------
(***************************************************************************)
(* What the typed claim verifiers share: how numbers are compared           *)
(* (verifier/sql_analysis.py), how a sequence of checks ends                *)
(* (verifier/base.py) and how rows are read from the cited evidence           *)
(* (verifier/domain_common.py).                                             *)
(*                                                                         *)
(* A cited evidence block is a record.  Common to all of them are            *)
(*   rows   the replayed rows, cut down to a key cell (a period, a subject,   *)
(*          a category) and a value cell, either of which may be NULL         *)
(*   cols   how the claim's names for the two columns resolve: "exact",        *)
(*          "loose" (after normalization) or "none"                           *)
(* and each verifier adds the traits of the SQL it looks at.  Blocks are      *)
(* replayable: the orchestrator has failed every claim that cites another.     *)
(* Key cells are numbers: those that a period, a label or an id reads as, and    *)
(* for a text that reads as none a number that is close to no other key.       *)
(***************************************************************************)
EXTENDS Integers, FiniteSetsExt, SequencesExt

CONSTANTS Precision,  \* the inverse of NUMERIC_TOLERANCE: 10^6 in the code
          NULL        \* a cell that is NULL or, where a number is due, no number

ASSUME PrecisionAssumption == Precision \in Nat \ {0}
ASSUME NullAssumption == NULL \notin Int

Magnitude(n) == IF n < 0 THEN -n ELSE n

\* |left - right| <= tolerance * max(1, |left|, |right|), over a denominator.
Close(left, right, den) ==
  Precision * Magnitude(left - right) <= Max({den, Magnitude(left), Magnitude(right)})

NumbersEqual(left, right) ==
  left # NULL /\ right # NULL /\ Close(left, right, 1)

\* values_equal, of keys and of values: it also equates two NULLs.  Not transitive.
ValuesEqual(left, right) == left = right \/ NumbersEqual(left, right)

\* derived_change, as a fraction; percent has no meaning from a zero baseline.
ChangeDefined(first, mode) == mode = "absolute" \/ first # 0

DerivedChange(first, last, mode) ==
  IF mode = "absolute" THEN [num |-> last - first, den |-> 1]
  ELSE [num |-> 100 * (last - first), den |-> Magnitude(first)]

\* reported_numbers_equal.  Model numbers are whole, so its rounding to the
\* decimals that were reported never applies.
ReportedNumbersEqual(change, reported) ==
  LET n == reported * change.den
  IN  \/ Close(change.num, n, change.den)
      \/ Close(Magnitude(change.num), Magnitude(n), change.den)

-----------------------------------------------------------------------------
(* Checks.  A verifier is the sequence of their outcomes in program order;    *)
(* "UNREADABLE" is an inconclusive check that finalizes the claim at once.     *)
(* Checks in a row that can only refute are one, with their conditions in       *)
(* program order.                                                            *)

Check(holds) == IF holds THEN "CONFIRMED" ELSE "REFUTED"
Doubt(holds) == IF holds THEN "CONFIRMED" ELSE "INCONCLUSIVE"
Need(holds)  == IF holds THEN "CONFIRMED" ELSE "UNREADABLE"

\* The first check that returns decides between FAILED and the rest; notes of
\* earlier checks, or its own, leave a claim PARTIALLY_VERIFIED.
Verdict(outcomes) ==
  IF \E i \in DOMAIN outcomes : /\ outcomes[i] = "REFUTED"
                                /\ \A j \in 1..i : outcomes[j] # "UNREADABLE"
  THEN "FAILED"
  ELSE IF \E i \in DOMAIN outcomes : outcomes[i] # "CONFIRMED"
       THEN "PARTIALLY_VERIFIED"
  ELSE "VERIFIED"

\* resolve_spec.  The contract may be "sound", come with "noise" (no metric, a
\* stray k) or be "missing", when only verify_untyped is left, which refutes
\* nothing.
Contract(claim) ==
  CASE claim.contract = "sound" -> "CONFIRMED"
    [] claim.contract = "noise" -> "INCONCLUSIVE"
    [] claim.contract = "missing" -> "UNREADABLE"

-----------------------------------------------------------------------------
(* collect_rows, for the columns a verifier asks for: a set of "key", "value".  *)
(* A record is named by its place: the block it is from and its row there.      *)

Resolves(block, columns) == \A c \in columns : block.cols[c] # "none"

Readable(cited, columns) == {i \in DOMAIN cited : Resolves(cited[i], columns)}

Places(cited) == UNION {{i} \X DOMAIN cited[i].rows : i \in DOMAIN cited}

Records(cited, columns) == {p \in Places(cited) : p[1] \in Readable(cited, columns)}

At(cited, place) == cited[place[1]].rows[place[2]]

\* The records with a key, or one that values_equal takes for it.
With(cited, records, key) == {p \in records : ValuesEqual(At(cited, p).key, key)}

\* The order in which records are collected.
Before(p, q) == p[1] < q[1] \/ (p[1] = q[1] /\ p[2] < q[2])

First(records) == CHOOSE p \in records : \A q \in records : p = q \/ Before(p, q)

\* Bug: a key with several values is read at the first.
OnlyFirst(records) == records # {}

\* A key resolves to exactly one record.
Only(records) == \E p \in records : records = {p}

\* Bug: only the first readable block is asked how its names resolved.
ColumnsOfFirst(cited, columns) ==
  LET readable == Readable(cited, columns)
  IN  IF readable = {} THEN "UNREADABLE"
      ELSE Doubt(\A c \in columns : cited[Min(readable)].cols[c] = "exact")

\* Blocks that do not resolve all columns are passed over, unless all are.
Columns(cited, columns) ==
  LET readable == Readable(cited, columns)
  IN  IF readable = {} THEN "UNREADABLE"
      ELSE Doubt(\A i \in readable, c \in columns : cited[i].cols[c] = "exact")
=============================================================================
