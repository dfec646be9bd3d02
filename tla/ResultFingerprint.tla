--------------------------- MODULE ResultFingerprint ----------------------------
(***************************************************************************)
(* How the rows of a query are made comparable and fingerprinted               *)
(* (provenance/utils.py), and what the replay of the query says of them          *)
(* (verify_replays of verifier/verifier.py, for one piece of evidence).          *)
(*                                                                         *)
(* A cell has a type, the text it is spelled with ("text", "bool" and "other"   *)
(* cells), and the number it is or, for a text, reads as: None, a member of        *)
(* Numbers or Infinite.  Numbers count parts of One; Float rounds one to the        *)
(* nearest binary fraction.  "other" is what JSON cannot encode: dates, UUIDs.     *)
(***************************************************************************)
EXTENDS Integers, Sequences

CONSTANTS Numbers, One, Float, None, Infinite

IsWhole(n) == n % One = 0

ASSUME NumbersAssumption ==
  /\ Numbers \subseteq Int /\ One \in Nat \ {0}
  /\ None \notin Int /\ Infinite \notin Int /\ None # Infinite

\* Rounding is onto the floats, among which are the whole numbers, and monotonic.
ASSUME FloatAssumption ==
  /\ Float \in [Numbers -> Numbers]
  /\ \A n \in Numbers : Float[Float[n]] = Float[n] /\ (IsWhole(n) => Float[n] = n)
  /\ \A m, n \in Numbers : m <= n => Float[m] <= Float[n]

-----------------------------------------------------------------------------
(* Canonical values.                                                         *)

Cells == [type : STRING, text : STRING, number : Numbers \cup {None, Infinite}]

IsNumeric(cell) == cell.number # None

Number(type, n) == [type |-> type, text |-> "", number |-> n]

\* Bug: only what is not a Decimal is collapsed to a whole number.
KeepingDecimals(cell) ==
  IF cell.number = Infinite THEN Number("float", Infinite)
  ELSE IF IsWhole(cell.number) /\ cell.type # "decimal" THEN Number("int", cell.number)
  ELSE Number("float", Float[cell.number])

\* _canonicalize_number
CanonicalizeNumber(cell) ==
  IF cell.number = Infinite THEN Number("float", Infinite)
  ELSE IF IsWhole(cell.number) THEN Number("int", cell.number)
  ELSE Number("float", Float[cell.number])

\* _canonicalize_value, of one cell
CanonicalizeCell(cell) == IF IsNumeric(cell) THEN CanonicalizeNumber(cell) ELSE cell

CanonicalizeValue(rows) ==
  [i \in DOMAIN rows |-> [j \in DOMAIN rows[i] |-> CanonicalizeCell(rows[i][j])]]

\* An infinite Decimal, also of a text, has no int, and JSON no date.
Raises(cell) ==
  \/ cell.number = Infinite /\ cell.type \in {"decimal", "text"}
  \/ cell.type = "other"

Encodable(rows) == \A i \in DOMAIN rows : \A j \in DOMAIN rows[i] : ~Raises(rows[i][j])

\* fingerprint_rows, of encodable rows.  JSON tells canonical cells apart (1 from
\* 1.0, true from "true") and the hash is taken to be injective.
FingerprintRows(rows) == CanonicalizeValue(rows)

-----------------------------------------------------------------------------
(* Three executions of a query.  An execution fails or has rows.               *)

\* sql_db_query: the rows the model is shown and copies, none if it is told of an
\* error.
SqlDbQuery(execution) ==
  IF execution.fails \/ ~Encodable(execution.rows) THEN {}
  ELSE {CanonicalizeValue(execution.rows)}

\* attach_result_fingerprints: neither canonical values nor the fingerprint are
\* computed inside its try.
AttachRaises(execution) == ~execution.fails /\ ~Encodable(execution.rows)

\* row_count: the model's own stands where the execution failed.
RowCount(claim) == IF claim.attached.fails THEN claim.counted ELSE Len(claim.attached.rows)

\* sql_safety, row_count, row_shape: claim.width columns are declared.
ReplayFits(claim) ==
  LET rows == claim.replayed.rows
  IN  /\ claim.parses /\ ~claim.replayed.fails
      /\ Len(rows) = RowCount(claim)
      /\ \A i \in DOMAIN rows : Len(rows[i]) = claim.width

\* verify_replays, after a planner that got past attach_result_fingerprints.
ReplayVerdict(claim) ==
  LET reached == ReplayFits(claim) /\ ~claim.attached.fails
  IN  IF AttachRaises(claim.attached) \/ (reached /\ ~Encodable(claim.replayed.rows))
      THEN "RAISED"
      ELSE IF reached /\ FingerprintRows(claim.replayed.rows)
                           = FingerprintRows(claim.attached.rows)
      THEN "VERIFIED"
      ELSE "FAILED"

-----------------------------------------------------------------------------
(* What is to be taken for the same, said of numbers and not of JSON.          *)

\* Two cells stand for the same number, or are the same and stand for none.
SameCell(c, d) == IF IsNumeric(c) THEN c.number = d.number ELSE c = d

\* The same but for what a binary fraction cannot tell apart.
Rounded(n) == IF n = Infinite THEN Infinite ELSE Float[n]

CloseCell(c, d) ==
  IF IsNumeric(c) /\ IsNumeric(d) THEN Rounded(c.number) = Rounded(d.number) ELSE c = d

Matching(left, right) ==
  Len(left) = Len(right) /\ \A i \in DOMAIN left : Len(left[i]) = Len(right[i])

SameRows(left, right) ==
  /\ Matching(left, right)
  /\ \A i \in DOMAIN left : \A j \in DOMAIN left[i] : SameCell(left[i][j], right[i][j])

CloseRows(left, right) ==
  /\ Matching(left, right)
  /\ \A i \in DOMAIN left : \A j \in DOMAIN left[i] : CloseCell(left[i][j], right[i][j])

\* No number is one whose nearest binary fraction is whole although it is not.
NoneRoundsToWhole(rows) ==
  \A i \in DOMAIN rows : \A j \in DOMAIN rows[i] :
    LET n == rows[i][j].number
    IN  n \in Numbers /\ IsWhole(Float[n]) => IsWhole(n)
=============================================================================
