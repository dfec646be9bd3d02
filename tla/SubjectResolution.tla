-------------------------- MODULE SubjectResolution ---------------------------
(***************************************************************************)
(* Where a claim's subject is found: in the replayed rows (resolve_subject of    *)
(* verifier/resolve.py), else in the literals of the cited SQL                 *)
(* (subject_in_literals), as verify_untyped of verifier/domain_common.py asks      *)
(* for a claim without a usable contract.                                      *)
(*                                                                         *)
(* A cell is a text, as a sequence of words, or NoCell.  Fold maps a word to     *)
(* its canonical form, and Reading to the number it reads as, or NULL.            *)
(* A claim may be without a subject (~named); else it has subjects, a set of        *)
(* texts, and maybe the name of a preferred column (Blank if not).               *)
(***************************************************************************)
EXTENDS NameResolution, ClaimChecks

CONSTANTS Words, Fold, Reading, NoCell,
          MaxCompositeWidth  \* columns a subject may span: 3 in the code

ASSUME WordsAssumption ==
  /\ Fold \in [Words -> Words] /\ \A w \in Words : Fold[Fold[w]] = Fold[w]
  /\ Reading \in [Words -> Int \cup {NULL}]
  /\ NoCell \notin Seq(Words) /\ MaxCompositeWidth \in 2..3

\* canonical_value, of a text
CanonicalValue(text) == [i \in DOMAIN text |-> Fold[text[i]]]

\* values_equal, of texts: two that read as numbers are compared as such.
TextsEqual(left, right) ==
  \/ CanonicalValue(left) = CanonicalValue(right)
  \/ Len(left) = 1 /\ Len(right) = 1 /\ NumbersEqual(Reading[left[1]], Reading[right[1]])

Text(cell) == IF cell = NoCell THEN <<>> ELSE cell

\* _join_cells.  A NULL between two cells shows as a second blank between their
\* words, which is the only spelling the words do not give.
JoinCells(row, indices) ==
  LET i == indices[1]
  IN  Text(row[i]) \o (IF Len(indices) > 1 THEN Text(row[i + 1]) ELSE <<>>)
                   \o (IF Len(indices) > 2 THEN Text(row[i + 2]) ELSE <<>>)

Spaced(row, indices) ==
  /\ Len(indices) > 2
  /\ Text(row[indices[1]]) # <<>> /\ Text(row[indices[2]]) = <<>> /\ Text(row[indices[3]]) # <<>>

\* _subject_quality: {} or the quality at which every subject is shown.
SubjectQuality(subjects, rows, indices) ==
  LET shown == {j \in DOMAIN rows : Len(indices) = 1 => rows[j][indices[1]] # NoCell}
  IN  IF \A s \in subjects : \E j \in shown :
           JoinCells(rows[j], indices) = s /\ ~Spaced(rows[j], indices)
      THEN {EXACT}
      ELSE IF \A s \in subjects : \E j \in shown :
                TextsEqual(JoinCells(rows[j], indices), s)
      THEN {NORMALIZED}
      ELSE {}

-----------------------------------------------------------------------------

\* The columns of a result that all rows have.
Width(block) ==
  CHOOSE w \in 0..Len(ReplayColumns(block)) :
    /\ \A j \in DOMAIN block.rows : w <= Len(block.rows[j])
    /\ \/ w = Len(ReplayColumns(block))
       \/ \E j \in DOMAIN block.rows : w = Len(block.rows[j])

Run(start, span) == [i \in 1..span |-> start + i - 1]

\* The order in which columns, and then runs of them, are tried.
Place(block, preferred, indices) ==
  LET first == ResolveColumn(SubSeq(ReplayColumns(block), 1, Width(block)), preferred)
  IN  IF Len(indices) = 1 /\ \E m \in first : m.index = indices[1] THEN 0
      ELSE Len(indices) * (Width(block) + 1) + indices[1]

Runs(block) ==
  {Run(start, span) : start \in 1..Width(block), span \in 1..MaxCompositeWidth}

\* resolve_subject: {} or the first place that shows all subjects.
ResolveSubject(claim, block) ==
  LET fits == {r \in Runs(block) :
                 /\ r[Len(r)] <= Width(block)
                 /\ SubjectQuality(claim.subjects, block.rows, r) # {}}
      best == CHOOSE r \in fits : \A q \in fits :
                Place(block, claim.preferred, r) <= Place(block, claim.preferred, q)
  IN  IF claim.subjects = {} \/ block.rows = <<>> \/ fits = {} THEN {}
      ELSE {[indices |-> best,
             quality |-> CHOOSE q \in Tiers :
                           q \in SubjectQuality(claim.subjects, block.rows, best)]}

\* subject_in_literals, of the canonical literals of all cited SQL: no tolerance here.
SubjectInLiterals(claim) ==
  \A s \in claim.subjects :
    \/ CanonicalValue(s) \in claim.literals
    \/ Len(s) > 1 /\ \A i \in DOMAIN s : <<Fold[s[i]]>> \in claim.literals

\* resolve_subject_match: the first cited block that shows the subjects.
Found(claim) == {i \in DOMAIN claim.cited : ResolveSubject(claim, claim.cited[i]) # {}}

MatchedBlock(claim) == CHOOSE i \in Found(claim) : \A j \in Found(claim) : i <= j

Match(claim) == CHOOSE m \in ResolveSubject(claim, claim.cited[MatchedBlock(claim)]) : TRUE

\* verify_untyped, which prefers no column; value_lookup prefers its spec's.
SubjectVerdict(claim) ==
  IF \/ ~claim.named
     \/ Found(claim) # {} /\ ~IsApproximate(Match(claim).quality)
     \/ Found(claim) = {} /\ claim.literals # {} /\ SubjectInLiterals(claim)
  THEN "VERIFIED"
  ELSE "PARTIALLY_VERIFIED"

-----------------------------------------------------------------------------
(* What a reader of a match relies on.                                        *)

\* The rows a match reads as a subject's (SubjectMatch.value).
RowsOf(claim, subject) ==
  LET rows == claim.cited[MatchedBlock(claim)].rows
  IN  {j \in DOMAIN rows : TextsEqual(JoinCells(rows[j], Match(claim).indices), subject)}
=============================================================================
