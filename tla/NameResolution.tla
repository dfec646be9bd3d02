---------------------------- MODULE NameResolution -----------------------------
(***************************************************************************)
(* How a name a model wrote is bound to a column of a replayed result         *)
(* (verifier/resolve.py, domain_common.py and the projection helpers of        *)
(* sql_analysis.py).                                                          *)
(*                                                                         *)
(* A name is a record: its text, its case-folded text, and its normal form as  *)
(* a sequence of word pieces, which is empty when the name has no letter or      *)
(* digit.  A result that may be bound to is a block with                        *)
(*   projection  the terms of the SELECT list                                  *)
(*   declared    evidence.columns, the names the model gave to the positions     *)
(* No operator here is RECURSIVE, so that the module can be proved about.        *)
(***************************************************************************)
EXTENDS Naturals, Sequences

CONSTANTS Names,   \* the names in play
          Blank,   \* ""
          Star     \* "*"

ASSUME NamesAssumption ==
  /\ \A n \in Names : n.norm \in Seq(STRING)
  /\ \A m, n \in Names : (m.text = n.text => m = n) /\ (m.fold = n.fold => m.norm = n.norm)
  /\ Blank \in Names /\ Star \in Names /\ Blank.norm = <<>> /\ Star.norm = <<>>

-----------------------------------------------------------------------------
(* The columns of a result.                                                  *)

Terms ==
  {t \in [kind : {"column", "function", "star", "other"}, name : Names, alias : Names] :
     t.kind = "star" => t.alias = Blank}

\* _projection_name: a function's name stands for its unaliased call; any other
\* unaliased expression has none; t.* is a column that is called "*".
ProjectionName(term) ==
  CASE term.alias # Blank -> term.alias
    [] term.kind = "star" -> Star
    [] term.kind \in {"column", "function"} -> term.name
    [] OTHER -> Blank

ProjectionNames(block) == [i \in DOMAIN block.projection |-> ProjectionName(block.projection[i])]

ProjectsStar(block) == \E i \in DOMAIN block.projection : block.projection[i].kind = "star"

\* evidence_columns: positions can be aligned, or the declared names have to do.
EvidenceColumns(aliases, declared) ==
  IF \/ \E i \in DOMAIN aliases : aliases[i] = Star
     \/ Len(aliases) # Len(declared)
  THEN IF declared # <<>> THEN declared ELSE aliases
  ELSE [i \in DOMAIN aliases |-> IF aliases[i] = Blank THEN declared[i] ELSE aliases[i]]

ReplayColumns(block) == EvidenceColumns(ProjectionNames(block), block.declared)

-----------------------------------------------------------------------------
(* Binding a name.                                                           *)

\* MatchQuality, from the strictest to the loosest.
EXACT == 1
CASE_INSENSITIVE == 2
NORMALIZED == 3
SUBSTRING == 4
Tiers == EXACT..SUBSTRING

IsApproximate(quality) == quality \in {NORMALIZED, SUBSTRING}

\* a occurs in b, as "a in b" of two texts.
Within(a, b) == \E i \in 0..Len(b) : \E j \in i..Len(b) : SubSeq(b, i + 1, j) = a

Alike(tier, column, name) ==
  CASE tier = EXACT            -> column.text = name.text
    [] tier = CASE_INSENSITIVE -> column.fold = name.fold
    [] tier = NORMALIZED       -> name.norm # <<>> /\ column.norm = name.norm
    [] tier = SUBSTRING        -> /\ name.norm # <<>>
                                  /\ \/ Within(name.norm, column.norm)
                                     \/ Within(column.norm, name.norm)

Hits(tier, columns, name) == {i \in DOMAIN columns : Alike(tier, columns[i], name)}

Decisive(columns, name) ==
  {t \in Tiers : \E i \in DOMAIN columns : Hits(t, columns, name) = {i}}

\* Bug: the first column of the strictest tier with any match is taken.
ResolveFirst(columns, name) ==
  LET hit == {t \in Tiers : Hits(t, columns, name) # {}}
      t   == CHOOSE t \in hit : \A u \in hit : t <= u
  IN  IF name = Blank \/ hit = {} THEN {}
      ELSE {[index   |-> CHOOSE i \in Hits(t, columns, name) :
                           \A j \in Hits(t, columns, name) : i <= j,
             quality |-> t]}

\* resolve_column: {} or the match of the strictest tier with exactly one match.
ResolveColumn(columns, name) ==
  LET decisive == Decisive(columns, name)
      t        == CHOOSE t \in decisive : \A u \in decisive : t <= u
  IN  IF name = Blank \/ decisive = {} THEN {}
      ELSE {[index   |-> CHOOSE i \in DOMAIN columns : Hits(t, columns, name) = {i},
             quality |-> t]}

\* resolve_replay_column: the projection first, then the declared names.
ResolveReplayColumn(block, name) ==
  LET projected == ResolveColumn(ReplayColumns(block), name)
  IN  IF projected # {} THEN projected ELSE ResolveColumn(block.declared, name)

-----------------------------------------------------------------------------
(* What the binding is to be, in other words.                                *)


BoundTo(columns, name, i) == \E m \in ResolveColumn(columns, name) : m.index = i

\* A name is bound to a column if and only if no other column is as much like it
\* (resolve_column: "an ambiguous reference is never silently bound").
BindsSharply(columns, name) ==
  \A i \in DOMAIN columns :
    BoundTo(columns, name, i)
      <=> /\ name # Blank
          /\ \E t \in Tiers : /\ Alike(t, columns[i], name)
                              /\ \A j \in DOMAIN columns \ {i} : ~Alike(t, columns[j], name)
=============================================================================
