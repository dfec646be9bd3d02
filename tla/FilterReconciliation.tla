-------------------------- MODULE FilterReconciliation --------------------------
(***************************************************************************)
(* How the filters a claim says it applied are found in its evidence          *)
(* (verifier/filters.py, and predicate_bindings of sql_analysis.py).            *)
(*                                                                         *)
(* A block of evidence has, besides what NameResolution reads,                 *)
(*   clauses  its WHERE, HAVING and ON conditions: a conjunction of clauses,       *)
(*            each a disjunction of predicates                                 *)
(*   rows     the replayed rows, as sequences of cells                          *)
(* A predicate compares a column, or an expression of one ("derived"), with      *)
(* literals; "negated" stands under a NOT.  Cells, literals and the members of    *)
(* a filter's value are numbers, as the keys of ClaimChecks are.                 *)
(***************************************************************************)
EXTENDS NameResolution, ClaimChecks

-----------------------------------------------------------------------------
(* Predicates.                                                              *)

EqualityOperators == {"EQ", "IN", "IS"}

\* predicate_bindings: every comparison below a condition, whatever stands
\* between it and the root; of an expression the first column in it.
PredicateBindings(block) ==
  {[column |-> p.column, operator |-> p.operator, values |-> p.values] :
     p \in UNION block.clauses}

-----------------------------------------------------------------------------
(* A filter has a key, whose stem is what is left without a suffix that reads    *)
(* like an operator (Blank if it has none), and a value in one of three forms:     *)
(* a scalar, a list, or a text with commas.                                   *)

FilterKeyBase(key) == IF key.stem = Blank THEN key.name ELSE key.stem

\* _keys_match
KeysMatch(key, column) ==
  LET left == FilterKeyBase(key).norm
  IN  /\ left # <<>> /\ column.norm # <<>>
      /\ Within(left, column.norm) \/ Within(column.norm, left)

FilterTokens(value) == value.members

\* Bug: one member of the value is enough.
AnyTokenCovered(tokens, candidates) == \E t \in tokens, c \in candidates : ValuesEqual(t, c)

\* _tokens_covered
TokensCovered(tokens, candidates) ==
  tokens # {} /\ \A t \in tokens : \E c \in candidates : ValuesEqual(t, c)

\* _find_in_named_column: the value as it stands equals a cell of the column.
InNamedColumn(filter, block) ==
  \E m \in ResolveReplayColumn(block, FilterKeyBase(filter.key)) :
    \E j \in DOMAIN block.rows :
      /\ m.index <= Len(block.rows[j])
      /\ filter.value.form = "scalar" /\ filter.value.members # {}
      /\ \A v \in filter.value.members : ValuesEqual(v, block.rows[j][m.index])

\* reconcile_filter over the cited blocks.
ReconcileFilter(filter, cited) ==
  LET tokens     == FilterTokens(filter.value)
      bindings   == UNION {PredicateBindings(cited[i]) : i \in DOMAIN cited}
      sameColumn == {b \in bindings : KeysMatch(filter.key, b.column)}
      selected   == UNION {b.values : b \in {b \in sameColumn : b.operator \in EqualityOperators}}
  IN  IF \/ \E b \in sameColumn : TokensCovered(tokens, b.values)
         \/ TokensCovered(tokens, selected)
         \/ \E b \in bindings : TokensCovered(tokens, b.values)
         \/ \E i \in DOMAIN cited : InNamedColumn(filter, cited[i])
      THEN "CONFIRMED"
      ELSE IF selected # {} THEN "REFUTED"
      ELSE "INCONCLUSIVE"
=============================================================================
