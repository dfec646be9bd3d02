---------------------------- MODULE EvidenceChecks ----------------------------
(***************************************************************************)
(* What verify_response checks of any claim, whatever its type, in its cited     *)
(* evidence (verifier/verifier.py): the declared column names, the metric and     *)
(* the filters; and what is to be true of filters that pass.  A claim has a        *)
(* metric (Blank if none), filters in order, and cited blocks that replayed.       *)
(***************************************************************************)
EXTENDS FilterReconciliation

\* _check_declared_columns.  An expanded * leaves the names unchecked.
DeclaredColumnsCheck(block) ==
  LET names == ProjectionNames(block)
  IN  Doubt(\/ ProjectsStar(block) \/ names = <<>>
            \/ /\ Len(names) = Len(block.declared)
               /\ \A i \in DOMAIN names : names[i].fold = block.declared[i].fold)

\* _verify_metric: one block that shows the metric as spelled is enough.
MetricCheck(claim) ==
  Doubt(\/ claim.metric = Blank
        \/ \E i \in DOMAIN claim.cited :
             \E m \in ResolveReplayColumn(claim.cited[i], claim.metric) :
               ~IsApproximate(m.quality))

\* The checks of a claim's names and filters; the first filter that the evidence
\* contradicts fails it.
AnnotationChecks(claim) ==
  [i \in DOMAIN claim.cited |-> DeclaredColumnsCheck(claim.cited[i])]
    \o <<MetricCheck(claim)>>
    \o [i \in DOMAIN claim.filters |-> ReconcileFilter(claim.filters[i], claim.cited)]

AnnotationVerdict(claim) == Verdict(AnnotationChecks(claim))

-----------------------------------------------------------------------------
(* What evidence is about: the rows of a table its conditions let through.       *)
(* An expression maps pairs of values to one, as a year does with dates.          *)

CONSTANTS TableColumns,  \* the table's columns, by name
          CellValues     \* of its cells: a set of numbers

ASSUME TableAssumption ==
  /\ TableColumns \subseteq Names /\ \A c \in TableColumns : c.norm # <<>>
  /\ CellValues \subseteq Nat

\* To the checks LIKE and the strict orders are like NE and GTE, and IS is like EQ.
Predicates ==
  [column : TableColumns, values : (SUBSET CellValues) \ {{}}, negated : BOOLEAN,
   derived : BOOLEAN, operator : {"EQ", "IN", "NE", "GTE", "BETWEEN"}]

Results ==
  [projection : Seq(Terms), declared : Seq(Names), clauses : SUBSET SUBSET Predicates,
   rows : Seq(Seq(CellValues))]

Filters ==
  [key : [name : Names, stem : Names],
   value : [form : {"scalar", "list", "commas"}, members : SUBSET CellValues]]

Expression(value) == (value + 1) \div 2

Compares(p, value) ==
  CASE p.operator \in {"EQ", "IN"} -> value \in p.values
    [] p.operator = "NE"      -> value \notin p.values
    [] p.operator = "GTE"     -> \E v \in p.values : value >= v
    [] p.operator = "BETWEEN" -> \E v, w \in p.values : v <= value /\ value <= w

Satisfies(p, row) ==
  Compares(p, IF p.derived THEN Expression(row[p.column]) ELSE row[p.column]) # p.negated

Scope(block) ==
  {row \in [TableColumns -> CellValues] :
     \A clause \in block.clauses : \E p \in clause : Satisfies(p, row)}

\* The rows of a result: columns of the scope's rows, under their own names.
FromScope(block) ==
  /\ \A i \in DOMAIN block.projection :
       /\ block.projection[i].kind = "column" /\ block.projection[i].alias = Blank
       /\ block.projection[i].name \in TableColumns
  /\ \A j \in DOMAIN block.rows : \E row \in Scope(block) :
       block.rows[j] = [i \in DOMAIN block.projection |-> row[block.projection[i].name]]

\* The columns a filter may be about.
About(filter) == {c \in TableColumns : KeysMatch(filter.key, c)}

\* A conjunction of predicates that their own literals satisfy, at most one for a
\* column, and declared names that agree with the query's.
Plain(block) ==
  /\ \A clause \in block.clauses : \E p \in clause :
       /\ clause = {p} /\ ~p.negated /\ ~p.derived
       /\ p.operator \in {"EQ", "IN", "GTE", "BETWEEN"}
  /\ \A p, q \in UNION block.clauses : p.column = q.column => p = q
  /\ DeclaredColumnsCheck(block) = "CONFIRMED"

\* Equalities on such a column hold of every row: they stand under no OR or NOT
\* and are about the column itself.
Pins(filter, block) ==
  \A p \in UNION block.clauses :
    p.operator \in EqualityOperators /\ p.column \in About(filter) =>
      {p} \in block.clauses /\ ~p.negated /\ ~p.derived

\* The filter's values, or others within the tolerance, are compared with such
\* columns only.
Pointed(filter, block) ==
  \A p \in UNION block.clauses :
    (\E v \in filter.value.members, w \in p.values : ValuesEqual(v, w))
      => p.column \in About(filter)

\* No row of some cited block's scope has one of the filter's values, or one within
\* the tolerance of it, in one of these columns.
Excluded(filter, cited) ==
  \E i \in DOMAIN cited, c \in About(filter), v \in filter.value.members :
    \A row \in Scope(cited[i]) : ~ValuesEqual(v, row[c])

\* Every one of the filter's values is, within the tolerance and in such a column,
\* in the scope of a block.
Admitted(filter, cited) ==
  \A v \in filter.value.members :
    \E i \in DOMAIN cited, c \in About(filter) : \E row \in Scope(cited[i]) :
      ValuesEqual(v, row[c])
=============================================================================
