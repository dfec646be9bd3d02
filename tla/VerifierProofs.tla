---------------------------- MODULE VerifierProofs ----------------------------
(***************************************************************************)
(* What the checks made of any claim establish, for every set of names, of      *)
(* numbers and of claims; and then what the verdicts of the typed verifiers     *)
(* mean, for all evidence: any number of blocks and of rows.                   *)
(***************************************************************************)
EXTENDS TypedVerifiers, SequenceTheorems, FiniteSetTheorems, WellFoundedInduction, TLAPS

-----------------------------------------------------------------------------
(* Names.                                                                    *)

\* A sequence occurs in itself.
LEMMA WithinItself ==
  ASSUME NEW s \in Seq(STRING)
  PROVE  Within(s, s)
<1>1. SubSeq(s, 1, Len(s)) = s
  BY SubSeqFull
<1>2. Len(s) \in Nat
  BY LenProperties
<1>3. 0 \in 0..Len(s) /\ Len(s) \in 0..Len(s) /\ SubSeq(s, 0 + 1, Len(s)) = s
  BY <1>1, <1>2
<1> QED
  BY <1>3 DEF Within

\* A column like a name on one tier is like it on every looser one, of those on
\* which the name may be like anything.
LEMMA TiersNest ==
  ASSUME NEW column \in Names, NEW name \in Names, NEW t \in Tiers, NEW u \in Tiers,
         t <= u, u <= CASE_INSENSITIVE \/ name.norm # <<>>, Alike(t, column, name)
  PROVE  Alike(u, column, name)
<1> USE DEF EXACT, CASE_INSENSITIVE, NORMALIZED, SUBSTRING
<1>1. t \in 1..4 /\ u \in 1..4
  BY DEF Tiers
<1>2. CASE t = u
  BY <1>2
<1>3. CASE t = 1 /\ u = 2
  <2>1. column = name
    BY <1>3, NamesAssumption DEF Alike
  <2> QED
    BY <1>3, <2>1 DEF Alike
<1>4. CASE t <= 3 /\ u >= 3
  <2>1. column.norm = name.norm
    <3>1. CASE t = 1
      <4>1. column = name
        BY <3>1, NamesAssumption DEF Alike
      <4> QED
        BY <4>1
    <3>2. CASE t = 2
      <4>1. column.fold = name.fold
        BY <3>2 DEF Alike
      <4> QED
        BY <4>1, NamesAssumption
    <3>3. CASE t = 3
      BY <3>3 DEF Alike
    <3> QED
      BY <1>1, <1>4, <3>1, <3>2, <3>3
  <2>2. name.norm # <<>>
    BY <1>1, <1>4
  <2>3. Within(name.norm, column.norm)
    BY <2>1, WithinItself, NamesAssumption
  <2>4. CASE u = 3
    BY <2>1, <2>2, <2>4 DEF Alike
  <2>5. CASE u = 4
    BY <2>2, <2>3, <2>5 DEF Alike
  <2> QED
    BY <1>1, <1>4, <2>4, <2>5
<1> QED
  BY <1>1, <1>2, <1>3, <1>4

\* Two tiers that single a column out single out the same one.
LEMMA OneDecision ==
  ASSUME NEW columns \in Seq(Names), NEW name \in Names, NEW t \in Tiers, NEW u \in Tiers,
         NEW i \in DOMAIN columns, NEW j \in DOMAIN columns, t <= u,
         Hits(t, columns, name) = {i}, Hits(u, columns, name) = {j}
  PROVE  i = j
<1>1. columns[i] \in Names
  BY ElementOfSeq, LenProperties
<1>2. Alike(t, columns[i], name) /\ Alike(u, columns[j], name)
  BY DEF Hits
<1>3. u <= CASE_INSENSITIVE \/ name.norm # <<>>
  <2> USE DEF EXACT, CASE_INSENSITIVE, NORMALIZED, SUBSTRING
  <2>1. u \in 1..4
    BY DEF Tiers
  <2>2. CASE u = 3
    BY <1>2, <2>2 DEF Alike
  <2>3. CASE u = 4
    BY <1>2, <2>3 DEF Alike
  <2> QED
    BY <2>1, <2>2, <2>3
<1>4. Alike(u, columns[i], name)
  BY <1>1, <1>2, <1>3, TiersNest
<1> QED
  BY <1>4 DEF Hits

\* The strictest tier that singles a column out decides.
LEMMA StrictestDecides ==
  ASSUME NEW columns \in Seq(Names), NEW name \in Names, name # Blank,
         Decisive(columns, name) # {}
  PROVE  \E i \in DOMAIN columns, t \in Tiers :
           /\ ResolveColumn(columns, name) = {[index |-> i, quality |-> t]}
           /\ Hits(t, columns, name) = {i}
           /\ \A u \in Decisive(columns, name) : t <= u
<1> DEFINE decisive == Decisive(columns, name)
           t == CHOOSE t \in decisive : \A u \in decisive : t <= u
           choice == CHOOSE j \in DOMAIN columns : Hits(t, columns, name) = {j}
<1>1. \E u \in decisive : \A v \in decisive : u <= v
  <2>1. decisive \subseteq 1..4 /\ decisive # {}
    BY DEF Decisive, Tiers, EXACT, SUBSTRING
  <2> HIDE DEF decisive
  <2>2. CASE 1 \in decisive
    BY <2>1, <2>2
  <2>3. CASE 1 \notin decisive /\ 2 \in decisive
    BY <2>1, <2>3
  <2>4. CASE 1 \notin decisive /\ 2 \notin decisive /\ 3 \in decisive
    BY <2>1, <2>4
  <2>5. CASE 1 \notin decisive /\ 2 \notin decisive /\ 3 \notin decisive
    <3>1. \A v \in decisive : v = 4
      BY <2>1, <2>5
    <3>2. 4 \in decisive
      BY <2>1, <3>1
    <3> QED
      BY <3>1, <3>2
  <2> QED
    BY <2>2, <2>3, <2>4, <2>5
<1>2. t \in decisive /\ \A u \in decisive : t <= u
  BY <1>1
<1>3. t \in Tiers /\ \E j \in DOMAIN columns : Hits(t, columns, name) = {j}
  BY <1>2 DEF Decisive
<1>4. choice \in DOMAIN columns /\ Hits(t, columns, name) = {choice}
  BY <1>3
<1>5. ResolveColumn(columns, name) = {[index |-> choice, quality |-> t]}
  BY DEF ResolveColumn
<1> HIDE DEF choice, t
<1> QED
  BY <1>2, <1>3, <1>4, <1>5

\* What resolve_column returns, without its choices.
LEMMA ResolvesToDecisive ==
  ASSUME NEW columns \in Seq(Names), NEW name \in Names, name # Blank,
         NEW i \in DOMAIN columns
  PROVE  BoundTo(columns, name, i)
           <=> (\E t \in Tiers : Hits(t, columns, name) = {i})
<1>1. CASE Decisive(columns, name) = {}
  <2>1. ~BoundTo(columns, name, i)
    BY <1>1 DEF BoundTo, ResolveColumn
  <2>2. ~ \E u \in Tiers : Hits(u, columns, name) = {i}
    BY <1>1 DEF Decisive
  <2> QED
    BY <2>1, <2>2
<1>2. CASE Decisive(columns, name) # {}
  <2>1. PICK j \in DOMAIN columns, t \in Tiers :
          /\ ResolveColumn(columns, name) = {[index |-> j, quality |-> t]}
          /\ Hits(t, columns, name) = {j}
          /\ \A u \in Decisive(columns, name) : t <= u
    BY <1>2, StrictestDecides
  <2>2. BoundTo(columns, name, i) <=> j = i
    BY <2>1 DEF BoundTo
  <2>3. ASSUME NEW u \in Tiers, Hits(u, columns, name) = {i}
        PROVE  j = i
    <3>1. u \in Decisive(columns, name)
      BY <2>3 DEF Decisive
    <3>2. t <= u
      BY <2>1, <3>1
    <3> QED
      BY <2>1, <2>3, <3>2, OneDecision
  <2> QED
    BY <2>1, <2>2, <2>3
<1> QED
  BY <1>1, <1>2

\* A name is bound to a column that is there and, on some tier, like it.
LEMMA BoundToLike ==
  ASSUME NEW columns \in Seq(Names), NEW name \in Names,
         NEW m \in ResolveColumn(columns, name)
  PROVE  m.index \in DOMAIN columns /\ \E t \in Tiers : Alike(t, columns[m.index], name)
<1>1. name # Blank /\ Decisive(columns, name) # {}
  BY DEF ResolveColumn
<1>2. PICK j \in DOMAIN columns, t \in Tiers :
        /\ ResolveColumn(columns, name) = {[index |-> j, quality |-> t]}
        /\ Hits(t, columns, name) = {j}
  BY <1>1, StrictestDecides
<1>3. m.index = j
  BY <1>2
<1>4. Alike(t, columns[j], name)
  BY <1>2 DEF Hits
<1> QED
  BY <1>3, <1>4

\* The statement of resolve_column: a name is bound to a column if and only if,
\* on some tier, no other column is like it.
THEOREM NamesAreNeverGuessed ==
  ASSUME NEW columns \in Seq(Names), NEW name \in Names
  PROVE  BindsSharply(columns, name)
<1>1. CASE name = Blank
  BY <1>1 DEF BindsSharply, BoundTo, ResolveColumn
<1>2. CASE name # Blank
  <2>1. ASSUME NEW i \in DOMAIN columns, NEW t \in Tiers
        PROVE  Hits(t, columns, name) = {i}
                 <=> /\ Alike(t, columns[i], name)
                     /\ \A j \in DOMAIN columns \ {i} : ~Alike(t, columns[j], name)
    BY DEF Hits
  <2>2. SUFFICES ASSUME NEW i \in DOMAIN columns
                 PROVE  BoundTo(columns, name, i)
                          <=> \E t \in Tiers :
                                /\ Alike(t, columns[i], name)
                                /\ \A j \in DOMAIN columns \ {i} :
                                     ~Alike(t, columns[j], name)
    BY <1>2 DEF BindsSharply
  <2>3. BoundTo(columns, name, i)
          <=> (\E t \in Tiers : Hits(t, columns, name) = {i})
    BY <1>2, <2>2, ResolvesToDecisive
  <2>4. ASSUME NEW t \in Tiers
        PROVE  Hits(t, columns, name) = {i}
                 <=> /\ Alike(t, columns[i], name)
                     /\ \A j \in DOMAIN columns \ {i} : ~Alike(t, columns[j], name)
    BY <2>1, <2>2
  <2>5. (\E t \in Tiers : Hits(t, columns, name) = {i})
          <=> \E t \in Tiers : /\ Alike(t, columns[i], name)
                               /\ \A j \in DOMAIN columns \ {i} :
                                    ~Alike(t, columns[j], name)
    BY <2>4, Zenon
  <2> QED
    BY <2>3, <2>5, Zenon
<1> QED
  BY <1>1, <1>2

-----------------------------------------------------------------------------
(* The columns of a result.                                                  *)

\* The columns a result is read by are names.
LEMMA ColumnsAreNames ==
  ASSUME NEW block, block.projection \in Seq(Terms), block.declared \in Seq(Names)
  PROVE  ProjectionNames(block) \in Seq(Names) /\ ReplayColumns(block) \in Seq(Names)
<1> DEFINE names == ProjectionNames(block)
<1>1. block.projection \in Seq(Terms) /\ block.declared \in Seq(Names)
  OBVIOUS
<1>2. names \in Seq(Names)
  <2>1. ASSUME NEW i \in DOMAIN block.projection
        PROVE  ProjectionName(block.projection[i]) \in Names
    <3>1. block.projection[i] \in Terms
      BY <1>1, ElementOfSeq, LenProperties
    <3> QED
      BY <3>1, NamesAssumption DEF Terms, ProjectionName
  <2>2. Len(block.projection) \in Nat /\ DOMAIN block.projection = 1..Len(block.projection)
    BY <1>1, LenProperties
  <2> QED
    BY <2>1, <2>2, IsASeq DEF ProjectionNames
<1>3. CASE ReplayColumns(block) \in {block.declared, names}
  BY <1>1, <1>2, <1>3
<1>4. CASE ReplayColumns(block) \notin {block.declared, names}
  <2>1. /\ Len(names) = Len(block.declared)
        /\ ReplayColumns(block) =
             [i \in DOMAIN names |-> IF names[i] = Blank THEN block.declared[i] ELSE names[i]]
    BY <1>4 DEF ReplayColumns, EvidenceColumns
  <2>2. /\ Len(names) \in Nat
        /\ DOMAIN names = 1..Len(names) /\ DOMAIN block.declared = 1..Len(block.declared)
    BY <1>1, <1>2, LenProperties
  <2>3. \A i \in DOMAIN names : names[i] \in Names /\ block.declared[i] \in Names
    BY <1>1, <1>2, <2>1, <2>2, ElementOfSeq
  <2>4. ReplayColumns(block) =
          [i \in 1..Len(names) |-> IF names[i] = Blank THEN block.declared[i] ELSE names[i]]
    BY <2>1, <2>2
  <2>5. ReplayColumns(block) \in Seq(Names)
    <3> HIDE DEF names
    <3> QED
      BY <2>2, <2>3, <2>4, IsASeq
  <2> QED
    BY <1>1, <1>2, <2>5
<1> QED
  BY <1>3, <1>4

\* So they are for evidence of any annotated claim.
LEMMA ReplayColumnsAreNames ==
  ASSUME NEW block \in Results
  PROVE  /\ block.projection \in Seq(Terms) /\ block.declared \in Seq(Names)
         /\ ProjectionNames(block) \in Seq(Names)
         /\ ReplayColumns(block) \in Seq(Names)
<1>1. block.projection \in Seq(Terms) /\ block.declared \in Seq(Names)
  BY DEF Results
<1> QED
  BY <1>1, ColumnsAreNames

\* The names a result is read by are as many as the declared ones, and one of
\* them at least, in lower case, for each.
LEMMA ColumnsAgree ==
  ASSUME NEW block \in Results, DeclaredColumnsCheck(block) = "CONFIRMED",
         block.declared # <<>>
  PROVE  /\ ReplayColumns(block) \in Seq(Names)
         /\ DOMAIN ReplayColumns(block) = DOMAIN block.declared
         /\ \A i \in DOMAIN block.declared :
              ReplayColumns(block)[i].fold = block.declared[i].fold
<1> DEFINE names == ProjectionNames(block)
<1>1. block.projection \in Seq(Terms) /\ block.declared \in Seq(Names)
  BY ReplayColumnsAreNames
<1>2. names \in Seq(Names) /\ ReplayColumns(block) \in Seq(Names)
  BY ReplayColumnsAreNames
<1>3. DOMAIN names = DOMAIN block.projection
  BY DEF ProjectionNames
<1>4. CASE \E i \in DOMAIN names : names[i] = Star
  <2>1. ReplayColumns(block) = block.declared
    BY <1>4 DEF ReplayColumns, EvidenceColumns
  <2> QED
    BY <1>1, <2>1
<1>5. CASE Len(names) # Len(block.declared)
  <2>1. ReplayColumns(block) = block.declared
    BY <1>5 DEF ReplayColumns, EvidenceColumns
  <2> QED
    BY <1>1, <2>1
<1>6. CASE /\ Len(names) = Len(block.declared)
           /\ \A i \in DOMAIN names : names[i] # Star
  <2>1. ~ProjectsStar(block)
    <3>1. ASSUME NEW i \in DOMAIN block.projection, block.projection[i].kind = "star"
          PROVE  names[i] = Star
      <4>1. block.projection[i] \in Terms
        BY <1>1, ElementOfSeq, LenProperties
      <4>2. block.projection[i].alias = Blank
        BY <3>1, <4>1 DEF Terms
      <4>3. ProjectionName(block.projection[i]) = Star
        BY <3>1, <4>2 DEF ProjectionName
      <4> QED
        BY <4>3 DEF ProjectionNames
    <3> QED
      BY <1>3, <1>6, <3>1 DEF ProjectsStar
  <2>2. DOMAIN names = 1..Len(names) /\ DOMAIN block.declared = 1..Len(block.declared)
    BY <1>1, <1>2, LenProperties
  <2>3. names # <<>>
    <3>1. Len(block.declared) # 0
      BY <1>1, EmptySeq
    <3> QED
      BY <1>2, <1>6, <3>1, EmptySeq
  <2>4. \A i \in DOMAIN names : names[i].fold = block.declared[i].fold
    BY <2>1, <2>3 DEF DeclaredColumnsCheck, Doubt
  <2>5. ReplayColumns(block) =
          [i \in DOMAIN names |-> IF names[i] = Blank THEN block.declared[i] ELSE names[i]]
    BY <1>6 DEF ReplayColumns, EvidenceColumns
  <2>7. DOMAIN ReplayColumns(block) = DOMAIN block.declared
    BY <1>6, <2>2, <2>5
  <2>9. \A i \in DOMAIN block.declared :
          ReplayColumns(block)[i].fold = block.declared[i].fold
    BY <1>6, <2>2, <2>4, <2>5
  <2> QED
    BY <1>2, <2>7, <2>9
<1> QED
  BY <1>4, <1>5, <1>6

\* A name declared for one position, and no other like it, is read there once the
\* declared columns are confirmed.
THEOREM DeclaredNamesAreRead ==
  ASSUME NEW block \in Results, DeclaredColumnsCheck(block) = "CONFIRMED"
  PROVE  ReadAsDeclared(block)
<1> DEFINE columns == ReplayColumns(block)
<1> SUFFICES ASSUME NEW i \in DOMAIN block.declared,
                    block.declared[i] # Blank,
                    \A j \in DOMAIN block.declared \ {i} :
                      block.declared[j].fold # block.declared[i].fold
             PROVE  \E m \in ResolveReplayColumn(block, block.declared[i]) : m.index = i
  BY DEF ReadAsDeclared
<1> DEFINE name == block.declared[i]
<1>1. block.declared \in Seq(Names) /\ block.declared # <<>>
  BY EmptySeq DEF Results
<1>2. name \in Names
  BY <1>1, ElementOfSeq, LenProperties
<1>3. /\ columns \in Seq(Names)
      /\ DOMAIN columns = DOMAIN block.declared
      /\ \A j \in DOMAIN block.declared : columns[j].fold = block.declared[j].fold
  BY <1>1, ColumnsAgree
<1>4. CASE_INSENSITIVE \in Tiers
  BY DEF Tiers, EXACT, CASE_INSENSITIVE, SUBSTRING
<1>5. \A j \in DOMAIN columns :
        Alike(CASE_INSENSITIVE, columns[j], name) <=> columns[j].fold = name.fold
  BY DEF Alike, EXACT, CASE_INSENSITIVE, NORMALIZED, SUBSTRING
<1> HIDE DEF columns, name
<1>6. Alike(CASE_INSENSITIVE, columns[i], name)
  BY <1>3, <1>5 DEF name
<1>7. \A j \in DOMAIN columns \ {i} : ~Alike(CASE_INSENSITIVE, columns[j], name)
  BY <1>3, <1>5 DEF name
<1>8. BindsSharply(columns, name)
  BY <1>2, <1>3, NamesAreNeverGuessed
<1>9. i \in DOMAIN columns /\ name # Blank
  BY <1>3 DEF name
<1>10. \E m \in ResolveColumn(columns, name) : m.index = i
  BY <1>4, <1>6, <1>7, <1>8, <1>9 DEF BindsSharply, BoundTo
<1>11. ResolveReplayColumn(block, name) = ResolveColumn(columns, name)
  BY <1>10 DEF ResolveReplayColumn, columns
<1> QED
  BY <1>10, <1>11 DEF name

-----------------------------------------------------------------------------
(* Verdicts.                                                                 *)

\* The evidence of a claim is columns checks, a metric check and filters.
LEMMA ChecksInOrder ==
  ASSUME NEW c \in [metric : Names, filters : Seq(Filters), cited : Seq(Results)]
  PROVE  /\ \A i \in DOMAIN c.cited : \E k \in DOMAIN AnnotationChecks(c) :
              AnnotationChecks(c)[k] = DeclaredColumnsCheck(c.cited[i])
         /\ \A i \in DOMAIN c.filters : \E k \in DOMAIN AnnotationChecks(c) :
              AnnotationChecks(c)[k] = ReconcileFilter(c.filters[i], c.cited)
         /\ \A k \in DOMAIN AnnotationChecks(c) :
              AnnotationChecks(c)[k] = "REFUTED" =>
                \E i \in DOMAIN c.filters : ReconcileFilter(c.filters[i], c.cited) = "REFUTED"
<1> DEFINE S == {"CONFIRMED", "INCONCLUSIVE", "REFUTED"}
           n == Len(c.cited)
           f == Len(c.filters)
           columns == [i \in 1..n |-> DeclaredColumnsCheck(c.cited[i])]
           metric == <<MetricCheck(c)>>
           filters == [i \in 1..f |-> ReconcileFilter(c.filters[i], c.cited)]
<1>1. /\ n \in Nat /\ DOMAIN c.cited = 1..n
      /\ f \in Nat /\ DOMAIN c.filters = 1..f
  BY LenProperties
<1>2. \A i \in 1..n : columns[i] \in S /\ columns[i] # "REFUTED"
  BY DEF DeclaredColumnsCheck, Doubt
<1>3. MetricCheck(c) \in S /\ MetricCheck(c) # "REFUTED"
  BY DEF MetricCheck, Doubt
<1>4. \A i \in 1..f : filters[i] \in S
  BY DEF ReconcileFilter
<1>5. AnnotationChecks(c) = columns \o metric \o filters
  BY <1>1 DEF AnnotationChecks
<1>6. columns \in Seq(S) /\ Len(columns) = n
  BY <1>1, <1>2
<1>7. metric \in Seq(S) /\ Len(metric) = 1 /\ metric[1] = MetricCheck(c)
  BY <1>3
<1>8. filters \in Seq(S) /\ Len(filters) = f
  BY <1>1, <1>4
<1> HIDE DEF S, n, f, columns, metric, filters
<1>9. /\ columns \o metric \in Seq(S) /\ Len(columns \o metric) = n + 1
      /\ \A i \in 1..(n + 1) :
           (columns \o metric)[i] = IF i <= n THEN columns[i] ELSE metric[i - n]
  <2>1. /\ columns \o metric \in Seq(S)
        /\ Len(columns \o metric) = Len(columns) + Len(metric)
        /\ \A i \in 1..(Len(columns) + Len(metric)) :
             (columns \o metric)[i] =
               IF i <= Len(columns) THEN columns[i] ELSE metric[i - Len(columns)]
    BY <1>6, <1>7, ConcatProperties
  <2> QED
    BY <1>6, <1>7, <2>1
<1>10. /\ AnnotationChecks(c) \in Seq(S) /\ Len(AnnotationChecks(c)) = n + 1 + f
       /\ \A i \in 1..(n + 1 + f) :
            AnnotationChecks(c)[i] =
              IF i <= n + 1 THEN (columns \o metric)[i] ELSE filters[i - (n + 1)]
  <2> DEFINE head == columns \o metric
  <2>1. /\ head \o filters \in Seq(S)
        /\ Len(head \o filters) = Len(head) + Len(filters)
        /\ \A i \in 1..(Len(head) + Len(filters)) :
             (head \o filters)[i] =
               IF i <= Len(head) THEN head[i] ELSE filters[i - Len(head)]
    BY <1>8, <1>9, ConcatProperties
  <2>2. Len(head) = n + 1 /\ Len(filters) = f /\ AnnotationChecks(c) = head \o filters
    BY <1>5, <1>8, <1>9
  <2> QED
    BY <2>1, <2>2
<1>11. DOMAIN AnnotationChecks(c) = 1..(n + 1 + f)
  BY <1>10, LenProperties
<1>12. ASSUME NEW i \in 1..n
       PROVE  i \in 1..(n + 1 + f) /\ AnnotationChecks(c)[i] = columns[i]
  <2>1. i \in 1..(n + 1) /\ i \in 1..(n + 1 + f) /\ i <= n /\ i <= n + 1
    BY <1>1
  <2> QED
    BY <1>9, <1>10, <2>1
<1>13. ASSUME NEW i \in 1..f
       PROVE  /\ n + 1 + i \in 1..(n + 1 + f)
              /\ AnnotationChecks(c)[n + 1 + i] = filters[i]
  <2>1. n + 1 + i \in 1..(n + 1 + f) /\ ~(n + 1 + i <= n + 1) /\ (n + 1 + i) - (n + 1) = i
    BY <1>1
  <2> QED
    BY <1>10, <2>1
<1>14. ASSUME NEW k \in 1..(n + 1 + f), AnnotationChecks(c)[k] = "REFUTED"
       PROVE  \E i \in 1..f : filters[i] = "REFUTED"
  <2>1. k > n + 1
    <3>1. CASE k <= n
      <4>1. k \in 1..n
        BY <1>1, <3>1
      <4> QED
        BY <1>2, <1>12, <1>14, <4>1 DEF columns
    <3>2. CASE k = n + 1
      <4>1. k \in 1..(n + 1) /\ k <= n + 1 /\ ~(k <= n) /\ k - n = 1
        BY <1>1, <3>2
      <4>2. AnnotationChecks(c)[k] = (columns \o metric)[k]
        BY <1>10, <4>1
      <4>3. (columns \o metric)[k] = metric[k - n]
        BY <1>9, <4>1
      <4> QED
        BY <1>3, <1>7, <1>14, <4>1, <4>2, <4>3
    <3> QED
      BY <1>1, <3>1, <3>2
  <2>2. k - (n + 1) \in 1..f /\ AnnotationChecks(c)[k] = filters[k - (n + 1)]
    BY <1>1, <1>10, <2>1
  <2> QED
    BY <1>14, <2>2
<1>15. \A i \in 1..n : columns[i] = DeclaredColumnsCheck(c.cited[i])
  BY DEF columns
<1>16. \A i \in 1..f : filters[i] = ReconcileFilter(c.filters[i], c.cited)
  BY DEF filters
<1> QED
  BY <1>1, <1>11, <1>12, <1>13, <1>14, <1>15, <1>16

\* A claim passes on confirmed checks alone and fails on a refuted one.
LEMMA VerdictGrounds ==
  ASSUME NEW outcomes
  PROVE  /\ Verdict(outcomes) = "VERIFIED" =>
              \A i \in DOMAIN outcomes : outcomes[i] = "CONFIRMED"
         /\ Verdict(outcomes) = "FAILED" =>
              \E i \in DOMAIN outcomes : outcomes[i] = "REFUTED"
         /\ Verdict(outcomes) # "NOT_VERIFIED"
  BY DEF Verdict

\* A claim that is not at its beginning has the verdict of its check.
Decided ==
  /\ kind = "ANNOTATIONS" =>
       claim \in AnnotationClaims /\ status \in {"NOT_VERIFIED", AnnotationVerdict(claim)}
  /\ kind = "REPLAY" =>
       claim \in ReplayClaims /\ status \in {"NOT_VERIFIED", ReplayVerdict(claim)}

LEMMA StatusIsDecided == Spec => []Decided
<1>1. Init => Decided
  BY DEF Init, ClaimsOf, ClaimType, AnyClaim, Decided
<1>2. Decided /\ [Next]_vars => Decided'
  <2> SUFFICES ASSUME Decided, [Next]_vars
               PROVE  Decided'
    OBVIOUS
  <2>1. CASE Next
    <3>1. kind' = kind /\ claim' = claim
      BY <2>1 DEF Next, Verify
    <3>2. ASSUME kind = "ANNOTATIONS"
          PROVE  status' = AnnotationVerdict(claim)
      BY <2>1, <3>2 DEF Next, Verify
    <3>3. ASSUME kind = "REPLAY"
          PROVE  status' = ReplayVerdict(claim)
      BY <2>1, <3>3 DEF Next, Verify
    <3>4. (AnnotationVerdict(claim))' = AnnotationVerdict(claim)
          /\ (ReplayVerdict(claim))' = ReplayVerdict(claim)
      BY <3>1 DEF AnnotationVerdict, AnnotationChecks, ReplayVerdict
    <3> QED
      BY <3>1, <3>2, <3>3, <3>4 DEF Decided
  <2>2. CASE UNCHANGED vars
    BY <2>2 DEF vars, Decided
  <2> QED
    BY <2>1, <2>2
<1> QED
  BY <1>1, <1>2, PTL DEF Spec

-----------------------------------------------------------------------------
(* The replay of one evidence.                                               *)

\* The number of a cell that was written.
LEMMA NumberOf ==
  ASSUME NEW type, NEW n
  PROVE  Number(type, n).number = n
  BY Zenon DEF Number

\* Cells that stand for the same are written alike, and cells written alike stand
\* for the same but for rounding.
LEMMA CanonicalCells ==
  ASSUME NEW c \in Cells, NEW d \in Cells
  PROVE  /\ SameCell(c, d) => CanonicalizeCell(c) = CanonicalizeCell(d)
         /\ CanonicalizeCell(c) = CanonicalizeCell(d) => CloseCell(c, d)
<1>1. SameCell(c, d) => CanonicalizeCell(c) = CanonicalizeCell(d)
  BY DEF SameCell, CanonicalizeCell, CanonicalizeNumber, IsNumeric
<1>2. ASSUME CanonicalizeCell(c) = CanonicalizeCell(d)
      PROVE  CloseCell(c, d)
  <2>1. ASSUME NEW e \in Cells, IsNumeric(e)
        PROVE  /\ CanonicalizeCell(e).number # None
               /\ Rounded(CanonicalizeCell(e).number) = Rounded(e.number)
    <3>1. e.number \in Numbers \cup {Infinite}
      BY <2>1 DEF Cells, IsNumeric
    <3>2. CASE e.number = Infinite
      BY <2>1, <3>2, NumbersAssumption
         DEF CanonicalizeCell, CanonicalizeNumber, Number, Rounded
    <3>3. CASE e.number # Infinite /\ IsWhole(e.number)
      <4>1. CanonicalizeCell(e) = Number("int", e.number)
        BY <2>1, <3>3 DEF CanonicalizeCell, CanonicalizeNumber
      <4> QED
        BY <2>1, <4>1, NumberOf DEF IsNumeric
    <3>4. CASE e.number # Infinite /\ ~IsWhole(e.number)
      <4>1. CanonicalizeCell(e) = Number("float", Float[e.number])
        BY <2>1, <3>4 DEF CanonicalizeCell, CanonicalizeNumber
      <4>2. e.number \in Numbers
        BY <3>1, <3>4
      <4>3. Float[e.number] \in Numbers /\ Float[Float[e.number]] = Float[e.number]
        BY <4>2, FloatAssumption
      <4>4. CanonicalizeCell(e).number = Float[e.number]
        BY <4>1, NumberOf
      <4>5. Float[e.number] # None /\ Float[e.number] # Infinite
        BY <4>3, NumbersAssumption
      <4> QED
        BY <3>4, <4>3, <4>4, <4>5 DEF Rounded
    <3> QED
      BY <3>2, <3>3, <3>4
  <2>2. CASE IsNumeric(c) /\ IsNumeric(d)
    <3>1. Rounded(CanonicalizeCell(c).number) = Rounded(c.number)
      BY <2>1, <2>2
    <3>2. Rounded(CanonicalizeCell(d).number) = Rounded(d.number)
      BY <2>1, <2>2
    <3> QED
      BY <1>2, <2>2, <3>1, <3>2 DEF CloseCell
  <2>3. CASE IsNumeric(c) /\ ~IsNumeric(d)
    <3>1. CanonicalizeCell(d) = d
      BY <2>3 DEF CanonicalizeCell
    <3> QED
      BY <1>2, <2>1, <2>3, <3>1 DEF IsNumeric
  <2>4. CASE ~IsNumeric(c) /\ IsNumeric(d)
    <3>1. CanonicalizeCell(c) = c
      BY <2>4 DEF CanonicalizeCell
    <3> QED
      BY <1>2, <2>1, <2>4, <3>1 DEF IsNumeric
  <2>5. CASE ~IsNumeric(c) /\ ~IsNumeric(d)
    BY <1>2, <2>5 DEF CanonicalizeCell, CloseCell
  <2> QED
    BY <2>2, <2>3, <2>4, <2>5
<1> QED
  BY <1>1, <1>2

\* A cell that was written is written the same again, if rounding did not make it
\* whole.
LEMMA WrittenAgain ==
  ASSUME NEW c \in Cells,
         c.number \in Numbers /\ IsWhole(Float[c.number]) => IsWhole(c.number)
  PROVE  CanonicalizeCell(CanonicalizeCell(c)) = CanonicalizeCell(c)
<1>1. CASE ~IsNumeric(c)
  BY <1>1 DEF CanonicalizeCell
<1>2. CASE c.number = Infinite
  <2>1. CanonicalizeCell(c) = Number("float", Infinite)
    BY <1>2, NumbersAssumption DEF CanonicalizeCell, CanonicalizeNumber, IsNumeric
  <2>2. Number("float", Infinite).number = Infinite
    BY NumberOf
  <2> QED
    BY <2>1, <2>2, NumbersAssumption DEF CanonicalizeCell, CanonicalizeNumber, IsNumeric
<1>3. CASE c.number \in Numbers /\ IsWhole(c.number)
  <2>1. c.number # None /\ c.number # Infinite
    BY <1>3, NumbersAssumption
  <2>2. CanonicalizeCell(c) = Number("int", c.number)
    BY <1>3, <2>1 DEF CanonicalizeCell, CanonicalizeNumber, IsNumeric
  <2>3. Number("int", c.number).number = c.number
    BY NumberOf
  <2> QED
    BY <1>3, <2>1, <2>2, <2>3 DEF CanonicalizeCell, CanonicalizeNumber, IsNumeric
<1>4. CASE c.number \in Numbers /\ ~IsWhole(c.number)
  <2> DEFINE r == Float[c.number]
  <2>1. c.number # None /\ c.number # Infinite
    BY <1>4, NumbersAssumption
  <2>2. CanonicalizeCell(c) = Number("float", r)
    BY <1>4, <2>1 DEF CanonicalizeCell, CanonicalizeNumber, IsNumeric
  <2>3. Number("float", r).number = r
    BY NumberOf
  <2>4. r \in Numbers /\ Float[r] = r /\ ~IsWhole(r)
    BY <1>4, FloatAssumption
  <2>5. r # None /\ r # Infinite
    BY <2>4, NumbersAssumption
  <2> HIDE DEF r
  <2> QED
    BY <2>2, <2>3, <2>4, <2>5 DEF CanonicalizeCell, CanonicalizeNumber, IsNumeric
<1> QED
  BY <1>1, <1>2, <1>3, <1>4 DEF Cells, IsNumeric

\* The rows of two executions are written alike if they are the same, and are the
\* same but for rounding if they are written alike.
LEMMA CanonicalRows ==
  ASSUME NEW left \in Seq(Seq(Cells)), NEW right \in Seq(Seq(Cells))
  PROVE  /\ SameRows(left, right) => FingerprintRows(left) = FingerprintRows(right)
         /\ FingerprintRows(left) = FingerprintRows(right) => CloseRows(left, right)
<1>1. /\ Len(left) \in Nat /\ DOMAIN left = 1..Len(left)
      /\ Len(right) \in Nat /\ DOMAIN right = 1..Len(right)
  BY LenProperties
<1>2. /\ \A i \in DOMAIN left : left[i] \in Seq(Cells)
      /\ \A i \in DOMAIN right : right[i] \in Seq(Cells)
  BY <1>1, ElementOfSeq
<1>3. /\ \A i \in DOMAIN left : /\ Len(left[i]) \in Nat
                                 /\ DOMAIN left[i] = 1..Len(left[i])
                                 /\ \A j \in DOMAIN left[i] : left[i][j] \in Cells
      /\ \A i \in DOMAIN right : /\ Len(right[i]) \in Nat
                                  /\ DOMAIN right[i] = 1..Len(right[i])
                                  /\ \A j \in DOMAIN right[i] : right[i][j] \in Cells
  BY <1>2, LenProperties, ElementOfSeq
<1>4. ASSUME SameRows(left, right)
      PROVE  FingerprintRows(left) = FingerprintRows(right)
  <2>1. DOMAIN left = DOMAIN right
    BY <1>1, <1>4 DEF SameRows, Matching
  <2>2. \A i \in DOMAIN left : DOMAIN left[i] = DOMAIN right[i]
    BY <1>3, <1>4, <2>1 DEF SameRows, Matching
  <2>3. \A i \in DOMAIN left : \A j \in DOMAIN left[i] :
          CanonicalizeCell(left[i][j]) = CanonicalizeCell(right[i][j])
    <3> SUFFICES ASSUME NEW i \in DOMAIN left, NEW j \in DOMAIN left[i]
                 PROVE  CanonicalizeCell(left[i][j]) = CanonicalizeCell(right[i][j])
      OBVIOUS
    <3>1. left[i][j] \in Cells /\ right[i][j] \in Cells
      BY <1>3, <2>1, <2>2
    <3>2. SameCell(left[i][j], right[i][j])
      BY <1>4 DEF SameRows
    <3> QED
      BY <3>1, <3>2, CanonicalCells
  <2>4. \A i \in DOMAIN left :
          [j \in DOMAIN left[i] |-> CanonicalizeCell(left[i][j])]
            = [j \in DOMAIN right[i] |-> CanonicalizeCell(right[i][j])]
    BY <2>2, <2>3
  <2> QED
    BY <2>1, <2>4 DEF FingerprintRows, CanonicalizeValue
<1>5. ASSUME FingerprintRows(left) = FingerprintRows(right)
      PROVE  CloseRows(left, right)
  <2> DEFINE l == CanonicalizeValue(left)
             r == CanonicalizeValue(right)
  <2>1. l = r
    BY <1>5 DEF FingerprintRows
  <2>2. DOMAIN l = DOMAIN left /\ DOMAIN r = DOMAIN right
    BY DEF CanonicalizeValue
  <2>3. \A i \in DOMAIN left : l[i] = [j \in DOMAIN left[i] |-> CanonicalizeCell(left[i][j])]
    BY DEF CanonicalizeValue
  <2>4. \A i \in DOMAIN right :
          r[i] = [j \in DOMAIN right[i] |-> CanonicalizeCell(right[i][j])]
    BY DEF CanonicalizeValue
  <2> HIDE DEF l, r
  <2>5. DOMAIN left = DOMAIN right /\ Len(left) = Len(right)
    <3>1. DOMAIN left = DOMAIN right
      BY <2>1, <2>2, Zenon
    <3>2. 1..Len(left) = 1..Len(right)
      BY <1>1, <3>1, Zenon
    <3>3. Len(left) \in Nat /\ Len(right) \in Nat
      BY <1>1
    <3> QED
      BY <3>1, <3>2, <3>3
  <2>6. ASSUME NEW i \in DOMAIN left
        PROVE  /\ DOMAIN left[i] = DOMAIN right[i] /\ Len(left[i]) = Len(right[i])
               /\ \A j \in DOMAIN left[i] :
                    CanonicalizeCell(left[i][j]) = CanonicalizeCell(right[i][j])
    <3>1. [j \in DOMAIN left[i] |-> CanonicalizeCell(left[i][j])]
            = [j \in DOMAIN right[i] |-> CanonicalizeCell(right[i][j])]
      BY <2>1, <2>3, <2>4, <2>5
    <3> DEFINE a == [j \in DOMAIN left[i] |-> CanonicalizeCell(left[i][j])]
               b == [j \in DOMAIN right[i] |-> CanonicalizeCell(right[i][j])]
    <3>2. a = b /\ DOMAIN a = DOMAIN left[i] /\ DOMAIN b = DOMAIN right[i]
      BY <3>1
    <3>3. /\ \A j \in DOMAIN left[i] : a[j] = CanonicalizeCell(left[i][j])
          /\ \A j \in DOMAIN right[i] : b[j] = CanonicalizeCell(right[i][j])
      OBVIOUS
    <3> HIDE DEF a, b
    <3>4. DOMAIN left[i] = DOMAIN right[i]
      BY <3>2
    <3>5. Len(left[i]) = Len(right[i])
      BY <1>3, <2>5, <3>4
    <3> QED
      BY <3>2, <3>3, <3>4, <3>5
  <2>7. \A i \in DOMAIN left : \A j \in DOMAIN left[i] : CloseCell(left[i][j], right[i][j])
    <3> SUFFICES ASSUME NEW i \in DOMAIN left, NEW j \in DOMAIN left[i]
                 PROVE  CloseCell(left[i][j], right[i][j])
      OBVIOUS
    <3>1. left[i][j] \in Cells /\ right[i][j] \in Cells
      BY <1>3, <2>5, <2>6
    <3> QED
      BY <2>6, <3>1, CanonicalCells
  <2> QED
    BY <2>5, <2>6, <2>7 DEF CloseRows, Matching
<1> QED
  BY <1>4, <1>5

\* What the query tool showed is fingerprinted like what it read.
LEMMA CopiedRows ==
  ASSUME NEW rows \in Seq(Seq(Cells)), NoneRoundsToWhole(rows)
  PROVE  FingerprintRows(CanonicalizeValue(rows)) = FingerprintRows(rows)
<1> DEFINE once == CanonicalizeValue(rows)
           twice == CanonicalizeValue(once)
<1>1. \A i \in DOMAIN rows : \A j \in DOMAIN rows[i] : rows[i][j] \in Cells
  BY LenProperties, ElementOfSeq
<1>2. \A i \in DOMAIN rows : \A j \in DOMAIN rows[i] :
        CanonicalizeCell(CanonicalizeCell(rows[i][j])) = CanonicalizeCell(rows[i][j])
  BY <1>1, WrittenAgain DEF NoneRoundsToWhole
<1>3. /\ DOMAIN once = DOMAIN rows
      /\ \A i \in DOMAIN rows :
           /\ DOMAIN once[i] = DOMAIN rows[i]
           /\ \A j \in DOMAIN rows[i] : once[i][j] = CanonicalizeCell(rows[i][j])
  BY DEF CanonicalizeValue
<1>4. \A i \in DOMAIN rows : once[i] = [j \in DOMAIN rows[i] |-> CanonicalizeCell(rows[i][j])]
  BY DEF CanonicalizeValue
<1>5. once = [i \in DOMAIN rows |-> once[i]]
  BY DEF CanonicalizeValue
<1>6. twice = [i \in DOMAIN once |-> [j \in DOMAIN once[i] |-> CanonicalizeCell(once[i][j])]]
  BY DEF CanonicalizeValue
<1> HIDE DEF once, twice
<1>7. \A i \in DOMAIN rows :
        [j \in DOMAIN once[i] |-> CanonicalizeCell(once[i][j])] = once[i]
  BY <1>2, <1>3, <1>4
<1>8. twice = once
  BY <1>3, <1>5, <1>6, <1>7
<1> QED
  BY <1>8 DEF once, twice, FingerprintRows

\* Evidence that is VERIFIED shows what was fingerprinted, evidence that is FAILED
\* by its hash alone does not, and an answer that was copied has the fingerprint of
\* what was read.
THEOREM ReplaysAreFaithful == Spec => []ReplayIsFaithful
<1>1. Decided => ReplayIsFaithful
  <2> SUFFICES ASSUME Decided, kind = "REPLAY"
               PROVE  ReplayIsFaithful
    BY DEF ReplayIsFaithful, Verified, Refuted
  <2> DEFINE left == claim.attached.rows
             right == claim.replayed.rows
  <2>1. left \in Seq(Seq(Cells)) /\ right \in Seq(Seq(Cells))
    BY ReplayAssumption DEF Decided
  <2>2. status = "NOT_VERIFIED" \/ status = ReplayVerdict(claim)
    BY DEF Decided
  <2>3. status = "VERIFIED" => FingerprintRows(right) = FingerprintRows(left)
    BY <2>2 DEF ReplayVerdict
  <2>4. status = "FAILED" /\ ReplayFits(claim) /\ ~claim.attached.fails
          => FingerprintRows(right) # FingerprintRows(left)
    BY <2>2 DEF ReplayVerdict
  <2>5. \A answer \in SqlDbQuery(claim.attached) : answer = CanonicalizeValue(left)
    BY DEF SqlDbQuery
  <2> HIDE DEF left, right
  <2>6. Verified("REPLAY") => CloseRows(left, right)
    BY <2>1, <2>3, CanonicalRows DEF Verified
  <2>7. Refuted("REPLAY") /\ ReplayFits(claim) /\ ~claim.attached.fails => ~SameRows(left, right)
    BY <2>1, <2>4, CanonicalRows DEF Refuted
  <2>8. \A answer \in SqlDbQuery(claim.attached) :
          NoneRoundsToWhole(left) => FingerprintRows(answer) = FingerprintRows(left)
    BY <2>1, <2>5, CopiedRows
  <2> QED
    BY <2>6, <2>7, <2>8 DEF ReplayIsFaithful, left, right
<1> QED
  BY <1>1, StatusIsDecided, PTL

-----------------------------------------------------------------------------
(* The names and the filters of a claim.                                     *)

\* No name of a claim is bound by a guess, and those that were declared for the
\* columns of evidence that was confirmed are read where they were declared.
THEOREM NamesAreBoundSharply == Spec => []NamesBindSharply
<1>1. Decided => NamesBindSharply
  <2> SUFFICES ASSUME Decided, kind = "ANNOTATIONS", NEW i \in DOMAIN claim.cited
               PROVE  /\ BindsSharply(ReplayColumns(claim.cited[i]), claim.metric)
                      /\ BindsSharply(claim.cited[i].declared, claim.metric)
                      /\ Verified("ANNOTATIONS") => ReadAsDeclared(claim.cited[i])
    BY DEF NamesBindSharply
  <2>1. /\ claim \in [metric : Names, filters : Seq(Filters), cited : Seq(Results)]
        /\ status \in {"NOT_VERIFIED", AnnotationVerdict(claim)}
    BY AnnotationAssumption DEF Decided
  <2>2. claim.metric \in Names /\ claim.cited[i] \in Results
    BY <2>1, ElementOfSeq, LenProperties
  <2>3. /\ BindsSharply(ReplayColumns(claim.cited[i]), claim.metric)
        /\ BindsSharply(claim.cited[i].declared, claim.metric)
    BY <2>2, ReplayColumnsAreNames, NamesAreNeverGuessed
  <2>4. ASSUME Verified("ANNOTATIONS")
        PROVE  ReadAsDeclared(claim.cited[i])
    <3>1. AnnotationVerdict(claim) = "VERIFIED"
      BY <2>1, <2>4 DEF Verified
    <3>2. \A k \in DOMAIN AnnotationChecks(claim) : AnnotationChecks(claim)[k] = "CONFIRMED"
      BY <3>1, VerdictGrounds DEF AnnotationVerdict
    <3>3. DeclaredColumnsCheck(claim.cited[i]) = "CONFIRMED"
      BY <2>1, <3>2, ChecksInOrder
    <3> QED
      BY <2>2, <3>3, DeclaredNamesAreRead
  <2> QED
    BY <2>3, <2>4
<1> QED
  BY <1>1, StatusIsDecided, PTL

\* Every literal of a plain conjunction is the cell of some row in its scope.
LEMMA LiteralsAreInScope ==
  ASSUME NEW block \in Results, Plain(block), NEW p \in UNION block.clauses, NEW v \in p.values
  PROVE  \E row \in Scope(block) : row[p.column] = v
<1> DEFINE Fits(c, w) == /\ c = p.column => w = v
                         /\ \A q \in UNION block.clauses : q.column = c => w \in q.values
           row == [c \in TableColumns |-> CHOOSE w \in CellValues : Fits(c, w)]
<1>1. \A q \in UNION block.clauses : q \in Predicates
  BY DEF Results
<1>2. \A q \in UNION block.clauses :
        /\ q.column \in TableColumns /\ q.values \subseteq CellValues /\ q.values # {}
        /\ q.negated \in BOOLEAN /\ q.derived \in BOOLEAN
  BY <1>1 DEF Predicates
<1>3. \A q, r \in UNION block.clauses : q.column = r.column => q = r
  BY DEF Plain
<1>4. ASSUME NEW c \in TableColumns
      PROVE  \E w \in CellValues : Fits(c, w)
  <2>1. CASE c = p.column
    BY <1>2, <1>3, <2>1
  <2>2. CASE c # p.column /\ \E q \in UNION block.clauses : q.column = c
    BY <1>2, <1>3, <2>2
  <2>3. CASE c # p.column /\ ~ \E q \in UNION block.clauses : q.column = c
    BY <1>2, <2>3
  <2> QED
    BY <2>1, <2>2, <2>3
<1>5. \A c \in TableColumns : row[c] \in CellValues /\ Fits(c, row[c])
  BY <1>4
<1>6. row \in [TableColumns -> CellValues]
  BY <1>4
<1> HIDE DEF row
<1>7. ASSUME NEW clause \in block.clauses
      PROVE  \E q \in clause : Satisfies(q, row)
  <2>1. PICK q \in clause : /\ clause = {q} /\ ~q.negated /\ ~q.derived
                            /\ q.operator \in {"EQ", "IN", "GTE", "BETWEEN"}
    BY DEF Plain
  <2>2. q \in UNION block.clauses
    BY <2>1
  <2>3. row[q.column] \in q.values /\ row[q.column] \in Nat
    BY <1>2, <1>5, <2>2, TableAssumption
  <2>4. Compares(q, row[q.column])
    <3>1. CASE q.operator = "EQ"
      BY <2>3, <3>1 DEF Compares
    <3>2. CASE q.operator = "IN"
      BY <2>3, <3>2 DEF Compares
    <3>3. CASE q.operator = "GTE"
      BY <2>3, <3>3 DEF Compares
    <3>4. CASE q.operator = "BETWEEN"
      BY <2>3, <3>4 DEF Compares
    <3> QED
      BY <2>1, <3>1, <3>2, <3>3, <3>4
  <2>5. Satisfies(q, row)
    BY <1>2, <2>1, <2>2, <2>4 DEF Satisfies
  <2> QED
    BY <2>5
<1>8. row \in Scope(block)
  BY <1>6, <1>7 DEF Scope
<1>9. row[p.column] = v
  BY <1>2, <1>5
<1> QED
  BY <1>8, <1>9

\* A filter that its evidence refutes is about a column from which its evidence
\* excludes one of its values.
LEMMA RefutedIsExcluded ==
  ASSUME NEW cited \in Seq(Results), NEW f \in Filters,
         ReconcileFilter(f, cited) = "REFUTED", f.value.members # {},
         \A i \in DOMAIN cited : Pins(f, cited[i])
  PROVE  Excluded(f, cited)
<1> DEFINE bindings == UNION {PredicateBindings(cited[i]) : i \in DOMAIN cited}
           same == {b \in bindings : KeysMatch(f.key, b.column)}
           equal == {b \in same : b.operator \in EqualityOperators}
           selected == UNION {b.values : b \in equal}
<1>1. selected # {} /\ ~TokensCovered(f.value.members, selected)
  BY DEF ReconcileFilter, FilterTokens
<1>2. PICK v \in f.value.members : \A w \in selected : ~ValuesEqual(v, w)
  BY <1>1 DEF TokensCovered
<1>3. PICK b \in equal : TRUE
  BY <1>1
<1>4. b \in bindings /\ KeysMatch(f.key, b.column) /\ b.operator \in EqualityOperators
  BY <1>3
<1>5. b.values \subseteq selected
  BY <1>3
<1>6. PICK i \in DOMAIN cited : b \in PredicateBindings(cited[i])
  BY <1>4
<1>7. PICK p \in UNION cited[i].clauses :
        b = [column |-> p.column, operator |-> p.operator, values |-> p.values]
  BY <1>6 DEF PredicateBindings
<1>8. b.column = p.column /\ b.operator = p.operator /\ b.values = p.values
  BY <1>7
<1>9. cited[i] \in Results
  BY ElementOfSeq, LenProperties
<1>10. p \in Predicates
  BY <1>9 DEF Results
<1>11. /\ p.column \in TableColumns
       /\ p.operator \in {"EQ", "IN", "NE", "GTE", "BETWEEN"}
  BY <1>10 DEF Predicates
<1>12. p.column \in About(f)
  BY <1>4, <1>8, <1>11 DEF About
<1>13. {p} \in cited[i].clauses /\ ~p.negated /\ ~p.derived
  BY <1>4, <1>8, <1>12 DEF Pins
<1>14. p.operator \in {"EQ", "IN"}
  BY <1>4, <1>8, <1>11 DEF EqualityOperators
<1> HIDE DEF selected, equal, same, bindings
<1>15. ASSUME NEW row \in Scope(cited[i])
       PROVE  ~ValuesEqual(v, row[p.column])
  <2>1. Satisfies(p, row)
    BY <1>13 DEF Scope
  <2>2. Compares(p, row[p.column]) = (row[p.column] \in p.values)
    <3>1. CASE p.operator = "EQ"
      BY <3>1 DEF Compares
    <3>2. CASE p.operator = "IN"
      BY <3>2 DEF Compares
    <3> QED
      BY <1>14, <3>1, <3>2
  <2>3. row[p.column] \in p.values
    <3>1. Compares(p, row[p.column]) # FALSE
      <4>1. p.negated = FALSE /\ p.derived = FALSE
        BY <1>10, <1>13 DEF Predicates
      <4> QED
        BY <2>1, <4>1, Zenon DEF Satisfies
    <3>2. CASE row[p.column] \notin p.values
      <4>1. (row[p.column] \in p.values) = FALSE
        BY <3>2
      <4> QED
        BY <2>2, <3>1, <4>1, Zenon
    <3> QED
      BY <3>2
  <2> QED
    BY <1>2, <1>5, <1>8, <2>3
<1> QED
  BY <1>12, <1>15 DEF Excluded

\* A name that is bound to a column of the table fits it as a filter's key.
LEMMA AlikeMatches ==
  ASSUME NEW column \in Names, NEW c \in TableColumns, column.norm = c.norm,
         NEW key, FilterKeyBase(key) \in Names,
         NEW t \in Tiers, Alike(t, column, FilterKeyBase(key))
  PROVE  KeysMatch(key, c)
<1> DEFINE name == FilterKeyBase(key)
<1>1. c.norm # <<>> /\ c.norm \in Seq(STRING)
  BY TableAssumption, NamesAssumption
<1>2. t \in {EXACT, CASE_INSENSITIVE, NORMALIZED, SUBSTRING}
  BY DEF Tiers, EXACT, CASE_INSENSITIVE, NORMALIZED, SUBSTRING
<1>3. name.norm = c.norm \/ /\ name.norm # <<>>
                             /\ \/ Within(name.norm, column.norm)
                                \/ Within(column.norm, name.norm)
  <2>1. CASE t = EXACT
    <3>1. column.text = name.text
      BY <2>1 DEF Alike, EXACT, CASE_INSENSITIVE, NORMALIZED, SUBSTRING
    <3> QED
      BY <3>1, NamesAssumption
  <2>2. CASE t = CASE_INSENSITIVE
    <3>1. column.fold = name.fold
      BY <2>2 DEF Alike, EXACT, CASE_INSENSITIVE, NORMALIZED, SUBSTRING
    <3> QED
      BY <3>1, NamesAssumption
  <2>3. CASE t = NORMALIZED
    BY <2>3 DEF Alike, EXACT, CASE_INSENSITIVE, NORMALIZED, SUBSTRING
  <2>4. CASE t = SUBSTRING
    BY <2>4 DEF Alike, EXACT, CASE_INSENSITIVE, NORMALIZED, SUBSTRING
  <2> QED
    BY <1>2, <2>1, <2>2, <2>3, <2>4
<1>4. name.norm # <<>> /\ (Within(name.norm, c.norm) \/ Within(c.norm, name.norm))
  BY <1>1, <1>3, WithinItself
<1> QED
  BY <1>1, <1>4 DEF KeysMatch

\* A filter found in the rows of a block is found in one of its columns' cells.
LEMMA FoundIsAdmitted ==
  ASSUME NEW block \in Results, DeclaredColumnsCheck(block) = "CONFIRMED", FromScope(block),
         NEW f \in Filters, InNamedColumn(f, block), NEW v \in f.value.members
  PROVE  \E c \in About(f) : \E row \in Scope(block) : ValuesEqual(v, row[c])
<1> DEFINE base == FilterKeyBase(f.key)
           columns == ReplayColumns(block)
           names == ProjectionNames(block)
<1>1. PICK m \in ResolveReplayColumn(block, base), j \in DOMAIN block.rows :
        m.index <= Len(block.rows[j]) /\ ValuesEqual(v, block.rows[j][m.index])
  BY DEF InNamedColumn
<1>2. PICK row \in Scope(block) :
        block.rows[j] = [i \in DOMAIN block.projection |-> row[block.projection[i].name]]
  BY DEF FromScope
<1>3. base \in Names
  BY DEF Filters, FilterKeyBase
<1>4. /\ block.projection \in Seq(Terms) /\ block.declared \in Seq(Names)
      /\ names \in Seq(Names) /\ columns \in Seq(Names)
  BY ReplayColumnsAreNames
<1>5. \E list \in {columns, block.declared} : m \in ResolveColumn(list, base)
  BY <1>1 DEF ResolveReplayColumn
<1>6. PICK list \in {columns, block.declared} : m \in ResolveColumn(list, base)
  BY <1>5
<1>7. list \in Seq(Names)
  BY <1>4
<1>8. m.index \in DOMAIN list /\ \E t \in Tiers : Alike(t, list[m.index], base)
  BY <1>3, <1>6, <1>7, BoundToLike
<1>9. m.index \in DOMAIN block.projection
  <2>1. DOMAIN block.rows[j] = DOMAIN block.projection
    BY <1>2
  <2>2. block.rows[j] \in Seq(Seq(CellValues)) \/ block.rows[j] \in Seq(CellValues)
    BY ElementOfSeq, LenProperties DEF Results
  <2>3. DOMAIN block.rows[j] = 1..Len(block.rows[j])
    BY <2>2, LenProperties
  <2>4. m.index \in Nat /\ m.index >= 1
    BY <1>7, <1>8, LenProperties
  <2>5. m.index \in 1..Len(block.rows[j])
    BY <1>1, <2>2, <2>4, LenProperties
  <2> QED
    BY <2>1, <2>3, <2>5
<1> DEFINE term == block.projection[m.index]
<1>10. term.kind = "column" /\ term.alias = Blank /\ term.name \in TableColumns
  BY <1>9 DEF FromScope
<1>11. names[m.index] = term.name /\ names # <<>>
  <2>1. ProjectionName(term) = term.name
    BY <1>10 DEF ProjectionName
  <2>2. m.index \in DOMAIN names
    BY <1>9 DEF ProjectionNames
  <2> QED
    BY <1>9, <2>1, <2>2 DEF ProjectionNames
<1>12. ~ProjectsStar(block)
  BY DEF ProjectsStar, FromScope
<1>13. /\ Len(names) = Len(block.declared)
       /\ \A i \in DOMAIN names : names[i].fold = block.declared[i].fold
  BY <1>11, <1>12 DEF DeclaredColumnsCheck, Doubt
<1>14. m.index \in DOMAIN names
  BY <1>9 DEF ProjectionNames
<1>15. m.index \in DOMAIN block.declared
  BY <1>4, <1>13, <1>14, LenProperties
<1>16. block.declared # <<>>
  BY <1>15
<1>17. /\ DOMAIN columns = DOMAIN block.declared
       /\ \A i \in DOMAIN block.declared : columns[i].fold = block.declared[i].fold
  BY <1>16, ColumnsAgree
<1>18. list[m.index].fold = term.name.fold
  BY <1>11, <1>13, <1>14, <1>15, <1>17
<1>19. list[m.index] \in Names /\ term.name \in Names
  BY <1>7, <1>8, <1>10, ElementOfSeq, LenProperties, TableAssumption
<1>20. list[m.index].norm = term.name.norm
  BY <1>18, <1>19, NamesAssumption
<1> HIDE DEF term, names, columns
<1>21. KeysMatch(f.key, term.name)
  BY <1>3, <1>8, <1>10, <1>19, <1>20, AlikeMatches
<1>22. term.name \in About(f)
  BY <1>10, <1>21 DEF About
<1>23. ValuesEqual(v, row[term.name])
  BY <1>1, <1>2, <1>9 DEF term
<1> QED
  BY <1>22, <1>23

\* A filter that its evidence confirms is in the scope of that evidence.
LEMMA ConfirmedIsAdmitted ==
  ASSUME NEW cited \in Seq(Results), NEW f \in Filters,
         ReconcileFilter(f, cited) = "CONFIRMED",
         \A i \in DOMAIN cited : Plain(cited[i]) /\ FromScope(cited[i]) /\ Pointed(f, cited[i])
  PROVE  Admitted(f, cited)
<1> DEFINE bindings == UNION {PredicateBindings(cited[i]) : i \in DOMAIN cited}
           same == {b \in bindings : KeysMatch(f.key, b.column)}
           equal == {b \in same : b.operator \in EqualityOperators}
           selected == UNION {b.values : b \in equal}
<1> SUFFICES ASSUME NEW v \in f.value.members
             PROVE  \E i \in DOMAIN cited, c \in About(f) :
                      \E row \in Scope(cited[i]) : ValuesEqual(v, row[c])
  BY DEF Admitted
<1>1. \A i \in DOMAIN cited : cited[i] \in Results
  BY ElementOfSeq, LenProperties
<1>2. \/ \E b \in bindings : \E w \in b.values : ValuesEqual(v, w)
      \/ \E i \in DOMAIN cited : InNamedColumn(f, cited[i])
  <2>1. \/ \E b \in same : TokensCovered(f.value.members, b.values)
        \/ TokensCovered(f.value.members, selected)
        \/ \E b \in bindings : TokensCovered(f.value.members, b.values)
        \/ \E i \in DOMAIN cited : InNamedColumn(f, cited[i])
    BY DEF ReconcileFilter, FilterTokens
  <2> QED
    BY <2>1 DEF TokensCovered
<1>3. CASE \E b \in bindings : \E w \in b.values : ValuesEqual(v, w)
  <2>1. PICK b \in bindings : \E w \in b.values : ValuesEqual(v, w)
    BY <1>3
  <2>2. PICK w \in b.values : ValuesEqual(v, w)
    BY <2>1
  <2>3. PICK i \in DOMAIN cited : b \in PredicateBindings(cited[i])
    BY <2>1
  <2>4. PICK p \in UNION cited[i].clauses :
          b = [column |-> p.column, operator |-> p.operator, values |-> p.values]
    BY <2>3 DEF PredicateBindings
  <2>5. w \in p.values
    BY <2>2, <2>4
  <2>6. p.column \in About(f)
    BY <2>2, <2>5 DEF Pointed
  <2>7. \E row \in Scope(cited[i]) : row[p.column] = w
    BY <1>1, <2>5, LiteralsAreInScope
  <2> QED
    BY <2>2, <2>6, <2>7
<1>4. CASE \E i \in DOMAIN cited : InNamedColumn(f, cited[i])
  <2>1. PICK i \in DOMAIN cited : InNamedColumn(f, cited[i])
    BY <1>4
  <2>2. DeclaredColumnsCheck(cited[i]) = "CONFIRMED"
    BY DEF Plain
  <2> QED
    BY <1>1, <2>1, <2>2, FoundIsAdmitted
<1> QED
  BY <1>2, <1>3, <1>4

\* A claim is failed for a filter only over evidence that excludes one of its
\* values, and passes its filters only if they are in the scope of its evidence.
THEOREM FiltersHaveGrounds == Spec => []FiltersAreGrounded
<1>1. Decided => FiltersAreGrounded
  <2> DEFINE filters == {claim.filters[i] : i \in DOMAIN claim.filters}
             blocks == {claim.cited[i] : i \in DOMAIN claim.cited}
  <2> SUFFICES ASSUME Decided, kind = "ANNOTATIONS"
               PROVE  FiltersAreGrounded
    BY DEF FiltersAreGrounded, Verified, Refuted
  <2>1. /\ claim \in [metric : Names, filters : Seq(Filters), cited : Seq(Results)]
        /\ status \in {"NOT_VERIFIED", AnnotationVerdict(claim)}
    BY AnnotationAssumption DEF Decided
  <2>2. /\ claim.cited \in Seq(Results)
        /\ \A i \in DOMAIN claim.filters : claim.filters[i] \in Filters
    BY <2>1, ElementOfSeq, LenProperties
  <2>3. ASSUME Refuted("ANNOTATIONS"),
               \A f \in filters : f.value.members # {} /\ \A b \in blocks : Pins(f, b)
        PROVE  \E f \in filters : Excluded(f, claim.cited)
    <3>1. AnnotationVerdict(claim) = "FAILED"
      BY <2>1, <2>3 DEF Refuted
    <3>2. \E k \in DOMAIN AnnotationChecks(claim) : AnnotationChecks(claim)[k] = "REFUTED"
      BY <3>1, VerdictGrounds DEF AnnotationVerdict
    <3>3. PICK i \in DOMAIN claim.filters :
            ReconcileFilter(claim.filters[i], claim.cited) = "REFUTED"
      BY <2>1, <3>2, ChecksInOrder
    <3>4. Excluded(claim.filters[i], claim.cited)
      BY <2>2, <2>3, <3>3, RefutedIsExcluded
    <3> QED
      BY <3>4
  <2>4. ASSUME Verified("ANNOTATIONS"),
               \A b \in blocks : /\ Plain(b) /\ FromScope(b)
                                 /\ \A f \in filters : Pointed(f, b),
               NEW f \in filters
        PROVE  Admitted(f, claim.cited)
    <3>1. AnnotationVerdict(claim) = "VERIFIED"
      BY <2>1, <2>4 DEF Verified
    <3>2. \A k \in DOMAIN AnnotationChecks(claim) : AnnotationChecks(claim)[k] = "CONFIRMED"
      BY <3>1, VerdictGrounds DEF AnnotationVerdict
    <3>3. PICK i \in DOMAIN claim.filters : f = claim.filters[i]
      BY <2>4
    <3>4. ReconcileFilter(f, claim.cited) = "CONFIRMED"
      BY <2>1, <3>2, <3>3, ChecksInOrder
    <3> QED
      BY <2>2, <2>4, <3>3, <3>4, ConfirmedIsAdmitted
  <2> HIDE DEF filters, blocks
  <2> QED
    BY <2>3, <2>4 DEF FiltersAreGrounded, filters, blocks
<1> QED
  BY <1>1, StatusIsDecided, PTL

-----------------------------------------------------------------------------
(***************************************************************************)
(* The verdicts of the typed verifiers.                                     *)
(***************************************************************************)

-----------------------------------------------------------------------------
(* The claim at hand.                                                        *)

VerdictOf(type, c) ==
  CASE type = "TREND" -> TrendVerdict(c)
    [] type = "RANKING_TOP_K" -> TopKVerdict(c)
    [] type = "COMPARISON" -> ComparisonVerdict(c)
    [] type = "DISTRIBUTION" -> DistributionVerdict(c)
    [] type = "AGGREGATION" -> AggregationVerdict(c)
    [] type = "VALUE_LOOKUP" -> ValueLookupVerdict(c)
    [] type = "EXISTENCE" -> ExistenceVerdict(c)
    [] type = "REPLAY" -> ReplayVerdict(c)
    [] type = "ANNOTATIONS" -> AnnotationVerdict(c)
    [] type = "SUBJECT" -> SubjectVerdict(c)

\* A claim stays what it is and gets the verdict of its verifier.
Judged ==
  /\ kind \in ClaimType \cup AnyClaim /\ claim \in ClaimsOf(kind)
  /\ status \in {"NOT_VERIFIED", VerdictOf(kind, claim)}

LEMMA ClaimsAreJudged == Spec => []Judged
<1>1. Init => Judged
  BY DEF Init, Judged
<1>2. Judged /\ [Next]_vars => Judged'
  <2> SUFFICES ASSUME Judged, [Next]_vars
               PROVE  Judged'
    OBVIOUS
  <2>1. CASE Next
    <3>1. kind' = kind /\ claim' = claim
      BY <2>1 DEF Next, Verify
    <3>2. status' = VerdictOf(kind, claim)
      BY <2>1 DEF Next, Verify, VerdictOf
    <3>3. ClaimsOf(kind)' = ClaimsOf(kind) /\ VerdictOf(kind, claim)' = VerdictOf(kind, claim)
      BY <3>1
    <3> QED
      BY <3>1, <3>2, <3>3 DEF Judged
  <2>2. CASE UNCHANGED vars
    BY <2>2 DEF vars, Judged
  <2> QED
    BY <2>1, <2>2
<1> QED
  BY <1>1, <1>2, PTL DEF Spec

\* What the verifier of each type was given, and gave.
LEMMA GivenClaim ==
  ASSUME Judged
  PROVE  /\ kind \in ClaimType => Tabular(claim.cited)
         /\ kind \in ClaimType \ {"RANKING_TOP_K"} =>
              /\ {"contract", "spec", "cited"} \subseteq DOMAIN claim
              /\ claim.contract \in {"sound", "noise", "missing"}
         /\ kind = "TREND" =>
              claim \in TrendClaims /\ status \in {"NOT_VERIFIED", TrendVerdict(claim)}
         /\ kind = "RANKING_TOP_K" =>
              claim \in TopKClaims /\ status \in {"NOT_VERIFIED", TopKVerdict(claim)}
         /\ kind = "COMPARISON" =>
              claim \in ComparisonClaims /\ status \in {"NOT_VERIFIED", ComparisonVerdict(claim)}
         /\ kind = "DISTRIBUTION" =>
              /\ claim \in DistributionClaims
              /\ status \in {"NOT_VERIFIED", DistributionVerdict(claim)}
         /\ kind = "AGGREGATION" => status \in {"NOT_VERIFIED", AggregationVerdict(claim)}
         /\ kind = "VALUE_LOOKUP" => status \in {"NOT_VERIFIED", ValueLookupVerdict(claim)}
         /\ kind = "EXISTENCE" =>
              claim \in ExistenceClaims /\ status \in {"NOT_VERIFIED", ExistenceVerdict(claim)}
         /\ kind = "SUBJECT" =>
              claim \in SubjectClaims /\ status \in {"NOT_VERIFIED", SubjectVerdict(claim)}
<1>1. claim \in ClaimsOf(kind) /\ status \in {"NOT_VERIFIED", VerdictOf(kind, claim)}
  BY DEF Judged
<1>2. kind \in ClaimType => Tabular(claim.cited)
  BY <1>1, EvidenceAssumption
<1>3. kind \in ClaimType \ {"RANKING_TOP_K"} =>
        /\ {"contract", "spec", "cited"} \subseteq DOMAIN claim
        /\ claim.contract \in {"sound", "noise", "missing"}
  BY <1>1, ContractAssumption
<1> QED
  BY <1>1, <1>2, <1>3 DEF ClaimsOf, VerdictOf

-----------------------------------------------------------------------------
(* Records and their places.                                                 *)

\* A record's place is that of a row.
LEMMA PlacesOfRows ==
  ASSUME NEW cited, Tabular(cited)
  PROVE  /\ cited \in Seq(Range(cited)) /\ DOMAIN cited = 1..Len(cited) /\ Len(cited) \in Nat
         /\ \A i \in DOMAIN cited : /\ cited[i].rows \in Seq(Range(cited[i].rows))
                                    /\ DOMAIN cited[i].rows = 1..Len(cited[i].rows)
                                    /\ Len(cited[i].rows) \in Nat
         /\ \A p \in Places(cited) :
              /\ p = <<p[1], p[2]>> /\ p[1] \in Nat /\ p[2] \in Nat
              /\ p[1] \in DOMAIN cited /\ p[2] \in DOMAIN cited[p[1]].rows
              /\ At(cited, p) = cited[p[1]].rows[p[2]]
              /\ At(cited, p).key \in Int \cup {NULL} /\ At(cited, p).value \in Int \cup {NULL}
         /\ \A i \in DOMAIN cited : \A j \in DOMAIN cited[i].rows :
              <<i, j>> \in Places(cited) /\ At(cited, <<i, j>>) = cited[i].rows[j]
<1>1. cited \in Seq(Range(cited)) /\ DOMAIN cited = 1..Len(cited) /\ Len(cited) \in Nat
  BY LenProperties DEF Tabular, IsSequence
<1>2. \A i \in DOMAIN cited : cited[i].rows \in Seq(Range(cited[i].rows))
  BY DEF Tabular, IsSequence
<1>3. \A i \in DOMAIN cited : /\ DOMAIN cited[i].rows = 1..Len(cited[i].rows)
                              /\ Len(cited[i].rows) \in Nat
  BY <1>2, LenProperties
<1>4. ASSUME NEW p \in Places(cited)
      PROVE  /\ p = <<p[1], p[2]>> /\ p[1] \in Nat /\ p[2] \in Nat
             /\ p[1] \in DOMAIN cited /\ p[2] \in DOMAIN cited[p[1]].rows
             /\ At(cited, p) = cited[p[1]].rows[p[2]]
             /\ At(cited, p).key \in Int \cup {NULL} /\ At(cited, p).value \in Int \cup {NULL}
  <2>1. PICK i \in DOMAIN cited : p \in {i} \X DOMAIN cited[i].rows
    BY DEF Places
  <2>2. p = <<p[1], p[2]>> /\ p[1] = i /\ p[2] \in DOMAIN cited[i].rows
    BY <2>1
  <2>3. At(cited, p) = cited[i].rows[p[2]]
    BY <2>2 DEF At
  <2> QED
    BY <1>1, <1>3, <2>2, <2>3 DEF Tabular
<1>5. ASSUME NEW i \in DOMAIN cited, NEW j \in DOMAIN cited[i].rows
      PROVE  <<i, j>> \in Places(cited) /\ At(cited, <<i, j>>) = cited[i].rows[j]
  BY DEF Places, At
<1> QED
  BY <1>1, <1>2, <1>3, <1>4, <1>5

\* One record is the first, and one in number.
LEMMA OnlyOne ==
  ASSUME NEW records, Only(records)
  PROVE  /\ records = {First(records)} /\ First(records) \in records
         /\ Cardinality(records) = 1
<1>1. PICK p \in records : records = {p}
  BY DEF Only
<1>2. First({p}) = p
  BY DEF First
<1> QED
  BY <1>1, <1>2, FS_Singleton

\* What the properties count and read are the records.
LEMMA RowsAreRecords ==
  ASSUME Tabular(claim.cited)
  PROVE  /\ \A key : Occurrences(key)
                       = Cardinality(With(claim.cited, Records(claim.cited, Both), key))
         /\ \A r : r \in Rows <=> \E p \in Records(claim.cited, Both) : r = At(claim.cited, p)
<1> DEFINE cited == claim.cited
           records == Records(cited, Both)
<1>1. \A p : p \in records <=> p \in Places(cited) /\ Resolves(cited[p[1]], Both)
  BY PlacesOfRows DEF Records, Readable
<1>2. ASSUME NEW key
      PROVE  Occurrences(key) = Cardinality(With(cited, records, key))
  <2>1. With(cited, records, key)
          = {p \in Places(cited) : /\ Resolves(cited[p[1]], Both)
                                   /\ ValuesEqual(At(cited, p).key, key)}
    BY <1>1 DEF With
  <2> QED
    BY <2>1 DEF Occurrences
<1>3. ASSUME NEW r
      PROVE  r \in Rows <=> \E p \in records : r = At(cited, p)
  <2>1. ASSUME r \in Rows
        PROVE  \E p \in records : r = At(cited, p)
    <3>1. PICK i \in DOMAIN cited : /\ Resolves(cited[i], Both)
                                    /\ \E j \in DOMAIN cited[i].rows : r = cited[i].rows[j]
      BY <2>1 DEF Rows
    <3>2. PICK j \in DOMAIN cited[i].rows : r = cited[i].rows[j]
      BY <3>1
    <3>3. <<i, j>> \in Places(cited) /\ At(cited, <<i, j>>) = r
      BY <3>2, PlacesOfRows
    <3> QED
      BY <1>1, <3>1, <3>3
  <2>2. ASSUME NEW p \in records, r = At(cited, p)
        PROVE  r \in Rows
    <3>1. /\ p[1] \in DOMAIN cited /\ p[2] \in DOMAIN cited[p[1]].rows
          /\ r = cited[p[1]].rows[p[2]] /\ Resolves(cited[p[1]], Both)
      BY <1>1, <2>2, PlacesOfRows
    <3> QED
      BY <3>1 DEF Rows
  <2> QED
    BY <2>1, <2>2
<1> QED
  BY <1>2, <1>3

\* If there is one record, one block that shows the columns has a row, and one.
LEMMA OneRow ==
  ASSUME NEW cited, Tabular(cited), NEW columns, Only(Records(cited, columns))
  PROVE  \E i \in Readable(cited, columns) :
           /\ Len(cited[i].rows) = 1
           /\ At(cited, First(Records(cited, columns))) = cited[i].rows[1]
           /\ \A j \in Readable(cited, columns) \ {i} : cited[j].rows = <<>>
<1> DEFINE records == Records(cited, columns)
           q == First(records)
<1>1. records = {q} /\ q \in Places(cited) /\ q[1] \in Readable(cited, columns)
  BY OnlyOne DEF Records
<1>2. \A i \in Readable(cited, columns) : \A j \in DOMAIN cited[i].rows : <<i, j>> = q
  <2>1. ASSUME NEW i \in Readable(cited, columns), NEW j \in DOMAIN cited[i].rows
        PROVE  <<i, j>> = q
    <3>1. <<i, j>> \in Places(cited)
      BY PlacesOfRows DEF Readable
    <3>2. <<i, j>> \in records
      BY <3>1 DEF Records
    <3> HIDE DEF q, records
    <3> QED
      BY <1>1, <3>2
  <2> QED
    BY <2>1
<1>3. /\ q = <<q[1], q[2]>> /\ q[2] \in DOMAIN cited[q[1]].rows
      /\ At(cited, q) = cited[q[1]].rows[q[2]]
  BY <1>1, PlacesOfRows
<1> HIDE DEF q
<1>4. \A i \in Readable(cited, columns) : \A j \in DOMAIN cited[i].rows : i = q[1] /\ j = q[2]
  BY <1>2, <1>3
<1>5. \A i \in Readable(cited, columns) : /\ cited[i].rows \in Seq(Range(cited[i].rows))
                                          /\ DOMAIN cited[i].rows = 1..Len(cited[i].rows)
                                          /\ Len(cited[i].rows) \in Nat
  BY PlacesOfRows DEF Readable
<1>6. Len(cited[q[1]].rows) = 1 /\ q[2] = 1
  <2>1. 1 \in DOMAIN cited[q[1]].rows /\ Len(cited[q[1]].rows) \in DOMAIN cited[q[1]].rows
    BY <1>1, <1>3, <1>5
  <2> QED
    BY <1>1, <1>4, <2>1
<1>7. ASSUME NEW i \in Readable(cited, columns) \ {q[1]}
      PROVE  cited[i].rows = <<>>
  <2>1. 1 \notin 1..Len(cited[i].rows) /\ Len(cited[i].rows) \in Nat
    BY <1>4, <1>5, <1>7
  <2>2. Len(cited[i].rows) = 0
    BY <2>1
  <2> QED
    BY <1>5, <2>2, EmptySeq
<1> QED
  BY <1>1, <1>3, <1>6, <1>7 DEF q

\* A set of numbers has a least one.
LEMMA Least ==
  ASSUME NEW S, S \subseteq Nat, S # {}
  PROVE  \E n \in S : \A m \in S : n <= m
<1>1. PICK n \in S : \A m \in S : ~(<<m, n>> \in OpToRel(<, Nat))
  BY NatLessThanWellFounded, WFMin
<1>2. \A m \in S : ~(m < n)
  BY <1>1 DEF OpToRel
<1> QED
  BY <1>2

\* Of some records there is a first.
LEMMA FirstIsThere ==
  ASSUME NEW cited, Tabular(cited), NEW records, records \subseteq Places(cited), records # {}
  PROVE  First(records) \in records
<1>1. \A p \in records : p = <<p[1], p[2]>> /\ p[1] \in Nat /\ p[2] \in Nat
  BY PlacesOfRows
<1>2. PICK i \in {p[1] : p \in records} : \A q \in records : i <= q[1]
  <2> DEFINE S == {p[1] : p \in records}
  <2>1. S \subseteq Nat /\ S # {} /\ \A q \in records : q[1] \in S
    BY <1>1
  <2> HIDE DEF S
  <2>2. \E i \in S : \A m \in S : i <= m
    BY <2>1, Least
  <2> QED
    BY <2>1, <2>2 DEF S
<1> DEFINE T == {p[2] : p \in {p \in records : p[1] = i}}
<1>3. T \subseteq Nat /\ T # {} /\ \A q \in records : q[1] = i => q[2] \in T
  BY <1>1, <1>2
<1>4. PICK j \in T : \A m \in T : j <= m
  <2> HIDE DEF T
  <2> QED
    BY <1>3, Least
<1>5. PICK p \in records : p[1] = i /\ p[2] = j
  BY <1>4
<1> HIDE DEF T
<1>6. ASSUME NEW q \in records
      PROVE  p = q \/ Before(p, q)
  BY <1>1, <1>2, <1>3, <1>4, <1>5 DEF Before
<1>7. \E r \in records : \A q \in records : r = q \/ Before(r, q)
  BY <1>6
<1> QED
  BY <1>7, Zenon DEF First

-----------------------------------------------------------------------------
(* Numbers.                                                                  *)

\* Numbers are equal both ways.
LEMMA EqualBothWays ==
  ASSUME NEW left \in Int, NEW right \in Int
  PROVE  NumbersEqual(left, right) = NumbersEqual(right, left)
<1>1. Magnitude(left - right) = Magnitude(right - left)
  BY DEF Magnitude
<1>2. {1, Magnitude(left), Magnitude(right)} = {1, Magnitude(right), Magnitude(left)}
  OBVIOUS
<1>3. Close(left, right, 1) = Close(right, left, 1)
  BY <1>1, <1>2 DEF Close
<1> QED
  BY <1>3 DEF NumbersEqual

\* So are keys and values; and all are equal to themselves.
LEMMA SameBothWays ==
  ASSUME NEW left \in Int \cup {NULL}, NEW right \in Int \cup {NULL}
  PROVE  /\ ValuesEqual(left, right) <=> ValuesEqual(right, left)
         /\ ValuesEqual(left, left)
         /\ ValuesEqual(left, NULL) <=> left = NULL
<1>1. left \in Int /\ right \in Int => NumbersEqual(left, right) = NumbersEqual(right, left)
  BY EqualBothWays
<1>2. /\ left = NULL \/ right = NULL => ~NumbersEqual(left, right) /\ ~NumbersEqual(right, left)
      /\ ~NumbersEqual(left, NULL)
  BY DEF NumbersEqual
<1>3. ValuesEqual(left, right) <=> ValuesEqual(right, left)
  <2>1. CASE left \in Int /\ right \in Int
    BY <1>1, <2>1, Zenon DEF ValuesEqual
  <2>2. CASE left = NULL \/ right = NULL
    BY <1>2, <2>2 DEF ValuesEqual
  <2> QED
    BY <2>1, <2>2
<1> QED
  BY <1>2, <1>3 DEF ValuesEqual

\* A relation and its negation exclude each other, and a relation holds as its
\* mirror image does from the other side.
LEMMA Relations ==
  ASSUME NEW left \in Int, NEW right \in Int,
         NEW operator \in {"GT", "GTE", "LT", "LTE", "EQ", "NE"}
  PROVE  /\ Relation(left, operator, right) => ~Relation(left, Negation(operator), right)
         /\ (Relation(right, Mirror(operator), left) <=> Relation(left, operator, right))
<1> DEFINE equal == NumbersEqual(left, right)
<1>1. NumbersEqual(right, left) = equal /\ equal \in BOOLEAN
  BY EqualBothWays DEF NumbersEqual, Close
<1> HIDE DEF equal
<1>2. /\ (Relation(left, "GT", right) <=> left > right) /\ (Relation(right, "GT", left) <=> right > left)
      /\ (Relation(left, "GTE", right) <=> left >= right) /\ (Relation(right, "GTE", left) <=> right >= left)
      /\ (Relation(left, "LT", right) <=> left < right) /\ (Relation(right, "LT", left) <=> right < left)
      /\ (Relation(left, "LTE", right) <=> left <= right) /\ (Relation(right, "LTE", left) <=> right <= left)
      /\ (Relation(left, "EQ", right) <=> equal) /\ (Relation(right, "EQ", left) <=> equal)
      /\ (Relation(left, "NE", right) <=> ~equal) /\ (Relation(right, "NE", left) <=> ~equal)
  BY <1>1 DEF Relation, equal
<1>3. CASE operator = "GT"
  <2>1. Negation(operator) = "LTE" /\ Mirror(operator) = "LT"
    BY <1>3 DEF Negation, Mirror
  <2> QED
    BY <1>1, <1>2, <1>3, <2>1
<1>4. CASE operator = "LTE"
  <2>1. Negation(operator) = "GT" /\ Mirror(operator) = "GTE"
    BY <1>4 DEF Negation, Mirror
  <2> QED
    BY <1>1, <1>2, <1>4, <2>1
<1>5. CASE operator = "LT"
  <2>1. Negation(operator) = "GTE" /\ Mirror(operator) = "GT"
    BY <1>5 DEF Negation, Mirror
  <2> QED
    BY <1>1, <1>2, <1>5, <2>1
<1>6. CASE operator = "GTE"
  <2>1. Negation(operator) = "LT" /\ Mirror(operator) = "LTE"
    BY <1>6 DEF Negation, Mirror
  <2> QED
    BY <1>1, <1>2, <1>6, <2>1
<1>7. CASE operator = "EQ"
  <2>1. Negation(operator) = "NE" /\ Mirror(operator) = "EQ"
    BY <1>7 DEF Negation, Mirror
  <2> QED
    BY <1>1, <1>2, <1>7, <2>1
<1>8. CASE operator = "NE"
  <2>1. Negation(operator) = "EQ" /\ Mirror(operator) = "NE"
    BY <1>8 DEF Negation, Mirror
  <2> QED
    BY <1>1, <1>2, <1>8, <2>1
<1> QED
  BY <1>3, <1>4, <1>5, <1>6, <1>7, <1>8

-----------------------------------------------------------------------------
(* Verdicts of a few checks.                                                 *)

LEMMA VerdictOfFour ==
  ASSUME NEW a, NEW b, NEW c, NEW d
  PROVE  /\ Verdict(<<a, b, c, d>>) = "VERIFIED" => \A x \in {a, b, c, d} : x = "CONFIRMED"
         /\ Verdict(<<a, b, c, d>>) = "FAILED" => "REFUTED" \in {a, b, c, d}
         /\ "REFUTED" \in {a, b, c, d} /\ "UNREADABLE" \notin {a, b, c, d}
              => Verdict(<<a, b, c, d>>) = "FAILED"
<1> DEFINE checks == <<a, b, c, d>>
<1>1. /\ DOMAIN checks = 1..4
      /\ checks[1] = a /\ checks[2] = b /\ checks[3] = c /\ checks[4] = d
  OBVIOUS
<1>2. \A x : x \in {a, b, c, d} <=> \E i \in DOMAIN checks : checks[i] = x
  <2> HIDE DEF checks
  <2> QED
    BY <1>1
<1> HIDE DEF checks
<1>3. 1..4 \subseteq Int
  OBVIOUS
<1>4. /\ Verdict(checks) = "VERIFIED" => \A i \in DOMAIN checks : checks[i] = "CONFIRMED"
      /\ Verdict(checks) = "FAILED" => \E i \in DOMAIN checks : checks[i] = "REFUTED"
      /\ (\E i \in DOMAIN checks : checks[i] = "REFUTED")
            /\ (\A i \in DOMAIN checks : checks[i] # "UNREADABLE")
         => Verdict(checks) = "FAILED"
  BY <1>1, <1>3 DEF Verdict
<1> QED
  BY <1>2, <1>4 DEF checks

LEMMA VerdictOfFive ==
  ASSUME NEW a, NEW b, NEW c, NEW d, NEW e
  PROVE  /\ Verdict(<<a, b, c, d, e>>) = "VERIFIED" => \A x \in {a, b, c, d, e} : x = "CONFIRMED"
         /\ Verdict(<<a, b, c, d, e>>) = "FAILED" => "REFUTED" \in {a, b, c, d, e}
         /\ "REFUTED" \in {a, b, c, d, e} /\ "UNREADABLE" \notin {a, b, c, d, e}
              => Verdict(<<a, b, c, d, e>>) = "FAILED"
<1> DEFINE checks == <<a, b, c, d, e>>
<1>1. /\ DOMAIN checks = 1..5
      /\ checks[1] = a /\ checks[2] = b /\ checks[3] = c /\ checks[4] = d /\ checks[5] = e
  OBVIOUS
<1>2. \A x : x \in {a, b, c, d, e} <=> \E i \in DOMAIN checks : checks[i] = x
  <2> HIDE DEF checks
  <2> QED
    BY <1>1
<1> HIDE DEF checks
<1>3. 1..5 \subseteq Int
  OBVIOUS
<1>4. /\ Verdict(checks) = "VERIFIED" => \A i \in DOMAIN checks : checks[i] = "CONFIRMED"
      /\ Verdict(checks) = "FAILED" => \E i \in DOMAIN checks : checks[i] = "REFUTED"
      /\ (\E i \in DOMAIN checks : checks[i] = "REFUTED")
            /\ (\A i \in DOMAIN checks : checks[i] # "UNREADABLE")
         => Verdict(checks) = "FAILED"
  BY <1>1, <1>3 DEF Verdict
<1> QED
  BY <1>2, <1>4 DEF checks

LEMMA VerdictOfSeven ==
  ASSUME NEW a, NEW b, NEW c, NEW d, NEW e, NEW f, NEW g
  PROVE  /\ Verdict(<<a, b, c, d, e, f, g>>) = "VERIFIED" => \A x \in {a, b, c, d, e, f, g} : x = "CONFIRMED"
         /\ Verdict(<<a, b, c, d, e, f, g>>) = "FAILED" => "REFUTED" \in {a, b, c, d, e, f, g}
         /\ "REFUTED" \in {a, b, c, d, e, f, g} /\ "UNREADABLE" \notin {a, b, c, d, e, f, g}
              => Verdict(<<a, b, c, d, e, f, g>>) = "FAILED"
<1> DEFINE checks == <<a, b, c, d, e, f, g>>
<1>1. /\ DOMAIN checks = 1..7
      /\ checks[1] = a /\ checks[2] = b /\ checks[3] = c /\ checks[4] = d /\ checks[5] = e /\ checks[6] = f /\ checks[7] = g
  OBVIOUS
<1>2. \A x : x \in {a, b, c, d, e, f, g} <=> \E i \in DOMAIN checks : checks[i] = x
  <2> HIDE DEF checks
  <2> QED
    BY <1>1
<1> HIDE DEF checks
<1>3. 1..7 \subseteq Int
  OBVIOUS
<1>4. /\ Verdict(checks) = "VERIFIED" => \A i \in DOMAIN checks : checks[i] = "CONFIRMED"
      /\ Verdict(checks) = "FAILED" => \E i \in DOMAIN checks : checks[i] = "REFUTED"
      /\ (\E i \in DOMAIN checks : checks[i] = "REFUTED")
            /\ (\A i \in DOMAIN checks : checks[i] # "UNREADABLE")
         => Verdict(checks) = "FAILED"
  BY <1>1, <1>3 DEF Verdict
<1> QED
  BY <1>2, <1>4 DEF checks

LEMMA VerdictOfEight ==
  ASSUME NEW a, NEW b, NEW c, NEW d, NEW e, NEW f, NEW g, NEW h
  PROVE  /\ Verdict(<<a, b, c, d, e, f, g, h>>) = "VERIFIED" => \A x \in {a, b, c, d, e, f, g, h} : x = "CONFIRMED"
         /\ Verdict(<<a, b, c, d, e, f, g, h>>) = "FAILED" => "REFUTED" \in {a, b, c, d, e, f, g, h}
         /\ "REFUTED" \in {a, b, c, d, e, f, g, h} /\ "UNREADABLE" \notin {a, b, c, d, e, f, g, h}
              => Verdict(<<a, b, c, d, e, f, g, h>>) = "FAILED"
<1> DEFINE checks == <<a, b, c, d, e, f, g, h>>
<1>1. /\ DOMAIN checks = 1..8
      /\ checks[1] = a /\ checks[2] = b /\ checks[3] = c /\ checks[4] = d /\ checks[5] = e /\ checks[6] = f /\ checks[7] = g /\ checks[8] = h
  OBVIOUS
<1>2. \A x : x \in {a, b, c, d, e, f, g, h} <=> \E i \in DOMAIN checks : checks[i] = x
  <2> HIDE DEF checks
  <2> QED
    BY <1>1
<1> HIDE DEF checks
<1>3. 1..8 \subseteq Int
  OBVIOUS
<1>4. /\ Verdict(checks) = "VERIFIED" => \A i \in DOMAIN checks : checks[i] = "CONFIRMED"
      /\ Verdict(checks) = "FAILED" => \E i \in DOMAIN checks : checks[i] = "REFUTED"
      /\ (\E i \in DOMAIN checks : checks[i] = "REFUTED")
            /\ (\A i \in DOMAIN checks : checks[i] # "UNREADABLE")
         => Verdict(checks) = "FAILED"
  BY <1>1, <1>3 DEF Verdict
<1> QED
  BY <1>2, <1>4 DEF checks

-----------------------------------------------------------------------------
(* Existence.                                                                *)

\* What OFFSET and LIMIT leave of nothing is nothing; without an OFFSET and with
\* some LIMIT, what they leave of something is something.
LEMMA PageIsEmpty ==
  ASSUME NEW block, IsSequence(block.all),
         block.offset \in Nat \cup {NULL}, block.limit \in Nat \cup {NULL}
  PROVE  /\ Page(block) # <<>> => block.all # <<>>
         /\ Page(block) = <<>> /\ block.offset = NULL /\ block.limit # 0 => block.all = <<>>
<1> DEFINE n == Len(block.all)
           skipped == IF block.offset = NULL THEN 0 ELSE block.offset
           end == IF block.limit = NULL THEN n ELSE skipped + block.limit
           last == Min({end, n})
<1>1. block.all \in Seq(Range(block.all)) /\ n \in Nat
  BY LenProperties DEF IsSequence
<1>2. skipped \in Nat /\ end \in Nat
  BY <1>1
<1>3. Page(block) = SubSeq(block.all, skipped + 1, last)
  BY DEF Page
<1> HIDE DEF skipped
<1>4. last \in {end, n} /\ last <= end /\ last <= n
  <2>1. \E x \in {end, n} : \A y \in {end, n} : x <= y
    <3>1. end <= n \/ n <= end
      BY <1>1, <1>2
    <3> QED
      BY <1>1, <1>2, <3>1
  <2> QED
    BY <2>1 DEF Min
<1> HIDE DEF end, last
<1>5. last \in 0..n
  BY <1>1, <1>2, <1>4
<1>6. Len(Page(block)) = IF skipped + 1 <= last THEN last - skipped ELSE 0
  BY <1>1, <1>2, <1>3, <1>5, SubSeqProperties
<1>7. Page(block) \in Seq(Range(block.all))
  BY <1>1, <1>2, <1>3, <1>5, SubSeqProperties
<1>8. ASSUME block.all = <<>>
      PROVE  Page(block) = <<>>
  <2>1. n = 0
    BY <1>8
  <2>2. Len(Page(block)) = 0
    BY <1>2, <1>5, <1>6, <2>1
  <2> QED
    BY <1>7, <2>2, EmptySeq
<1>9. ASSUME Page(block) = <<>>, block.offset = NULL, block.limit # 0
      PROVE  block.all = <<>>
  <2>1. skipped = 0 /\ Len(Page(block)) = 0
    BY <1>9 DEF skipped
  <2>2. last = 0
    BY <1>5, <1>6, <2>1
  <2>3. end = 0 => n = 0
    BY <1>1, <1>9, <2>1, NullAssumption DEF end
  <2>4. n = 0
    BY <1>4, <2>2, <2>3
  <2> QED
    BY <1>1, <2>4, EmptySeq
<1> QED
  BY <1>8, <1>9

\* An existence claim is VERIFIED only by rows that show it, by the absence of any
\* row to select (but for a LIMIT 0), or by one count or flag that says so.
THEOREM ExistenceIsShown == Spec => []ExistenceIsSound
<1>1. Judged => ExistenceIsSound
  <2> SUFFICES ASSUME Judged, Verified("EXISTENCE")
               PROVE  ExistenceIsSound
    BY DEF ExistenceIsSound
  <2>1. Tabular(claim.cited) /\ ExistenceVerdict(claim) = "VERIFIED"
    BY GivenClaim DEF Verified, ClaimType
  <2>2. \A i \in DOMAIN claim.cited :
          /\ claim.cited[i].rows = Page(claim.cited[i])
          /\ claim.cited[i].rows # <<>> => claim.cited[i].all # <<>>
          /\ claim.cited[i].rows = <<>> /\ claim.cited[i].offset = NULL /\ claim.cited[i].limit # 0
               => claim.cited[i].all = <<>>
    <3>1. claim \in ExistenceClaims
      BY GivenClaim DEF Verified
    <3> QED
      BY <3>1, ExistenceAssumption, PageIsEmpty
  <2>3. ASSUME ~OffsetHides(claim)
        PROVE  ~claim.spec.exists => \A i \in DOMAIN claim.cited : claim.cited[i].offset = NULL
    BY <2>3 DEF OffsetHides
  <2>4. CASE claim.spec.by = "rows"
    <3> DEFINE some == \E i \in DOMAIN claim.cited : claim.cited[i].rows # <<>>
               a == Contract(claim)
               b == Check(~OffsetHides(claim))
               c == Check(some = claim.spec.exists)
               d == IF claim.spec.exists THEN SubjectCheck(claim, "REFUTED") ELSE "CONFIRMED"
    <3>1. Verdict(<<a, b, c, d>>) = "VERIFIED"
      BY <2>1, <2>4 DEF ExistenceVerdict, ByRows
    <3>2. b = "CONFIRMED" /\ c = "CONFIRMED" /\ d = "CONFIRMED"
      <4> HIDE DEF a, b, c, d
      <4> QED
        BY <3>1, VerdictOfFour
    <3>3. ~OffsetHides(claim) /\ some = claim.spec.exists
      BY <3>2 DEF Check
    <3>4. claim.spec.exists => SubjectCheck(claim, "REFUTED") = "CONFIRMED"
      BY <3>2
    <3>5. claim.spec.exists =>
            /\ \E i \in DOMAIN claim.cited : claim.cited[i].all # <<>>
            /\ claim.subject # NULL /\ ~claim.pinned => Holding(claim.cited, claim.subject) # {}
      BY <2>2, <3>3, <3>4 DEF SubjectCheck
    <3>6. ~claim.spec.exists =>
            \A i \in DOMAIN claim.cited : claim.cited[i].limit # 0 => claim.cited[i].all = <<>>
      BY <2>2, <2>3, <3>3
    <3> QED
      BY <2>3, <2>4, <3>3, <3>5, <3>6 DEF ExistenceIsSound
  <2>5. CASE claim.spec.by # "rows"
    <3> DEFINE records == Records(claim.cited, {"value"})
               cell == At(claim.cited, First(records))
               shows == {i \in DOMAIN claim.cited : claim.cited[i].cols["value"] # "none"}
               a == Contract(claim)
               b == Check(~OffsetHides(claim))
               c == Need(claim.spec.column)
               d == Columns(claim.cited, {"value"})
               e == Check(/\ Only(records)
                          /\ cell.value # NULL
                          /\ cell.flag <=> claim.spec.by = "boolean"
                          /\ cell.value >= 0
                          /\ (cell.value > 0) = claim.spec.exists)
    <3>1. Verdict(<<a, b, c, d, e>>) = "VERIFIED"
      BY <2>1, <2>5 DEF ExistenceVerdict, ByValue
    <3>2. /\ ~OffsetHides(claim) /\ Only(records) /\ cell.value # NULL
          /\ cell.flag <=> claim.spec.by = "boolean"
          /\ (cell.value > 0) = claim.spec.exists
      <4>1. b = "CONFIRMED" /\ e = "CONFIRMED"
        <5> HIDE DEF a, b, c, d, e
        <5> QED
          BY <3>1, VerdictOfFive
      <4> QED
        BY <4>1 DEF Check
    <3>3. shows = Readable(claim.cited, {"value"})
      BY DEF Readable, Resolves
    <3>4. PICK i \in shows : /\ Len(claim.cited[i].rows) = 1
                             /\ cell = claim.cited[i].rows[1]
                             /\ \A j \in shows \ {i} : claim.cited[j].rows = <<>>
      BY <2>1, <3>2, <3>3, OneRow
    <3> HIDE DEF cell
    <3>5. OneCell
      BY <3>2, <3>4 DEF OneCell
    <3>6. ~claim.spec.exists => \A l \in DOMAIN claim.cited : claim.cited[l].offset = NULL
      BY <2>3, <3>2
    <3> HIDE DEF records, shows, a, b, c, d, e
    <3> QED
      BY <2>5, <3>5, <3>6, Zenon DEF ExistenceIsSound
  <2> QED
    BY <2>4, <2>5
<1> QED
  BY <1>1, ClaimsAreJudged, PTL

-----------------------------------------------------------------------------
(* Comparison.                                                               *)

\* The last check of a comparison, of values that are numbers.
LEMMA ComparedValues ==
  ASSUME NEW c, Tabular(c.cited)
  PROVE  LET lefts == With(c.cited, Records(c.cited, Both), c.spec.left)
             rights == With(c.cited, Records(c.cited, Both), c.spec.right)
             left == At(c.cited, First(lefts)).value
             right == At(c.cited, First(rights)).value
         IN  /\ Compared(c) => /\ Only(lefts) /\ Only(rights)
                               /\ left \in Int /\ right \in Int
                               /\ NumbersEqual(left, c.spec.leftValue)
                               /\ NumbersEqual(right, c.spec.rightValue)
                               /\ Relation(left, c.spec.operator, right)
             /\ /\ Only(lefts) /\ Only(rights) /\ c.spec.mode = "none"
                /\ NumbersEqual(left, c.spec.leftValue)
                /\ NumbersEqual(right, c.spec.rightValue)
                /\ Relation(left, c.spec.operator, right)
                => Compared(c)
<1> DEFINE lefts == With(c.cited, Records(c.cited, Both), c.spec.left)
           rights == With(c.cited, Records(c.cited, Both), c.spec.right)
           left == At(c.cited, First(lefts)).value
           right == At(c.cited, First(rights)).value
<1>1. Compared(c) <=>
        /\ Only(lefts) /\ Only(rights)
        /\ NumbersEqual(left, c.spec.leftValue) /\ NumbersEqual(right, c.spec.rightValue)
        /\ Relation(left, c.spec.operator, right)
        /\ \/ c.spec.mode = "none"
           \/ /\ ChangeDefined(right, c.spec.mode)
              /\ ReportedNumbersEqual(DerivedChange(right, left, c.spec.mode), c.spec.delta)
  BY Zenon DEF Compared
<1>2. lefts \subseteq Places(c.cited) /\ rights \subseteq Places(c.cited)
  BY DEF With, Records
<1>3. Only(lefts) => First(lefts) \in Places(c.cited)
  BY <1>2, OnlyOne
<1>4. Only(rights) => First(rights) \in Places(c.cited)
  BY <1>2, OnlyOne
<1>5. Only(lefts) /\ left # NULL => left \in Int
  BY <1>3, PlacesOfRows
<1>6. Only(rights) /\ right # NULL => right \in Int
  BY <1>4, PlacesOfRows
<1>7. /\ NumbersEqual(left, c.spec.leftValue) => left # NULL
      /\ NumbersEqual(right, c.spec.rightValue) => right # NULL
  BY DEF NumbersEqual
<1> HIDE DEF lefts, rights, left, right
<1>8. /\ Compared(c) => /\ Only(lefts) /\ Only(rights)
                        /\ left \in Int /\ right \in Int
                        /\ NumbersEqual(left, c.spec.leftValue)
                        /\ NumbersEqual(right, c.spec.rightValue)
                        /\ Relation(left, c.spec.operator, right)
      /\ /\ Only(lefts) /\ Only(rights) /\ c.spec.mode = "none"
         /\ NumbersEqual(left, c.spec.leftValue)
         /\ NumbersEqual(right, c.spec.rightValue)
         /\ Relation(left, c.spec.operator, right)
         => Compared(c)
  BY <1>1, <1>5, <1>6, <1>7
<1> QED
  BY <1>8 DEF lefts, rights, left, right

\* A comparison and its negation are not both compared as declared.
LEMMA NegationIsRefuted ==
  ASSUME NEW c, NEW d, Tabular(c.cited), ComparisonVerdict(c) = "VERIFIED",
         c.spec.operator \in {"GT", "GTE", "LT", "LTE", "EQ", "NE"},
         d.contract = c.contract, d.listed = c.listed, d.cited = c.cited,
         d.spec.left = c.spec.left, d.spec.right = c.spec.right,
         d.spec.operator = Negation(c.spec.operator)
  PROVE  ComparisonVerdict(d) = "FAILED"
<1> DEFINE t == Contract(c)
           u == Check(~ValuesEqual(c.spec.left, c.spec.right))
           v == Doubt(c.listed)
           w == Columns(c.cited, Both)
           x == Check(Compared(c))
           y == Check(Compared(d))
<1>1. Verdict(<<t, u, v, w, x>>) = "VERIFIED"
  BY DEF ComparisonVerdict
<1>2. ComparisonVerdict(d) = Verdict(<<t, u, v, w, y>>)
  <2>1. Contract(d) = Contract(c)
    BY DEF Contract
  <2> QED
    BY <2>1 DEF ComparisonVerdict
<1>3. x = "CONFIRMED" => Compared(c)
  BY DEF Check
<1>4. Compared(c) => ~Compared(d)
  <2> DEFINE left == At(c.cited, First(With(c.cited, Records(c.cited, Both), c.spec.left))).value
             right == At(c.cited, First(With(c.cited, Records(c.cited, Both), c.spec.right))).value
  <2>1. Compared(c) => left \in Int /\ right \in Int /\ Relation(left, c.spec.operator, right)
    BY ComparedValues, Zenon
  <2>2. Compared(d) => Relation(left, Negation(c.spec.operator), right)
    <3>1. Tabular(d.cited)
      OBVIOUS
    <3>2. Compared(d) =>
            Relation(At(d.cited, First(With(d.cited, Records(d.cited, Both), d.spec.left))).value,
                     d.spec.operator,
                     At(d.cited, First(With(d.cited, Records(d.cited, Both), d.spec.right))).value)
      BY <3>1, ComparedValues, Zenon
    <3> QED
      BY <3>2
  <2> HIDE DEF left, right
  <2> QED
    BY <2>1, <2>2, Relations
<1>5. ~Compared(d) => y = "REFUTED"
  BY DEF Check
<1> HIDE DEF t, u, v, w, x, y
<1>6. t = "CONFIRMED" /\ u = "CONFIRMED" /\ v = "CONFIRMED" /\ w = "CONFIRMED" /\ x = "CONFIRMED"
  BY <1>1, VerdictOfFive
<1>7. y = "REFUTED"
  BY <1>3, <1>4, <1>5, <1>6
<1>8. Verdict(<<t, u, v, w, y>>) = "FAILED"
  BY <1>6, <1>7, VerdictOfFive
<1> QED
  BY <1>2, <1>8

\* From the other side, a comparison of the same values has the same verdict.
LEMMA MirrorIsTheSame ==
  ASSUME NEW c, NEW d, Tabular(c.cited), c.spec.mode = "none", d.spec.mode = "none",
         c.spec.operator \in {"GT", "GTE", "LT", "LTE", "EQ", "NE"},
         c.spec.left \in Int, c.spec.right \in Int,
         d.contract = c.contract, d.listed = c.listed, d.cited = c.cited,
         d.spec.left = c.spec.right, d.spec.right = c.spec.left,
         d.spec.leftValue = c.spec.rightValue, d.spec.rightValue = c.spec.leftValue,
         d.spec.operator = Mirror(c.spec.operator)
  PROVE  ComparisonVerdict(d) = ComparisonVerdict(c)
<1> DEFINE lefts == With(c.cited, Records(c.cited, Both), c.spec.left)
           rights == With(c.cited, Records(c.cited, Both), c.spec.right)
           left == At(c.cited, First(lefts)).value
           right == At(c.cited, First(rights)).value
           operator == c.spec.operator
<1>1. /\ Compared(c) => /\ Only(lefts) /\ Only(rights) /\ left \in Int /\ right \in Int
                        /\ NumbersEqual(left, c.spec.leftValue)
                        /\ NumbersEqual(right, c.spec.rightValue)
                        /\ Relation(left, operator, right)
      /\ /\ Only(lefts) /\ Only(rights)
         /\ NumbersEqual(left, c.spec.leftValue) /\ NumbersEqual(right, c.spec.rightValue)
         /\ Relation(left, operator, right)
         => Compared(c)
  BY ComparedValues, Zenon
<1>2. /\ Compared(d) => /\ Only(rights) /\ Only(lefts) /\ right \in Int /\ left \in Int
                        /\ NumbersEqual(right, c.spec.rightValue)
                        /\ NumbersEqual(left, c.spec.leftValue)
                        /\ Relation(right, Mirror(operator), left)
      /\ /\ Only(rights) /\ Only(lefts)
         /\ NumbersEqual(right, c.spec.rightValue) /\ NumbersEqual(left, c.spec.leftValue)
         /\ Relation(right, Mirror(operator), left)
         => Compared(d)
  <2> DEFINE l == With(d.cited, Records(d.cited, Both), d.spec.left)
             r == With(d.cited, Records(d.cited, Both), d.spec.right)
             lv == At(d.cited, First(l)).value
             rv == At(d.cited, First(r)).value
  <2>1. Tabular(d.cited)
    OBVIOUS
  <2>2. /\ Compared(d) => /\ Only(l) /\ Only(r) /\ lv \in Int /\ rv \in Int
                          /\ NumbersEqual(lv, d.spec.leftValue)
                          /\ NumbersEqual(rv, d.spec.rightValue)
                          /\ Relation(lv, d.spec.operator, rv)
        /\ /\ Only(l) /\ Only(r)
           /\ NumbersEqual(lv, d.spec.leftValue) /\ NumbersEqual(rv, d.spec.rightValue)
           /\ Relation(lv, d.spec.operator, rv)
           => Compared(d)
    BY <2>1, ComparedValues, Zenon
  <2>3. l = rights /\ r = lefts
    OBVIOUS
  <2>4. lv = right /\ rv = left
    BY <2>3
  <2> HIDE DEF l, r, lv, rv
  <2> HIDE DEF lefts, rights, left, right
  <2> QED
    BY <2>2, <2>3, <2>4
<1> HIDE DEF lefts, rights, left, right
<1>3. Compared(c) <=> Compared(d)
  BY <1>1, <1>2, Relations
<1>4. Check(Compared(c)) = Check(Compared(d))
  BY <1>3 DEF Check
<1>5. /\ Contract(d) = Contract(c)
      /\ Check(~ValuesEqual(d.spec.left, d.spec.right))
           = Check(~ValuesEqual(c.spec.left, c.spec.right))
  <2>1. ValuesEqual(d.spec.left, d.spec.right) <=> ValuesEqual(c.spec.left, c.spec.right)
    <3>1. ValuesEqual(c.spec.right, c.spec.left) <=> ValuesEqual(c.spec.left, c.spec.right)
      BY SameBothWays
    <3> QED
      BY <3>1
  <2> QED
    BY <2>1 DEF Contract, Check
<1> QED
  BY <1>4, <1>5 DEF ComparisonVerdict

\* A VERIFIED comparison is of two subjects with one row each, its negation is
\* FAILED over the same evidence, and its mirror image gets the same verdict.
THEOREM ComparisonsAreDecided == Spec => []ComparisonIsSound
<1>1. Judged => ComparisonIsSound
  <2> SUFFICES ASSUME Judged, kind = "COMPARISON"
               PROVE  ComparisonIsSound
    BY DEF ComparisonIsSound, Verified
  <2>1. /\ Tabular(claim.cited) /\ {"contract", "spec", "cited"} \subseteq DOMAIN claim
        /\ {"left", "right", "operator", "leftValue", "rightValue"} \subseteq DOMAIN claim.spec
        /\ claim.spec.left \in Int /\ claim.spec.right \in Int
        /\ claim.spec.operator \in {"GT", "GTE", "LT", "LTE", "EQ", "NE"}
        /\ status \in {"NOT_VERIFIED", ComparisonVerdict(claim)}
    BY GivenClaim, ComparisonAssumption DEF ClaimType
  <2>2. ASSUME Verified("COMPARISON")
        PROVE  /\ Occurrences(claim.spec.left) = 1 /\ Occurrences(claim.spec.right) = 1
               /\ ComparisonVerdict([claim EXCEPT !.spec.operator =
                                       Negation(claim.spec.operator)]) = "FAILED"
    <3> DEFINE d == [claim EXCEPT !.spec.operator = Negation(claim.spec.operator)]
               a == Contract(claim)
               b == Check(~ValuesEqual(claim.spec.left, claim.spec.right))
               c == Doubt(claim.listed)
               e == Columns(claim.cited, Both)
               f == Check(Compared(claim))
    <3>1. ComparisonVerdict(claim) = "VERIFIED"
      BY <2>1, <2>2 DEF Verified
    <3>2. Verdict(<<a, b, c, e, f>>) = "VERIFIED"
      BY <3>1 DEF ComparisonVerdict
    <3>3. Compared(claim)
      <4>1. f = "CONFIRMED"
        <5> HIDE DEF a, b, c, e, f
        <5> QED
          BY <3>2, VerdictOfFive
      <4> QED
        BY <4>1 DEF Check
    <3>4. /\ Only(With(claim.cited, Records(claim.cited, Both), claim.spec.left))
          /\ Only(With(claim.cited, Records(claim.cited, Both), claim.spec.right))
      BY <2>1, <3>3, ComparedValues, Zenon
    <3>5. Occurrences(claim.spec.left) = 1 /\ Occurrences(claim.spec.right) = 1
      BY <2>1, <3>4, OnlyOne, RowsAreRecords
    <3>6. /\ d.contract = claim.contract /\ d.listed = claim.listed /\ d.cited = claim.cited
          /\ d.spec.left = claim.spec.left /\ d.spec.right = claim.spec.right
          /\ d.spec.operator = Negation(claim.spec.operator)
      BY <2>1
    <3> HIDE DEF d
    <3>7. ComparisonVerdict(d) = "FAILED"
      BY <2>1, <3>1, <3>6, NegationIsRefuted
    <3> QED
      BY <3>5, <3>7 DEF d
  <2>3. ASSUME status # "NOT_VERIFIED", claim.spec.mode = "none"
        PROVE  ComparisonVerdict(Mirrored) = status
    <3>1. /\ Mirrored.contract = claim.contract /\ Mirrored.listed = claim.listed
          /\ Mirrored.cited = claim.cited /\ Mirrored.spec.mode = claim.spec.mode
          /\ Mirrored.spec.left = claim.spec.right /\ Mirrored.spec.right = claim.spec.left
          /\ Mirrored.spec.leftValue = claim.spec.rightValue
          /\ Mirrored.spec.rightValue = claim.spec.leftValue
          /\ Mirrored.spec.operator = Mirror(claim.spec.operator)
      <4> DEFINE s == [claim.spec EXCEPT !.left = claim.spec.right,
                                         !.right = claim.spec.left,
                                         !.leftValue = claim.spec.rightValue,
                                         !.rightValue = claim.spec.leftValue,
                                         !.operator = Mirror(claim.spec.operator)]
      <4>1. /\ s.mode = claim.spec.mode /\ s.left = claim.spec.right /\ s.right = claim.spec.left
            /\ s.leftValue = claim.spec.rightValue /\ s.rightValue = claim.spec.leftValue
            /\ s.operator = Mirror(claim.spec.operator)
        BY <2>1
      <4>2. Mirrored = [claim EXCEPT !.spec = s]
        BY DEF Mirrored
      <4> HIDE DEF s
      <4>3. /\ Mirrored.contract = claim.contract /\ Mirrored.listed = claim.listed
            /\ Mirrored.cited = claim.cited /\ Mirrored.spec = s
        BY <2>1, <4>2
      <4> QED
        BY <4>1, <4>3
    <3> HIDE DEF Mirrored
    <3>2. ComparisonVerdict(Mirrored) = ComparisonVerdict(claim)
      BY <2>1, <2>3, <3>1, MirrorIsTheSame
    <3> QED
      BY <2>1, <2>3, <3>2
  <2> QED
    BY <2>2, <2>3 DEF ComparisonIsSound
<1> QED
  BY <1>1, ClaimsAreJudged, PTL

-----------------------------------------------------------------------------
(* Aggregation.                                                              *)

\* A VERIFIED aggregate is computed by every block that shows its column and has,
\* of its group if one of these is grouped, one row in all of them, with its value.
THEOREM AggregatesAreComputed == Spec => []AggregationIsSound
<1>1. Judged => AggregationIsSound
  <2> SUFFICES ASSUME Judged, Verified("AGGREGATION")
               PROVE  AggregationIsSound
    BY DEF AggregationIsSound
  <2> DEFINE spec == claim.spec
             cited == claim.cited
             relevant == Readable(cited, {"value"})
             grouped == \E i \in relevant : cited[i].grouped
             columns == IF grouped THEN Both ELSE {"value"}
             records == Records(cited, columns)
             matches == IF grouped THEN With(cited, records, claim.selector) ELSE records
             actual == At(cited, First(matches)).value
             a == Contract(claim)
             b == Need(relevant # {})
             c == Check(\A i \in relevant : cited[i].computes)
             d == Doubt(spec.scope = IF grouped THEN "grouped" ELSE "scalar")
             e == Need(grouped => claim.selector # NULL)
             f == Columns(cited, columns)
             g == Check(/\ Only(matches)
                        /\ NumbersEqual(actual, spec.expected)
                        /\ spec.operation = "COUNT" \/ spec.nonNegative => actual >= 0)
             shows == {i \in DOMAIN cited : cited[i].cols["value"] # "none"}
  <2>1. Tabular(cited) /\ AggregationVerdict(claim) = "VERIFIED"
    BY GivenClaim DEF Verified, ClaimType
  <2>2. Verdict(<<a, b, c, d, e, f, g>>) = "VERIFIED"
    BY <2>1 DEF AggregationVerdict
  <2>3. b = "CONFIRMED" /\ c = "CONFIRMED" /\ e = "CONFIRMED" /\ g = "CONFIRMED"
    <3> HIDE DEF a, b, c, d, e, f, g
    <3> QED
      BY <2>2, VerdictOfSeven
  <2>4. relevant # {} /\ \A i \in relevant : cited[i].computes
    BY <2>3 DEF Need, Check
  <2>5. grouped => claim.selector # NULL
    <3> HIDE DEF grouped
    <3> QED
      BY <2>3 DEF Need
  <2>6. Only(matches) /\ NumbersEqual(actual, spec.expected)
    BY <2>3, Zenon DEF Check
  <2>7. relevant = shows
    BY DEF Readable, Resolves
  <2>8. ASSUME grouped
        PROVE  /\ Occurrences(claim.selector) = 1
               /\ \A r \in RowsFor(claim.selector) : NumbersEqual(r.value, spec.expected)
    <3>1. matches = With(cited, Records(cited, Both), claim.selector)
      BY <2>8
    <3> HIDE DEF matches, grouped
    <3>2. matches = {First(matches)} /\ Cardinality(matches) = 1
      BY <2>6, OnlyOne
    <3>3. Occurrences(claim.selector) = 1
      BY <2>1, <3>1, <3>2, RowsAreRecords
    <3>4. ASSUME NEW r \in RowsFor(claim.selector)
          PROVE  NumbersEqual(r.value, spec.expected)
      <4> r \in Rows /\ ValuesEqual(r.key, claim.selector)
        BY DEF RowsFor
      <4>1. PICK p \in Records(cited, Both) : r = At(cited, p)
        BY <2>1, RowsAreRecords
      <4>2. p \in matches
        BY <3>1, <3>4, <4>1 DEF With
      <4>3. p = First(matches)
        BY <3>2, <4>2
      <4> QED
        BY <2>6, <4>1, <4>3
    <3> QED
      BY <3>3, <3>4
  <2>9. ASSUME ~grouped
        PROVE  \E i \in shows : /\ Len(cited[i].rows) = 1
                                /\ NumbersEqual(cited[i].rows[1].value, spec.expected)
                                /\ \A j \in shows \ {i} : cited[j].rows = <<>>
    <3>1. matches = Records(cited, {"value"})
      BY <2>9
    <3>2. PICK i \in relevant : /\ Len(cited[i].rows) = 1
                                /\ At(cited, First(matches)) = cited[i].rows[1]
                                /\ \A j \in relevant \ {i} : cited[j].rows = <<>>
      <4> HIDE DEF matches, grouped
      <4> QED
        BY <2>1, <2>6, <3>1, OneRow
    <3> HIDE DEF matches, grouped, relevant, shows
    <3> QED
      BY <2>6, <2>7, <3>2
  <2>10. (\E i \in shows : cited[i].grouped) <=> grouped
    BY <2>7
  <2>11. shows # {} /\ \A i \in shows : cited[i].computes
    BY <2>4, <2>7
  <2> HIDE DEF grouped, relevant
  <2>12. CASE grouped
    <3>1. \E i \in shows : cited[i].grouped
      BY <2>10, <2>12
    <3> QED
      BY <2>5, <2>8, <2>11, <2>12, <3>1 DEF AggregationIsSound
  <2>13. CASE ~grouped
    <3>1. ~\E i \in shows : cited[i].grouped
      BY <2>10, <2>13
    <3> QED
      BY <2>9, <2>11, <2>13, <3>1 DEF AggregationIsSound
  <2> QED
    BY <2>12, <2>13
<1> QED
  BY <1>1, ClaimsAreJudged, PTL

-----------------------------------------------------------------------------
(* Rankings.                                                                 *)

\* If each row beats the next one, it beats all that follow.
LEMMA RanksInOrder ==
  ASSUME NEW k \in Nat, NEW rows, Len(rows) = k, NEW desc,
         \A i \in 1..k : rows[i].value \in Int \cup {NULL},
         InRankOrder(rows, desc), ~Tied(rows)
  PROVE  \A j, l \in 1..k : j < l => Beats(rows[j], rows[l], desc)
<1>1. ASSUME NEW i \in 2..k
      PROVE  /\ rows[i - 1].value \in Int /\ rows[i].value \in Int
             /\ Beats(rows[i - 1], rows[i], desc)
  <2>1. i - 1 \in 1..k /\ i \in 1..k
    OBVIOUS
  <2>2. /\ rows[i - 1].value # NULL /\ rows[i].value # NULL
        /\ IF desc THEN rows[i].value <= rows[i - 1].value
                   ELSE rows[i].value >= rows[i - 1].value
    BY DEF InRankOrder
  <2>3. rows[i].value # rows[i - 1].value
    BY <2>2 DEF Tied
  <2>4. rows[i - 1].value \in Int /\ rows[i].value \in Int
    BY <2>1, <2>2
  <2> QED
    BY <2>2, <2>3, <2>4 DEF Beats
<1> DEFINE Late == {l \in 1..k : \E j \in 1..k : j < l /\ ~Beats(rows[j], rows[l], desc)}
<1>2. ASSUME Late # {}
      PROVE  FALSE
  <2>1. PICK l \in Late : \A m \in Late : l <= m
    <3>1. Late \subseteq Nat
      OBVIOUS
    <3> HIDE DEF Late
    <3> QED
      BY <1>2, <3>1, Least
  <2>2. PICK j \in 1..k : j < l /\ ~Beats(rows[j], rows[l], desc)
    BY <2>1
  <2>3. l \in 2..k /\ l - 1 \in 1..k
    BY <2>2
  <2>4. j # l - 1
    BY <1>1, <2>2, <2>3
  <2>5. l - 1 \notin Late
    BY <2>1, <2>3
  <2>6. Beats(rows[j], rows[l - 1], desc)
    BY <2>2, <2>3, <2>4, <2>5
  <2>7. /\ Beats(rows[l - 1], rows[l], desc)
        /\ rows[l - 1].value \in Int /\ rows[l].value \in Int
    BY <1>1, <2>3
  <2>8. rows[j].value \in Int
    <3>1. j + 1 \in 2..k /\ (j + 1) - 1 = j
      BY <2>2, <2>3
    <3> QED
      BY <1>1, <3>1
  <2>9. Beats(rows[j], rows[l], desc)
    BY <2>6, <2>7, <2>8 DEF Beats
  <2> QED
    BY <2>2, <2>9
<1> QED
  BY <1>2

\* Subjects that pass are the keys of the rows, as many as there are.
LEMMA SubjectsAreKeys ==
  ASSUME NEW c, NEW rows, IsSequence(c.subjects), TopKSubjects(c, rows) = "CONFIRMED"
  PROVE  /\ Len(c.subjects) = Len(rows)
         /\ \A i \in 1..Len(rows) : ValuesEqual(c.subjects[i], rows[i].key)
<1>1. /\ Len(c.subjects) = Len(rows)
      /\ \A i \in DOMAIN c.subjects : ValuesEqual(c.subjects[i], rows[i].key)
  BY DEF TopKSubjects, Doubt
<1>2. DOMAIN c.subjects = 1..Len(c.subjects)
  BY LenProperties DEF IsSequence
<1> QED
  BY <1>1, <1>2

\* A VERIFIED ranking names the rows of each block in the order in which they beat
\* each other, and any other list of subjects that are told apart is FAILED.
THEOREM RankingsAreSound == Spec => []RankingIsSound
<1>1. Judged => RankingIsSound
  <2> SUFFICES ASSUME Judged, Verified("RANKING_TOP_K")
               PROVE  RankingIsSound
    BY DEF RankingIsSound
  <2> DEFINE cited == claim.cited
             k == claim.k
             subjects == claim.subjects
  <2>1. /\ Tabular(cited) /\ TopKVerdict(claim) = "VERIFIED"
        /\ {"k", "metric", "subjects", "cited"} \subseteq DOMAIN claim
        /\ k \in Nat /\ cited # <<>> /\ (subjects = NULL \/ IsSequence(subjects))
        /\ \A i \in DOMAIN cited : cited[i].filters # "UNREADABLE"
    BY GivenClaim, TopKAssumption DEF Verified, ClaimType
  <2>2. ASSUME NEW i \in DOMAIN cited
        PROVE  LET block == cited[i]
               IN  /\ block.rows \in Seq(Range(block.rows)) /\ Len(block.rows) = k
                   /\ TopKSubjects(claim, block.rows) = "CONFIRMED"
                   /\ IsSequence(subjects) /\ Len(subjects) = k
                   /\ \A j \in 1..k : ValuesEqual(subjects[j], block.rows[j].key)
                   /\ block.scored => /\ InRankOrder(block.rows, Descending(claim, block))
                                      /\ ~Tied(block.rows)
    <3> DEFINE block == cited[i]
               rows == block.rows
               a == TopKShape(claim, block)
               b == Doubt(Len(rows) = k)
               c == Check(\A j \in DOMAIN rows : rows[j].key # NULL)
               d == TopKSubjects(claim, rows)
               e == Check(block.scored => InRankOrder(rows, Descending(claim, block)))
               f == Doubt(block.scored => ~Tied(rows))
               g == Check(block.scored => NonNegative(rows))
               h == block.filters
    <3>1. rows \in Seq(Range(rows))
      BY <2>1, PlacesOfRows
    <3>2. TopKBlock(claim, block) = Verdict(<<a, b, c, d, e, f, g, h>>)
      BY DEF TopKBlock
    <3>3. TopKBlock(claim, block) = "VERIFIED"
      <4>1. TopKBlock(claim, block) \notin {"FAILED", "PARTIALLY_VERIFIED"}
        BY <2>1 DEF TopKVerdict
      <4>2. TopKBlock(claim, block) \in {"FAILED", "PARTIALLY_VERIFIED", "VERIFIED"}
        BY DEF TopKBlock, Verdict
      <4> QED
        BY <4>1, <4>2
    <3>4. b = "CONFIRMED" /\ d = "CONFIRMED" /\ e = "CONFIRMED" /\ f = "CONFIRMED"
      <4> HIDE DEF a, b, c, d, e, f, g, h
      <4> QED
        BY <3>2, <3>3, VerdictOfEight
    <3>5. Len(rows) = k
      BY <3>4 DEF Doubt
    <3>6. block.scored => InRankOrder(rows, Descending(claim, block)) /\ ~Tied(rows)
      BY <3>4 DEF Check, Doubt
    <3>7. IsSequence(subjects)
      BY <2>1, <3>4 DEF TopKSubjects
    <3>8. Len(subjects) = k /\ \A j \in 1..k : ValuesEqual(subjects[j], rows[j].key)
      BY <3>4, <3>5, <3>7, SubjectsAreKeys
    <3> QED
      BY <3>1, <3>4, <3>5, <3>6, <3>7, <3>8
  <2>3. ASSUME NEW i \in DOMAIN cited
        PROVE  LET block == cited[i]
               IN  /\ Len(block.rows) = k
                   /\ \A j \in 1..k : ValuesEqual(subjects[j], block.rows[j].key)
                   /\ block.scored =>
                        \A j, l \in 1..k : j < l =>
                          Beats(block.rows[j], block.rows[l], Descending(claim, block))
    <3>1. \A j \in 1..k : cited[i].rows[j].value \in Int \cup {NULL}
      <4>1. DOMAIN cited[i].rows = 1..k
        BY <2>2, LenProperties
      <4> QED
        BY <2>1, <4>1 DEF Tabular
    <3> QED
      BY <2>1, <2>2, <3>1, RanksInOrder
  <2>4. ASSUME NEW b \in DOMAIN cited, TellsApart(cited[b]), NEW p \in [1..k -> 1..k],
               [j \in 1..k |-> subjects[p[j]]] # subjects
        PROVE  TopKVerdict([claim EXCEPT !.subjects = [j \in 1..k |-> subjects[p[j]]]])
                 = "FAILED"
    <3> DEFINE other == [j \in 1..k |-> subjects[p[j]]]
               o == [claim EXCEPT !.subjects = other]
               block == cited[b]
               rows == block.rows
    <3>1. /\ o.k = k /\ o.metric = claim.metric /\ o.cited = cited /\ o.subjects = other
      BY <2>1
    <3> HIDE DEF o
    <3>2. IsSequence(subjects) /\ DOMAIN subjects = 1..k /\ Len(rows) = k
      BY <2>1, <2>2, LenProperties DEF IsSequence
    <3>3. PICK j \in 1..k : subjects[p[j]] # subjects[j]
      <4>1. subjects = [j \in 1..k |-> subjects[j]]
        BY <3>2 DEF IsSequence
      <4> QED
        BY <2>4, <4>1
    <3>4. p[j] \in 1..k /\ p[j] # j
      BY <3>3
    <3>5. ~ValuesEqual(other[j], rows[j].key)
      BY <2>4, <3>4 DEF TellsApart
    <3>6. TopKSubjects(o, rows) = "REFUTED"
      <4>1. j \in DOMAIN other
        OBVIOUS
      <4> HIDE DEF other
      <4> QED
        BY <3>1, <3>5, <4>1 DEF TopKSubjects
    <3> HIDE DEF other
    <3>7. TopKBlock(o, block) = "FAILED"
      <4> DEFINE a == TopKShape(o, block)
                 bb == Doubt(Len(rows) = o.k)
                 c == Check(\A m \in DOMAIN rows : rows[m].key # NULL)
                 d == TopKSubjects(o, rows)
                 e == Check(block.scored => InRankOrder(rows, Descending(o, block)))
                 f == Doubt(block.scored => ~Tied(rows))
                 g == Check(block.scored => NonNegative(rows))
                 h == block.filters
      <4>1. TopKBlock(o, block) = Verdict(<<a, bb, c, d, e, f, g, h>>)
        BY DEF TopKBlock
      <4>2. "UNREADABLE" \notin {a, bb, c, e, f, g}
        BY DEF TopKShape, Doubt, Check
      <4>3. h # "UNREADABLE"
        BY <2>1
      <4>4. d = "REFUTED"
        BY <3>6
      <4> HIDE DEF a, bb, c, d, e, f, g, h
      <4> QED
        BY <4>1, <4>2, <4>3, <4>4, VerdictOfEight
    <3>8. "FAILED" \in {TopKBlock(o, o.cited[i]) : i \in DOMAIN o.cited}
      BY <3>1, <3>7
    <3>9. TopKVerdict(o) = "FAILED"
      BY <3>8, Zenon DEF TopKVerdict
    <3> QED
      BY <3>9 DEF o, other
  <2> QED
    BY <2>3, <2>4 DEF RankingIsSound
<1> QED
  BY <1>1, ClaimsAreJudged, PTL

-----------------------------------------------------------------------------
(* Distribution.                                                             *)

\* What is read for each category is the one value its rows have.
LEMMA CategoriesAreRows ==
  ASSUME NEW cited, Tabular(cited), NEW records, records \subseteq Places(cited),
         Categorical(cited, records), NEW p \in records
  PROVE  LET own == With(cited, records, At(cited, p).key)
         IN  own = {p} /\ First(own) = p /\ Cardinality(own) = 1
<1> DEFINE own == With(cited, records, At(cited, p).key)
<1>1. own = {p}
  <2>1. \A q \in records : ValuesEqual(At(cited, q).key, At(cited, p).key) => p = q
    BY DEF Categorical
  <2>2. ValuesEqual(At(cited, p).key, At(cited, p).key)
    BY DEF ValuesEqual
  <2> QED
    BY <2>1, <2>2 DEF With
<1>2. Only(own)
  BY <1>1 DEF Only
<1> QED
  BY <1>1, <1>2, OnlyOne

\* A VERIFIED distribution accounts for every row, once, and its shares are of one
\* whole.
THEOREM DistributionsAreWhole == Spec => []DistributionIsSound
<1>1. Judged => DistributionIsSound
  <2> SUFFICES ASSUME Judged, Verified("DISTRIBUTION")
               PROVE  DistributionIsSound
    BY DEF DistributionIsSound
  <2> DEFINE spec == claim.spec
             cited == claim.cited
             names == DOMAIN spec.expected
             records == Records(cited, Both)
             place(k) == CanonicalKey(cited, records, k)
             value(k) == At(cited, place(k)).value
             present == {At(cited, p).key : p \in records}
             actual == [k \in present |-> value(k)]
             shown == /\ Categorical(cited, records)
                      /\ Covered(cited, records, names, spec.complete)
             values == /\ \A c \in names : /\ NumbersEqual(value(c), spec.expected[c])
                                           /\ InRange(value(c), spec.mode)
                       /\ spec.complete /\ spec.mode # "count" =>
                            /\ \A k \in DOMAIN actual : actual[k] # NULL
                            /\ NumbersEqual(Sum(actual), Whole(spec.mode))
             s == Contract(claim)
             t == Doubt(spec.complete => \A i \in DOMAIN cited : cited[i].grouped)
             u == Columns(cited, Both)
             v == Check(shown)
             w == Doubt(claim.listed)
             x == Check(shown => values)
             y == Doubt(spec.complete)
  <2>1. Tabular(cited) /\ DistributionVerdict(claim) = "VERIFIED"
    BY GivenClaim DEF Verified, ClaimType
  <2>2. Verdict(<<s, t, u, v, w, x, y>>) = "VERIFIED"
    BY <2>1, Zenon DEF DistributionVerdict
  <2>3. shown /\ values /\ spec.complete
    <3>1. v = "CONFIRMED" /\ x = "CONFIRMED" /\ y = "CONFIRMED"
      <4> HIDE DEF s, t, u, v, w, x, y
      <4> QED
        BY <2>2, VerdictOfSeven
    <3> HIDE DEF shown, values
    <3> QED
      BY <3>1 DEF Check, Doubt
  <2>4. /\ Categorical(cited, records)
        /\ \A c \in names : With(cited, records, c) # {}
        /\ \A p \in records : \E c \in names : p = place(c)
        /\ \A c \in names : NumbersEqual(value(c), spec.expected[c])
        /\ spec.mode # "count" => NumbersEqual(Sum(actual), Whole(spec.mode))
    BY <2>3, Zenon DEF Covered
  <2>5. records \subseteq Places(cited)
    BY DEF Records
  <2>6. /\ \A key : Occurrences(key) = Cardinality(With(cited, records, key))
        /\ \A r : r \in Rows <=> \E p \in records : r = At(cited, p)
    BY <2>1, RowsAreRecords
  <2>7. \A p \in records : /\ With(cited, records, At(cited, p).key) = {p}
                           /\ First(With(cited, records, At(cited, p).key)) = p
                           /\ Cardinality(With(cited, records, At(cited, p).key)) = 1
    BY <2>1, <2>4, <2>5, CategoriesAreRows, Zenon
  <2>8. \A p \in records : /\ At(cited, p).key \in present
                           /\ actual[At(cited, p).key] = At(cited, p).value
    BY <2>7 DEF CanonicalKey
  <2>9. {r.key : r \in Rows} = present
    BY <2>6
  <2>10. ASSUME NEW c \in names
         PROVE  place(c) \in records /\ Shows(At(cited, place(c)), c)
    <3> DEFINE own == With(cited, records, c)
    <3>1. own \subseteq records /\ own # {}
      BY <2>4 DEF With
    <3> HIDE DEF own, records
    <3>2. First(own) \in own
      BY <2>1, <2>5, <3>1, FirstIsThere
    <3>3. place(c) \in own
      BY <3>2 DEF own, CanonicalKey
    <3>4. ValuesEqual(At(cited, place(c)).key, c)
      BY <3>3 DEF own, With
    <3> QED
      BY <2>4, <3>1, <3>3, <3>4 DEF Shows
  <2>11. ASSUME NEW r \in Rows
         PROVE  Occurrences(r.key) = 1 /\ \E c \in names : Shows(r, c)
    <3>1. PICK p \in records : r = At(cited, p)
      BY <2>6
    <3>2. PICK c \in names : p = place(c)
      BY <2>4
    <3>3. Occurrences(r.key) = 1
      BY <2>6, <2>7, <3>1
    <3> HIDE DEF records, place
    <3> QED
      BY <2>10, <3>1, <3>2, <3>3
  <2>12. ValueOf = actual
    <3>1. ASSUME NEW c \in present
          PROVE  (CHOOSE r \in Rows : r.key = c).value = actual[c]
      <4>1. PICK p \in records : At(cited, p).key = c
        OBVIOUS
      <4>2. At(cited, p) \in Rows
        BY <2>6
      <4>3. \A r \in Rows : r.key = c => r = At(cited, p)
        <5> SUFFICES ASSUME NEW r \in Rows, r.key = c
                     PROVE  r = At(cited, p)
          OBVIOUS
        <5>1. PICK q \in records : r = At(cited, q)
          BY <2>6
        <5>2. q \in With(cited, records, At(cited, p).key)
          <6>1. At(cited, q).key = At(cited, p).key
            BY <4>1, <5>1
          <6> HIDE DEF records
          <6> QED
            BY <6>1 DEF With, ValuesEqual
        <5> QED
          BY <2>7, <5>1, <5>2
      <4>4. (CHOOSE r \in Rows : r.key = c) = At(cited, p)
        BY <4>1, <4>2, <4>3
      <4> HIDE DEF actual
      <4> QED
        BY <2>8, <4>1, <4>4
    <3>2. ValueOf = [c \in present |-> (CHOOSE r \in Rows : r.key = c).value]
      BY <2>9 DEF ValueOf
    <3>3. actual = [c \in present |-> actual[c]]
      OBVIOUS
    <3> HIDE DEF actual, present
    <3> QED
      BY <3>1, <3>2, <3>3
  <2>13. spec.mode # "count" => NumbersEqual(Sum(ValueOf), Whole(spec.mode))
    <3> HIDE DEF actual
    <3> QED
      BY <2>4, <2>12
  <2>14. ASSUME NEW c \in names
         PROVE  \E r \in Rows : Shows(r, c)
    <3> HIDE DEF records, place
    <3> QED
      BY <2>6, <2>10
  <2> QED
    BY <2>13, <2>11, <2>14 DEF DistributionIsSound
<1> QED
  BY <1>1, ClaimsAreJudged, PTL

-----------------------------------------------------------------------------
(* Trend.                                                                    *)

\* In one block, places are the numbers of its rows.
LEMMA OneSeries ==
  ASSUME NEW cited, Tabular(cited), Len(cited) = 1
  PROVE  LET n == Len(cited[1].rows)
         IN  /\ n \in Nat /\ IsFiniteSet(Places(cited))
             /\ \A p : p \in Places(cited) <=> \E j \in 1..n : p = <<1, j>>
             /\ \A j \in 1..n : At(cited, <<1, j>>) = cited[1].rows[j]
             /\ \A j, l \in 1..n : Before(<<1, j>>, <<1, l>>) <=> j < l
             /\ \A columns : Records(cited, columns)
                               = IF Resolves(cited[1], columns) THEN Places(cited) ELSE {}
<1> DEFINE n == Len(cited[1].rows)
<1>1. DOMAIN cited = {1} /\ n \in Nat /\ DOMAIN cited[1].rows = 1..n
  <2>1. DOMAIN cited = 1..1
    BY PlacesOfRows
  <2>2. DOMAIN cited = {1}
    BY <2>1
  <2> QED
    BY <2>2, PlacesOfRows
<1>2. Places(cited) = {1} \X (1..n)
  <2>1. Places(cited) = UNION {{i} \X DOMAIN cited[i].rows : i \in {1}}
    BY <1>1 DEF Places
  <2>2. {{i} \X DOMAIN cited[i].rows : i \in {1}} = {{1} \X (1..n)}
    BY <1>1
  <2> QED
    BY <2>1, <2>2
<1>3. IsFiniteSet(Places(cited))
  <2> HIDE DEF n
  <2>1. IsFiniteSet({1})
    BY FS_Singleton
  <2>2. IsFiniteSet(1..n)
    BY <1>1, FS_Interval
  <2> QED
    BY <1>2, <2>1, <2>2, FS_Product
<1>4. \A p : p \in Places(cited) <=> \E j \in 1..n : p = <<1, j>>
  BY <1>2
<1>5. \A j \in 1..n : At(cited, <<1, j>>) = cited[1].rows[j]
  BY DEF At
<1>6. \A j, l \in 1..n : Before(<<1, j>>, <<1, l>>) <=> j < l
  BY DEF Before
<1>7. ASSUME NEW columns
      PROVE  Records(cited, columns) = IF Resolves(cited[1], columns) THEN Places(cited) ELSE {}
  <2>1. \A p \in Places(cited) : p[1] = 1
    BY <1>4
  <2>2. Readable(cited, columns) = IF Resolves(cited[1], columns) THEN {1} ELSE {}
    BY <1>1 DEF Readable
  <2> QED
    BY <2>1, <2>2 DEF Records
<1> HIDE DEF n
<1> QED
  BY <1>1, <1>3, <1>4, <1>5, <1>6, <1>7 DEF n

\* Records counted once are only one.
LEMMA CountedOnce ==
  ASSUME NEW records, IsFiniteSet(records), Cardinality(records) = 1
  PROVE  Only(records) /\ First(records) \in records
<1>1. PICK p : records = {p}
  BY FS_Singleton
<1>2. Only(records)
  BY <1>1 DEF Only
<1> QED
  BY <1>2, OnlyOne

\* Numbers in the same direction, one after the other.
LEMMA Directions ==
  ASSUME NEW a \in Int, NEW b \in Int, NEW c \in Int,
         NEW direction \in {"increased", "decreased", "unchanged"}
  PROVE  /\ InDirection(direction, a, a)
         /\ InDirection(direction, a, b) /\ InDirection(direction, b, c)
              => InDirection(direction, a, c)
<1>1. CASE direction = "increased"
  BY <1>1 DEF InDirection
<1>2. CASE direction = "decreased"
  BY <1>2 DEF InDirection
<1>3. CASE direction = "unchanged"
  BY <1>3 DEF InDirection
<1> QED
  BY <1>1, <1>2, <1>3

\* If no step goes against a direction, no part of the way does.
LEMMA StepsKeepDirection ==
  ASSUME NEW m \in Nat, NEW n \in Nat, NEW rows,
         NEW direction \in {"increased", "decreased", "unchanged"},
         \A i \in m..n : rows[i].value \in Int,
         \A i \in m..n : i + 1 \in m..n =>
           InDirection(direction, rows[i].value, rows[i + 1].value)
  PROVE  \A j, l \in m..n : j <= l => InDirection(direction, rows[j].value, rows[l].value)
<1> DEFINE Late == {l \in m..n : \E j \in m..n :
                      j <= l /\ ~InDirection(direction, rows[j].value, rows[l].value)}
<1>1. ASSUME Late # {}
      PROVE  FALSE
  <2>1. PICK l \in Late : \A i \in Late : l <= i
    <3>1. Late \subseteq Nat
      OBVIOUS
    <3> HIDE DEF Late
    <3> QED
      BY <1>1, <3>1, Least
  <2>2. PICK j \in m..n : j <= l /\ ~InDirection(direction, rows[j].value, rows[l].value)
    BY <2>1
  <2>3. l \in m..n /\ rows[j].value \in Int /\ rows[l].value \in Int
    BY <2>1
  <2>4. j # l
    BY <2>2, <2>3, Directions
  <2>5. l - 1 \in m..n /\ j <= l - 1 /\ (l - 1) + 1 = l
    BY <2>2, <2>3, <2>4
  <2>6. l - 1 \notin Late
    BY <2>1, <2>5
  <2>7. /\ InDirection(direction, rows[j].value, rows[l - 1].value)
        /\ InDirection(direction, rows[l - 1].value, rows[l].value)
        /\ rows[l - 1].value \in Int
    BY <2>3, <2>5, <2>6
  <2>8. InDirection(direction, rows[j].value, rows[l].value)
    <3> DEFINE a == rows[j].value
               b == rows[l - 1].value
               c == rows[l].value
    <3>1. /\ a \in Int /\ b \in Int /\ c \in Int
          /\ InDirection(direction, a, b) /\ InDirection(direction, b, c)
      BY <2>3, <2>7
    <3> HIDE DEF a, b, c
    <3>2. InDirection(direction, a, c)
      BY <3>1, Directions
    <3> QED
      BY <3>2 DEF a, c
  <2> QED
    BY <2>2, <2>8
<1> QED
  BY <1>1

\* What a trend that holds has: endpoints that are there once, as declared.
LEMMA EndpointsOfTrend ==
  ASSUME NEW c, Tabular(c.cited), TrendHolds(c)
  PROVE  LET records == Records(c.cited, Both)
             from == First(With(c.cited, records, c.spec.start))
             to == First(With(c.cited, records, c.spec.end))
             first == At(c.cited, from).value
             last == At(c.cited, to).value
         IN  /\ With(c.cited, records, c.spec.start) = {from}
             /\ With(c.cited, records, c.spec.end) = {to}
             /\ \A p \in records : Only(With(c.cited, records, At(c.cited, p).key))
             /\ from \in records /\ to \in records
             /\ first \in Int /\ last \in Int
             /\ NumbersEqual(first, c.spec.first) /\ NumbersEqual(last, c.spec.last)
             /\ Direction(first, last) = c.spec.direction
             /\ c.spec.monotonic => Monotonic(c.cited, records, from, to, c.spec.direction)
<1> DEFINE records == Records(c.cited, Both)
           starts == With(c.cited, records, c.spec.start)
           ends == With(c.cited, records, c.spec.end)
           from == First(starts)
           to == First(ends)
           first == At(c.cited, from).value
           last == At(c.cited, to).value
<1>1. /\ TrendPeriods(c.cited, records, c.spec)
      /\ NumbersEqual(first, c.spec.first) /\ NumbersEqual(last, c.spec.last)
      /\ Direction(first, last) = c.spec.direction
      /\ c.spec.monotonic => Monotonic(c.cited, records, from, to, c.spec.direction)
  BY Zenon DEF TrendHolds, Indexes, Both
<1>2. \A p \in records : Only(With(c.cited, records, At(c.cited, p).key))
  BY <1>1 DEF TrendPeriods, Indexes
<1>3. Only(starts) /\ Only(ends)
  BY <1>1 DEF TrendPeriods, Indexes
<1>4. starts = {from} /\ ends = {to}
  BY <1>3, OnlyOne
<1>5. from \in records /\ to \in records
  <2>1. starts \subseteq records /\ ends \subseteq records
    BY DEF With
  <2> QED
    BY <1>4, <2>1
<1>6. first \in Int /\ last \in Int
  <2>1. first \in Int \cup {NULL} /\ last \in Int \cup {NULL}
    BY <1>5, PlacesOfRows DEF Records
  <2>2. first # NULL /\ last # NULL
    BY <1>1 DEF NumbersEqual
  <2> QED
    BY <2>1, <2>2
<1> QED
  BY <1>1, <1>2, <1>4, <1>5, <1>6

\* Numbers with a direction relate as it says.
LEMMA DirectionOfNumbers ==
  ASSUME NEW a \in Int, NEW b \in Int,
         NEW direction \in {"increased", "decreased", "unchanged"}
  PROVE  Direction(a, b) = direction
           <=> CASE direction = "increased" -> a < b
                 [] direction = "decreased" -> a > b
                 [] direction = "unchanged" -> a = b
<1>1. CASE direction = "increased"
  BY <1>1 DEF Direction
<1>2. CASE direction = "decreased"
  BY <1>2 DEF Direction
<1>3. CASE direction = "unchanged"
  BY <1>3 DEF Direction
<1> QED
  BY <1>1, <1>2, <1>3

\* A trend that holds has its endpoints.
LEMMA TrendHasEndpoints ==
  ASSUME Tabular(claim.cited), TrendHolds(claim),
         claim.spec.direction \in {"increased", "decreased", "unchanged"}
  PROVE  EndpointsHold
<1> DEFINE cited == claim.cited
           spec == claim.spec
           records == Records(cited, Both)
           from == First(With(cited, records, spec.start))
           to == First(With(cited, records, spec.end))
           first == At(cited, from).value
           last == At(cited, to).value
<1>1. /\ With(cited, records, spec.start) = {from} /\ With(cited, records, spec.end) = {to}
      /\ first \in Int /\ last \in Int
      /\ NumbersEqual(first, spec.first) /\ NumbersEqual(last, spec.last)
      /\ Direction(first, last) = spec.direction
  BY EndpointsOfTrend, Zenon
<1>2. Occurrences(spec.start) = 1 /\ Occurrences(spec.end) = 1
  BY <1>1, RowsAreRecords, FS_Singleton
<1>3. ASSUME NEW a \in RowsFor(spec.start), NEW b \in RowsFor(spec.end)
      PROVE  a.value = first /\ b.value = last
  <2>1. PICK p \in records : a = At(cited, p)
    BY RowsAreRecords DEF RowsFor
  <2>2. PICK q \in records : b = At(cited, q)
    BY RowsAreRecords DEF RowsFor
  <2>3. p \in With(cited, records, spec.start) /\ q \in With(cited, records, spec.end)
    BY <2>1, <2>2 DEF With, RowsFor
  <2>4. p = from /\ q = to
    BY <1>1, <2>3
  <2> QED
    BY <2>1, <2>2, <2>4
<1>4. (CASE spec.direction = "increased" -> first < last
         [] spec.direction = "decreased" -> first > last
         [] spec.direction = "unchanged" -> first = last)
  <2> DEFINE direction == spec.direction
  <2>1. /\ direction \in {"increased", "decreased", "unchanged"}
        /\ first \in Int /\ last \in Int /\ Direction(first, last) = direction
    BY <1>1
  <2> HIDE DEF first, last, direction
  <2>2. (CASE direction = "increased" -> first < last
           [] direction = "decreased" -> first > last
           [] direction = "unchanged" -> first = last)
    BY <2>1, DirectionOfNumbers
  <2> QED
    BY <2>2 DEF direction
<1> HIDE DEF first, last
<1>5. ASSUME NEW a \in RowsFor(spec.start), NEW b \in RowsFor(spec.end)
      PROVE  /\ NumbersEqual(a.value, spec.first) /\ NumbersEqual(b.value, spec.last)
             /\ CASE spec.direction = "increased" -> a.value < b.value
                  [] spec.direction = "decreased" -> a.value > b.value
                  [] spec.direction = "unchanged" -> a.value = b.value
  <2>1. a.value = first /\ b.value = last
    BY <1>3
  <2> QED
    BY <1>1, <1>4, <2>1
<1> QED
  BY <1>2, <1>5 DEF EndpointsHold

\* The periods of the one block of a trend, in order, are those of its rows.
LEMMA PeriodsInOrder ==
  ASSUME NEW c \in TrendClaims, Tabular(c.cited), Len(c.cited) = 1, c.cited[1].order = "time"
  PROVE  LET rows == c.cited[1].rows
         IN  \A j, l \in 1..Len(rows) : /\ rows[j].key \in Int
                                        /\ j <= l => rows[j].key <= rows[l].key
<1> DEFINE rows == c.cited[1].rows
<1>1. 1 \in DOMAIN c.cited /\ DOMAIN rows = 1..Len(rows) /\ Len(rows) \in Nat
  BY PlacesOfRows
<1>2. /\ \A j \in DOMAIN rows : rows[j].key \in Int
      /\ \A j, l \in DOMAIN rows : j < l => rows[j].key <= rows[l].key
  BY <1>1, TrendAssumption
<1> HIDE DEF rows
<1>3. ASSUME NEW j \in 1..Len(rows), NEW l \in 1..Len(rows), j <= l
      PROVE  rows[j].key <= rows[l].key
  <2>1. rows[j].key \in Int /\ rows[l].key \in Int
    BY <1>1, <1>2
  <2>2. CASE j = l
    BY <2>1, <2>2
  <2>3. CASE j # l
    BY <1>1, <1>2, <1>3, <2>3
  <2> QED
    BY <2>2, <2>3
<1>4. \A j, l \in 1..Len(rows) : rows[j].key \in Int /\ (j <= l => rows[j].key <= rows[l].key)
  BY <1>1, <1>2, <1>3
<1> QED
  BY <1>4 DEF rows

\* A monotonic trend over one block in time is steady in time: from one row to
\* the next it keeps its direction, and each period is one row.
LEMMA MonotonicIsSteady ==
  ASSUME claim \in TrendClaims, Tabular(claim.cited), TrendHolds(claim),
         OneSeriesInTime, claim.spec.monotonic
  PROVE  SteadyInTime
<1> DEFINE cited == claim.cited
           spec == claim.spec
           rows == cited[1].rows
           n == Len(rows)
           records == Records(cited, Both)
           from == First(With(cited, records, spec.start))
           to == First(With(cited, records, spec.end))
           span == {p \in records : ~Before(p, from) /\ ~Before(to, p)}
<1>1. /\ With(cited, records, spec.start) = {from} /\ With(cited, records, spec.end) = {to}
      /\ \A p \in records : Only(With(cited, records, At(cited, p).key))
      /\ from \in records /\ to \in records
      /\ Monotonic(cited, records, from, to, spec.direction)
  BY EndpointsOfTrend, Zenon
<1>2. /\ n \in Nat
      /\ \A p : p \in Places(cited) <=> \E j \in 1..n : p = <<1, j>>
      /\ \A j \in 1..n : At(cited, <<1, j>>) = rows[j]
      /\ \A j, l \in 1..n : Before(<<1, j>>, <<1, l>>) <=> j < l
      /\ \A columns : Records(cited, columns)
                        = IF Resolves(cited[1], columns) THEN Places(cited) ELSE {}
  BY OneSeries, Zenon DEF OneSeriesInTime
<1>3. \A p : p \in records <=> \E j \in 1..n : p = <<1, j>>
  BY <1>1, <1>2
<1>4. PICK m \in 1..n : from = <<1, m>>
  BY <1>1, <1>3
<1>5. PICK o \in 1..n : to = <<1, o>>
  BY <1>1, <1>3
<1>6. \A j, l \in 1..n : rows[j].key \in Int /\ (j <= l => rows[j].key <= rows[l].key)
  BY PeriodsInOrder, Zenon DEF OneSeriesInTime
<1>7. /\ \A p \in span : At(cited, p).value # NULL
      /\ \A p, q \in span :
           Before(p, q) /\ (\A r \in span : ~(Before(p, r) /\ Before(r, q)))
             => InDirection(spec.direction, At(cited, p).value, At(cited, q).value)
  BY <1>1, Zenon DEF Monotonic
<1>8. /\ \A s \in RowsFor(spec.start) : s = rows[m]
      /\ \A e \in RowsFor(spec.end) : e = rows[o]
  <2>1. ASSUME NEW key, NEW p, With(cited, records, key) = {p}, NEW r \in RowsFor(key)
        PROVE  r = At(cited, p)
    <3>1. PICK q \in records : r = At(cited, q)
      BY RowsAreRecords DEF RowsFor
    <3>2. q \in With(cited, records, key)
      BY <3>1 DEF With, RowsFor
    <3> QED
      BY <2>1, <3>1, <3>2
  <2>2. /\ \A s \in RowsFor(spec.start) : s = At(cited, from)
        /\ \A e \in RowsFor(spec.end) : e = At(cited, to)
    <3> HIDE DEF from, to, records
    <3> QED
      BY <1>1, <2>1
  <2> QED
    BY <1>2, <1>4, <1>5, <2>2
<1>9. \A j, l \in 1..n : rows[j].key = rows[l].key => j = l
  <2> SUFFICES ASSUME NEW j \in 1..n, NEW l \in 1..n, rows[j].key = rows[l].key
               PROVE  j = l
    OBVIOUS
  <2> DEFINE own == With(cited, records, rows[j].key)
  <2>1. <<1, j>> \in own /\ <<1, l>> \in own
    BY <1>2, <1>3 DEF With, ValuesEqual
  <2>2. Only(own)
    BY <1>1, <1>2, <1>3
  <2> HIDE DEF own
  <2>3. <<1, j>> = <<1, l>>
    BY <2>1, <2>2 DEF Only
  <2> QED
    BY <2>3
<1> HIDE DEF records, from, to
<1>10. \A j \in 1..n : m <= j /\ j <= o => <<1, j>> \in span
  <2> SUFFICES ASSUME NEW j \in 1..n, m <= j, j <= o
               PROVE  <<1, j>> \in span
    OBVIOUS
  <2>1. ~Before(<<1, j>>, from) /\ ~Before(to, <<1, j>>)
    BY <1>2, <1>4, <1>5
  <2> QED
    BY <1>3, <2>1
<1>11. \A j \in m..o : j \in 1..n /\ rows[j].value \in Int
  <2> SUFFICES ASSUME NEW j \in m..o
               PROVE  j \in 1..n /\ rows[j].value \in Int
    OBVIOUS
  <2>1. j \in 1..n /\ m <= j /\ j <= o
    BY <1>2
  <2>2. <<1, j>> \in span /\ <<1, j>> \in Places(cited)
    BY <1>2, <1>10, <2>1
  <2>3. rows[j].value # NULL
    BY <1>2, <1>7, <2>1, <2>2
  <2>4. At(cited, <<1, j>>).value \in Int \cup {NULL}
    BY <2>2, PlacesOfRows
  <2> QED
    BY <1>2, <2>1, <2>3, <2>4
<1>12. ASSUME NEW j \in m..o, j + 1 \in m..o
       PROVE  InDirection(spec.direction, rows[j].value, rows[j + 1].value)
  <2>1. j \in 1..n /\ j + 1 \in 1..n /\ m <= j /\ j <= o /\ m <= j + 1 /\ j + 1 <= o
    BY <1>2, <1>12
  <2>2. <<1, j>> \in span /\ <<1, j + 1>> \in span /\ Before(<<1, j>>, <<1, j + 1>>)
    BY <1>2, <1>10, <2>1
  <2>3. \A r \in span : ~(Before(<<1, j>>, r) /\ Before(r, <<1, j + 1>>))
    <3> SUFFICES ASSUME NEW r \in span, Before(<<1, j>>, r), Before(r, <<1, j + 1>>)
                 PROVE  FALSE
      OBVIOUS
    <3>1. PICK l \in 1..n : r = <<1, l>>
      BY <1>3
    <3>2. j < l /\ l < j + 1
      BY <1>2, <2>1, <3>1
    <3> QED
      BY <2>1, <3>2
  <2> HIDE DEF span
  <2>4. InDirection(spec.direction, At(cited, <<1, j>>).value, At(cited, <<1, j + 1>>).value)
    BY <1>7, <2>2, <2>3
  <2> QED
    BY <1>2, <2>1, <2>4
<1>13. m \in Nat /\ o \in Nat /\ spec.direction \in {"increased", "decreased", "unchanged"}
  BY <1>2, TrendAssumption
<1>14. \A j, l \in m..o : j <= l => InDirection(spec.direction, rows[j].value, rows[l].value)
  <2> DEFINE direction == spec.direction
  <2>1. /\ m \in Nat /\ o \in Nat /\ direction \in {"increased", "decreased", "unchanged"}
        /\ \A i \in m..o : rows[i].value \in Int
        /\ \A i \in m..o : i + 1 \in m..o =>
             InDirection(direction, rows[i].value, rows[i + 1].value)
    BY <1>11, <1>12, <1>13
  <2> HIDE DEF direction, rows
  <2>2. \A j, l \in m..o : j <= l => InDirection(direction, rows[j].value, rows[l].value)
    BY <2>1, StepsKeepDirection
  <2> QED
    BY <2>2 DEF direction
<1>15. ASSUME NEW s \in RowsFor(spec.start), NEW e \in RowsFor(spec.end),
              NEW a \in Rows, NEW b \in Rows,
              s.key <= a.key, a.key <= b.key, b.key <= e.key
       PROVE  a.value # NULL /\ b.value # NULL /\ InDirection(spec.direction, a.value, b.value)
  <2>1. /\ \E p \in records : a = At(cited, p)
        /\ \E p \in records : b = At(cited, p)
    BY RowsAreRecords DEF records
  <2>2. PICK j \in 1..n : a = rows[j]
    BY <1>2, <1>3, <2>1
  <2>3. PICK l \in 1..n : b = rows[l]
    BY <1>2, <1>3, <2>1
  <2>4. /\ rows[m].key <= rows[j].key /\ rows[j].key <= rows[l].key /\ rows[l].key <= rows[o].key
        /\ rows[m].key \in Int /\ rows[j].key \in Int /\ rows[l].key \in Int /\ rows[o].key \in Int
    BY <1>6, <1>8, <1>15, <2>2, <2>3
  <2>5. \A x, y \in 1..n : rows[x].key <= rows[y].key => x <= y
    <3> SUFFICES ASSUME NEW x \in 1..n, NEW y \in 1..n, rows[x].key <= rows[y].key, ~(x <= y)
                 PROVE  FALSE
      OBVIOUS
    <3>1. y <= x /\ x # y
      BY <1>2
    <3>2. rows[y].key <= rows[x].key /\ rows[x].key \in Int /\ rows[y].key \in Int
      BY <1>6, <3>1
    <3>3. rows[x].key = rows[y].key
      BY <3>2
    <3> QED
      BY <1>9, <3>1, <3>3
  <2>6. m <= j /\ j <= l /\ l <= o
    BY <2>4, <2>5
  <2>7. j \in m..o /\ l \in m..o
    BY <1>2, <2>6
  <2>8. rows[j].value # NULL /\ rows[l].value # NULL
    BY <1>11, <2>7, NullAssumption
  <2>9. InDirection(spec.direction, rows[j].value, rows[l].value)
    BY <1>14, <2>6, <2>7
  <2> QED
    BY <2>2, <2>3, <2>8, <2>9
<1> QED
  BY <1>15 DEF SteadyInTime

\* A series that is what a trend declares of it holds.
LEMMA SteadySeriesHolds ==
  ASSUME claim \in TrendClaims, Tabular(claim.cited), OneSeriesInTime,
         EndpointsHold, SteadyInTime, claim.spec.mode = "none", PeriodsApart
  PROVE  TrendHolds(claim)
<1> DEFINE cited == claim.cited
           spec == claim.spec
           rows == cited[1].rows
           n == Len(rows)
           records == Records(cited, Both)
           starts == With(cited, records, spec.start)
           ends == With(cited, records, spec.end)
           from == First(starts)
           to == First(ends)
           first == At(cited, from).value
           last == At(cited, to).value
<1>1. /\ n \in Nat /\ IsFiniteSet(Places(cited))
      /\ \A p : p \in Places(cited) <=> \E j \in 1..n : p = <<1, j>>
      /\ \A j \in 1..n : At(cited, <<1, j>>) = rows[j]
      /\ \A j, l \in 1..n : Before(<<1, j>>, <<1, l>>) <=> j < l
  BY OneSeries, Zenon DEF OneSeriesInTime
<1>2. records \subseteq Places(cited)
  BY DEF Records
<1>3. \A key : /\ IsFiniteSet(With(cited, records, key))
               /\ With(cited, records, key) \subseteq records
               /\ \A p \in With(cited, records, key) : ValuesEqual(At(cited, p).key, key)
  <2> SUFFICES ASSUME NEW key
               PROVE  /\ IsFiniteSet(With(cited, records, key))
                      /\ With(cited, records, key) \subseteq records
                      /\ \A p \in With(cited, records, key) : ValuesEqual(At(cited, p).key, key)
    OBVIOUS
  <2>1. /\ With(cited, records, key) \subseteq records
        /\ \A p \in With(cited, records, key) : ValuesEqual(At(cited, p).key, key)
    BY DEF With
  <2>2. IsFiniteSet(With(cited, records, key))
    BY <1>1, <1>2, <2>1, FS_Subset
  <2> QED
    BY <2>1, <2>2
<1>4. /\ \A key : Occurrences(key) = Cardinality(With(cited, records, key))
      /\ \A r : r \in Rows <=> \E p \in records : r = At(cited, p)
  BY RowsAreRecords
<1>5. Only(starts) /\ Only(ends) /\ from \in starts /\ to \in ends
  <2>1. Cardinality(starts) = 1 /\ Cardinality(ends) = 1
    BY <1>4 DEF EndpointsHold
  <2>2. IsFiniteSet(starts) /\ IsFiniteSet(ends)
    BY <1>3
  <2> HIDE DEF starts, ends
  <2> QED
    BY <2>1, <2>2, CountedOnce
<1>6. /\ from \in records /\ to \in records
      /\ ValuesEqual(At(cited, from).key, spec.start) /\ ValuesEqual(At(cited, to).key, spec.end)
  BY <1>3, <1>5
<1>7. At(cited, from) \in RowsFor(spec.start) /\ At(cited, to) \in RowsFor(spec.end)
  BY <1>4, <1>6 DEF RowsFor
<1>8. /\ NumbersEqual(first, spec.first) /\ NumbersEqual(last, spec.last)
      /\ (CASE spec.direction = "increased" -> first < last
            [] spec.direction = "decreased" -> first > last
            [] spec.direction = "unchanged" -> first = last)
  BY <1>7 DEF EndpointsHold
<1>9. first \in Int /\ last \in Int
  <2>1. first \in Int \cup {NULL} /\ last \in Int \cup {NULL}
    BY <1>2, <1>6, PlacesOfRows
  <2>2. first # NULL /\ last # NULL
    BY <1>8 DEF NumbersEqual
  <2> QED
    BY <2>1, <2>2
<1>10. Direction(first, last) = spec.direction
  <2> DEFINE direction == spec.direction
  <2>1. direction \in {"increased", "decreased", "unchanged"}
    BY TrendAssumption
  <2>2. (CASE direction = "increased" -> first < last
           [] direction = "decreased" -> first > last
           [] direction = "unchanged" -> first = last)
    BY <1>8
  <2> HIDE DEF direction, first, last
  <2>3. Direction(first, last) = direction
    <3>1. CASE direction = "increased"
      <4>1. first < last
        BY <2>2, <3>1
      <4> QED
        BY <1>9, <3>1, <4>1 DEF Direction
    <3>2. CASE direction = "decreased"
      <4>1. first > last
        BY <2>2, <3>2
      <4> QED
        BY <1>9, <3>2, <4>1 DEF Direction
    <3>3. CASE direction = "unchanged"
      <4>1. first = last
        BY <2>2, <3>3
      <4> QED
        BY <1>9, <3>3, <4>1 DEF Direction
    <3> QED
      BY <2>1, <3>1, <3>2, <3>3
  <2> QED
    BY <2>3 DEF direction
<1>11. \A p \in records : Only(With(cited, records, At(cited, p).key))
  <2> SUFFICES ASSUME NEW p \in records
               PROVE  Only(With(cited, records, At(cited, p).key))
    OBVIOUS
  <2> DEFINE own == With(cited, records, At(cited, p).key)
  <2>1. Cardinality(own) = 1 /\ IsFiniteSet(own)
    BY <1>3, <1>4 DEF PeriodsApart
  <2> HIDE DEF own
  <2>2. Only(own)
    BY <2>1, CountedOnce
  <2> QED
    BY <2>2 DEF own
<1>12. \A p, q \in records :
         /\ At(cited, p).key \in Int
         /\ ~Before(q, p) => At(cited, p).key <= At(cited, q).key
  <2> SUFFICES ASSUME NEW p \in records, NEW q \in records
               PROVE  /\ At(cited, p).key \in Int
                      /\ ~Before(q, p) => At(cited, p).key <= At(cited, q).key
    OBVIOUS
  <2>1. PICK j \in 1..n : p = <<1, j>>
    BY <1>1, <1>2
  <2>2. PICK l \in 1..n : q = <<1, l>>
    BY <1>1, <1>2
  <2>3. \A x, y \in 1..n : rows[x].key \in Int /\ (x <= y => rows[x].key <= rows[y].key)
    BY PeriodsInOrder, Zenon DEF OneSeriesInTime
  <2>4. ~Before(q, p) => j <= l
    BY <1>1, <2>1, <2>2
  <2> QED
    BY <1>1, <2>1, <2>2, <2>3, <2>4
<1>13. Before(from, to) /\ from # to
  <2>1. At(cited, from).key < At(cited, to).key
    BY <1>7 DEF PeriodsApart
  <2>2. At(cited, to).key \in Int /\ At(cited, from).key \in Int
    BY <1>6, <1>12
  <2>3. ~(At(cited, to).key <= At(cited, from).key)
    BY <2>1, <2>2
  <2> QED
    BY <1>6, <1>12, <2>2, <2>3
<1>14. Monotonic(cited, records, from, to, spec.direction)
  <2> DEFINE span == {p \in records : ~Before(p, from) /\ ~Before(to, p)}
  <2>1. ASSUME NEW p \in span, NEW q \in span, ~Before(q, p)
        PROVE  /\ At(cited, p).value # NULL /\ At(cited, q).value # NULL
               /\ InDirection(spec.direction, At(cited, p).value, At(cited, q).value)
    <3>1. /\ At(cited, from).key <= At(cited, p).key
          /\ At(cited, p).key <= At(cited, q).key
          /\ At(cited, q).key <= At(cited, to).key
      BY <1>6, <1>12, <2>1
    <3>2. At(cited, p) \in Rows /\ At(cited, q) \in Rows
      BY <1>4
    <3> QED
      BY <1>7, <3>1, <3>2 DEF SteadyInTime
  <2>2. \A p \in span : ~Before(p, p)
    BY <1>1, <1>2
  <2>3. \A p, q \in span : Before(p, q) => ~Before(q, p)
    <3> SUFFICES ASSUME NEW p \in span, NEW q \in span, Before(p, q)
                 PROVE  ~Before(q, p)
      OBVIOUS
    <3>1. PICK j \in 1..n : p = <<1, j>>
      BY <1>1, <1>2
    <3>2. PICK l \in 1..n : q = <<1, l>>
      BY <1>1, <1>2
    <3> QED
      BY <1>1, <3>1, <3>2
  <2>4. \A p \in span : At(cited, p).value # NULL
    BY <2>1, <2>2
  <2>5. \A p, q \in span : Before(p, q)
          => InDirection(spec.direction, At(cited, p).value, At(cited, q).value)
    BY <2>1, <2>3
  <2> QED
    BY <2>4, <2>5, Zenon DEF Monotonic
<1>15. TrendPeriods(cited, records, spec)
  <2> HIDE DEF from, to, first, last
  <2>1. \E p, q \in records : p # q
    BY <1>6, <1>13
  <2>2. \E p \in starts, q \in ends : Before(p, q)
    BY <1>5, <1>13
  <2> QED
    BY <1>5, <1>11, <2>1, <2>2, Zenon DEF TrendPeriods, Indexes
<1> QED
  BY <1>8, <1>10, <1>14, <1>15, Zenon DEF TrendHolds, Indexes, Both

\* A VERIFIED trend has its endpoints and, if it is monotonic over one block in
\* time, is steady in time; a series that has and is, is never FAILED.
THEOREM TrendsHold == Spec => []TrendIsSound
<1>1. Judged => TrendIsSound
  <2> SUFFICES ASSUME Judged, kind = "TREND"
               PROVE  TrendIsSound
    BY DEF TrendIsSound, Verified, Refuted
  <2> DEFINE a == Contract(claim)
             b == TrendShape(claim.cited)
             c == Columns(claim.cited, {"key", "value"})
             d == Check(TrendHolds(claim))
  <2>1. /\ Tabular(claim.cited) /\ claim \in TrendClaims
        /\ claim.contract \in {"sound", "noise", "missing"}
        /\ status \in {"NOT_VERIFIED", TrendVerdict(claim)}
    BY GivenClaim DEF ClaimType
  <2>2. TrendVerdict(claim) = Verdict(<<a, b, c, d>>)
    BY DEF TrendVerdict
  <2>3. claim.spec.direction \in {"increased", "decreased", "unchanged"}
    BY <2>1, TrendAssumption
  <2>4. ASSUME Verified("TREND")
        PROVE  EndpointsHold /\ (OneSeriesInTime /\ claim.spec.monotonic => SteadyInTime)
    <3>1. d = "CONFIRMED"
      <4>1. Verdict(<<a, b, c, d>>) = "VERIFIED"
        BY <2>1, <2>2, <2>4 DEF Verified
      <4> HIDE DEF a, b, c, d
      <4> QED
        BY <4>1, VerdictOfFour
    <3>2. TrendHolds(claim)
      BY <3>1 DEF Check
    <3> QED
      BY <2>1, <2>3, <3>2, TrendHasEndpoints, MonotonicIsSteady
  <2>5. ASSUME Refuted("TREND"), OneSeriesInTime, EndpointsHold, SteadyInTime,
               PeriodsApart, claim.spec.mode = "none"
        PROVE  FALSE
    <3>1. "REFUTED" \in {a, b, c, d}
      <4>1. Verdict(<<a, b, c, d>>) = "FAILED"
        BY <2>1, <2>2, <2>5 DEF Refuted
      <4> HIDE DEF a, b, c, d
      <4> QED
        BY <4>1, VerdictOfFour
    <3>2. a # "REFUTED"
      BY <2>1 DEF Contract
    <3>3. b # "REFUTED"
      <4>1. \A i \in DOMAIN claim.cited : claim.cited[i].order = "time"
        <5>1. DOMAIN claim.cited = 1..1
          BY <2>1, <2>5, PlacesOfRows DEF OneSeriesInTime
        <5> QED
          BY <2>5, <5>1 DEF OneSeriesInTime
      <4> QED
        BY <4>1 DEF TrendShape
    <3>4. c # "REFUTED"
      BY DEF Columns, Doubt
    <3>5. d # "REFUTED"
      BY <2>1, <2>5, SteadySeriesHolds DEF Check
    <3> QED
      BY <3>1, <3>2, <3>3, <3>4, <3>5
  <2> QED
    BY <2>4, <2>5 DEF TrendIsSound
<1> QED
  BY <1>1, ClaimsAreJudged, PTL

-----------------------------------------------------------------------------
(* The order of citations.                                                   *)

\* The other evidence cites the same blocks from the last to the first.
TurnedOver(cited, other) ==
  /\ Tabular(cited) /\ Tabular(other) /\ Len(other) = Len(cited)
  /\ \A i \in 1..Len(cited) : other[(Len(cited) - i) + 1] = cited[i]

\* Where a place of n blocks is found in the other order.
Turn(n, p) == <<(n - p[1]) + 1, p[2]>>

LEMMA ReverseTurnsOver ==
  ASSUME NEW cited, Tabular(cited)
  PROVE  TurnedOver(cited, Reverse(cited)) /\ TurnedOver(Reverse(cited), cited)
<1> DEFINE n == Len(cited)
           S == Range(cited)
<1>1. cited \in Seq(S) /\ n \in Nat /\ DOMAIN cited = 1..n
  BY PlacesOfRows
<1>2. Reverse(cited) = [i \in 1..n |-> cited[(n - i) + 1]]
  BY DEF Reverse
<1> HIDE DEF n, S
<1>3. \A i \in 1..n : (n - i) + 1 \in 1..n /\ (n - ((n - i) + 1)) + 1 = i
  BY <1>1
<1>4. \A i \in 1..n : cited[i] \in S
  BY <1>1, ElementOfSeq DEF n
<1>5. Reverse(cited) \in Seq(S) /\ Len(Reverse(cited)) = n
  <2>1. \A i \in 1..n : cited[(n - i) + 1] \in S
    BY <1>3, <1>4
  <2>2. Reverse(cited) \in Seq(S)
    BY <1>1, <1>2, <2>1, IsASeq
  <2>3. DOMAIN Reverse(cited) = 1..n
    BY <1>2
  <2> QED
    BY <1>1, <2>2, <2>3, LenProperties
<1>6. \A i \in 1..n : Reverse(cited)[i] = cited[(n - i) + 1]
  BY <1>2
<1>7. \A i \in 1..n : Reverse(cited)[(n - i) + 1] = cited[i]
  <2> SUFFICES ASSUME NEW i \in 1..n
               PROVE  Reverse(cited)[(n - i) + 1] = cited[i]
    OBVIOUS
  <2>1. Reverse(cited)[(n - i) + 1] = cited[(n - ((n - i) + 1)) + 1]
    BY <1>3, <1>6
  <2> QED
    BY <1>3, <2>1
<1>8. DOMAIN Reverse(cited) = 1..n
  BY <1>2
<1>9. Tabular(Reverse(cited))
  <2>1. IsSequence(Reverse(cited))
    <3>1. \A i \in 1..n : Reverse(cited)[i] \in Range(Reverse(cited))
      BY <1>8 DEF Range
    <3> DEFINE r == Reverse(cited)
               T == Range(Reverse(cited))
    <3>2. r = [i \in 1..n |-> r[i]]
      BY <1>2
    <3> HIDE DEF r, T
    <3>3. r \in Seq(T)
      <4>1. \A i \in 1..n : r[i] \in T
        BY <3>1 DEF r, T
      <4> QED
        BY <1>1, <3>2, <4>1, IsASeq
    <3> QED
      BY <3>3 DEF IsSequence, r, T
  <2>2. ASSUME NEW i \in DOMAIN Reverse(cited)
        PROVE  /\ IsSequence(Reverse(cited)[i].rows)
               /\ \A j \in DOMAIN Reverse(cited)[i].rows :
                    /\ Reverse(cited)[i].rows[j].key \in Int \cup {NULL}
                    /\ Reverse(cited)[i].rows[j].value \in Int \cup {NULL}
    <3>1. i \in 1..n /\ (n - i) + 1 \in DOMAIN cited
      BY <1>1, <1>3, <1>8
    <3>2. Reverse(cited)[i] = cited[(n - i) + 1]
      BY <1>6, <3>1
    <3> QED
      BY <3>1, <3>2 DEF Tabular
  <2> QED
    BY <2>1, <2>2 DEF Tabular
<1>10. TurnedOver(cited, Reverse(cited))
  BY <1>5, <1>7, <1>9 DEF TurnedOver, n
<1>11. TurnedOver(Reverse(cited), cited)
  <2>1. \A i \in 1..n : cited[(n - i) + 1] = Reverse(cited)[i]
    BY <1>6
  <2>2. Len(Reverse(cited)) = n /\ Len(cited) = n
    BY <1>5 DEF n
  <2> QED
    BY <1>9, <2>1, <2>2 DEF TurnedOver
<1> QED
  BY <1>10, <1>11

\* In the other order the same blocks are read.
LEMMA TurnedBlocks ==
  ASSUME NEW cited, NEW other, TurnedOver(cited, other), NEW i \in DOMAIN cited
  PROVE  LET j == (Len(cited) - i) + 1
         IN  /\ j \in DOMAIN other /\ other[j] = cited[i] /\ (Len(cited) - j) + 1 = i
             /\ \A columns : i \in Readable(cited, columns) => j \in Readable(other, columns)
<1> DEFINE n == Len(cited)
           j == (n - i) + 1
<1>1. n \in Nat /\ i \in 1..n /\ DOMAIN other = 1..n /\ other[j] = cited[i]
  BY PlacesOfRows DEF TurnedOver
<1> HIDE DEF n
<1>2. j \in 1..n /\ (n - j) + 1 = i
  BY <1>1
<1>3. \A columns : i \in Readable(cited, columns) => j \in Readable(other, columns)
  BY <1>1, <1>2 DEF Readable
<1> QED
  BY <1>1, <1>2, <1>3 DEF n

\* In the other order the same records are read.
LEMMA TurnedRecords ==
  ASSUME NEW cited, NEW other, TurnedOver(cited, other), NEW columns,
         NEW p \in Records(cited, columns)
  PROVE  LET q == Turn(Len(cited), p)
         IN  /\ q \in Records(other, columns) /\ At(other, q) = At(cited, p)
             /\ Turn(Len(cited), q) = p
<1> DEFINE n == Len(cited)
           i == p[1]
           j == (n - i) + 1
           q == Turn(n, p)
<1>1. p \in Places(cited) /\ i \in Readable(cited, columns)
  BY DEF Records
<1>2. /\ p = <<i, p[2]>> /\ i \in DOMAIN cited /\ p[2] \in DOMAIN cited[i].rows
      /\ At(cited, p) = cited[i].rows[p[2]]
  BY <1>1, PlacesOfRows DEF TurnedOver
<1>3. j \in DOMAIN other /\ other[j] = cited[i] /\ (n - j) + 1 = i /\ j \in Readable(other, columns)
  BY <1>1, <1>2, TurnedBlocks
<1>4. q = <<j, p[2]>> /\ q[1] = j /\ q[2] = p[2]
  BY DEF Turn
<1>5. q \in Places(other) /\ At(other, q) = other[j].rows[p[2]]
  BY <1>2, <1>3, <1>4, PlacesOfRows DEF TurnedOver
<1>6. q \in Records(other, columns) /\ At(other, q) = At(cited, p)
  BY <1>2, <1>3, <1>4, <1>5 DEF Records
<1>7. Turn(n, q) = <<(n - j) + 1, p[2]>>
  BY <1>4 DEF Turn
<1>8. Turn(n, q) = p
  BY <1>2, <1>3, <1>7
<1> QED
  BY <1>6, <1>8

\* One record is one record in the other order, and the same one.
LEMMA TurnedOnly ==
  ASSUME NEW cited, NEW other, TurnedOver(cited, other), TurnedOver(other, cited), NEW columns,
         NEW S, S \subseteq Records(cited, columns), NEW T, T \subseteq Records(other, columns),
         \A p \in S : Turn(Len(cited), p) \in T, \A q \in T : Turn(Len(cited), q) \in S
  PROVE  /\ Only(S) <=> Only(T)
         /\ Only(S) => At(other, First(T)) = At(cited, First(S))
<1> DEFINE n == Len(cited)
<1>1. \A p \in S : At(other, Turn(n, p)) = At(cited, p) /\ Turn(n, Turn(n, p)) = p
  BY TurnedRecords
<1>2. \A q \in T : Turn(n, Turn(n, q)) = q
  <2>1. Len(other) = n
    BY DEF TurnedOver
  <2>2. \A q \in T : Turn(Len(other), Turn(Len(other), q)) = q
    BY TurnedRecords
  <2> QED
    BY <2>1, <2>2
<1> HIDE DEF n
<1>3. \A p \in S : Turn(n, p) \in T
  BY DEF n
<1>4. \A q \in T : Turn(n, q) \in S
  BY DEF n
<1>5. ASSUME NEW p, S = {p}
      PROVE  T = {Turn(n, p)}
  BY <1>2, <1>3, <1>4, <1>5
<1>6. ASSUME NEW q, T = {q}
      PROVE  S = {Turn(n, q)}
  BY <1>1, <1>3, <1>4, <1>6
<1>7. Only(S) <=> Only(T)
  <2>1. ASSUME Only(S)
        PROVE  Only(T)
    <3>1. PICK p \in S : S = {p}
      BY <2>1 DEF Only
    <3>2. T = {Turn(n, p)}
      BY <1>5, <3>1
    <3> QED
      BY <3>2 DEF Only
  <2>2. ASSUME Only(T)
        PROVE  Only(S)
    <3>1. PICK q \in T : T = {q}
      BY <2>2 DEF Only
    <3>2. S = {Turn(n, q)}
      BY <1>6, <3>1
    <3> QED
      BY <3>2 DEF Only
  <2> QED
    BY <2>1, <2>2
<1>8. ASSUME Only(S)
      PROVE  At(other, First(T)) = At(cited, First(S))
  <2>1. S = {First(S)} /\ First(S) \in S
    BY <1>8, OnlyOne
  <2>2. T = {First(T)}
    BY <1>7, <1>8, OnlyOne
  <2>3. T = {Turn(n, First(S))}
    BY <1>5, <2>1
  <2>4. First(T) = Turn(n, First(S))
    BY <2>2, <2>3
  <2> QED
    BY <1>1, <2>1, <2>4
<1> QED
  BY <1>7, <1>8

\* The records of a key, in the other order.
LEMMA TurnedWith ==
  ASSUME NEW cited, NEW other, TurnedOver(cited, other), TurnedOver(other, cited),
         NEW columns, NEW key
  PROVE  LET S == With(cited, Records(cited, columns), key)
             T == With(other, Records(other, columns), key)
         IN  /\ Only(S) <=> Only(T)
             /\ S = {} <=> T = {}
             /\ Only(S) => At(other, First(T)) = At(cited, First(S))
<1> DEFINE n == Len(cited)
           S == With(cited, Records(cited, columns), key)
           T == With(other, Records(other, columns), key)
<1>1. S \subseteq Records(cited, columns) /\ T \subseteq Records(other, columns)
  BY DEF With
<1>2. ASSUME NEW p \in S
      PROVE  Turn(n, p) \in T
  <2>1. p \in Records(cited, columns) /\ ValuesEqual(At(cited, p).key, key)
    BY DEF With
  <2>2. Turn(n, p) \in Records(other, columns) /\ At(other, Turn(n, p)) = At(cited, p)
    BY <2>1, TurnedRecords
  <2> QED
    BY <2>1, <2>2 DEF With
<1>3. ASSUME NEW q \in T
      PROVE  Turn(n, q) \in S
  <2>1. q \in Records(other, columns) /\ ValuesEqual(At(other, q).key, key)
    BY DEF With
  <2>2. Len(other) = n
    BY DEF TurnedOver
  <2>3. Turn(n, q) \in Records(cited, columns) /\ At(cited, Turn(n, q)) = At(other, q)
    BY <2>1, <2>2, TurnedRecords
  <2> QED
    BY <2>1, <2>3 DEF With
<1> HIDE DEF S, T
<1>4. /\ Only(S) <=> Only(T)
      /\ Only(S) => At(other, First(T)) = At(cited, First(S))
  BY <1>1, <1>2, <1>3, TurnedOnly
<1>5. S = {} <=> T = {}
  BY <1>2, <1>3
<1> QED
  BY <1>4, <1>5 DEF S, T

\* What a check asks of the blocks that are read has the same answer.
LEMMA TurnedReadable ==
  ASSUME NEW cited, NEW other, TurnedOver(cited, other), TurnedOver(other, cited)
  PROVE  /\ \A columns : Columns(other, columns) = Columns(cited, columns)
         /\ \A columns :
              /\ Readable(other, columns) = {} <=> Readable(cited, columns) = {}
              /\ (\E i \in Readable(other, columns) : other[i].grouped)
                   <=> \E i \in Readable(cited, columns) : cited[i].grouped
              /\ (\A i \in Readable(other, columns) : other[i].computes)
                   <=> \A i \in Readable(cited, columns) : cited[i].computes
         /\ (\A i \in DOMAIN other : other[i].grouped) <=> \A i \in DOMAIN cited : cited[i].grouped
<1>1. ASSUME NEW x, NEW y, TurnedOver(x, y), NEW i \in DOMAIN x
      PROVE  \E j \in DOMAIN y : /\ y[j] = x[i]
                                 /\ \A columns : i \in Readable(x, columns) => j \in Readable(y, columns)
  BY <1>1, TurnedBlocks
<1>2. \A i \in DOMAIN cited : \E j \in DOMAIN other :
        /\ other[j] = cited[i]
        /\ \A columns : i \in Readable(cited, columns) => j \in Readable(other, columns)
  BY <1>1
<1>3. \A i \in DOMAIN other : \E j \in DOMAIN cited :
        /\ cited[j] = other[i]
        /\ \A columns : i \in Readable(other, columns) => j \in Readable(cited, columns)
  BY <1>1
<1>4. \A columns : Readable(cited, columns) \subseteq DOMAIN cited
  BY DEF Readable
<1>5. \A columns : Readable(other, columns) \subseteq DOMAIN other
  BY DEF Readable
<1>6. ASSUME NEW columns
      PROVE  Readable(other, columns) = {} <=> Readable(cited, columns) = {}
  BY <1>2, <1>3, <1>4, <1>5
<1>7. ASSUME NEW columns
      PROVE  (\A i \in Readable(other, columns), c \in columns : other[i].cols[c] = "exact")
               <=> \A i \in Readable(cited, columns), c \in columns : cited[i].cols[c] = "exact"
  BY <1>2, <1>3, <1>4, <1>5
<1>8. ASSUME NEW columns
      PROVE  Columns(other, columns) = Columns(cited, columns)
  BY <1>6, <1>7 DEF Columns, Doubt
<1>9. ASSUME NEW columns
      PROVE  /\ (\E i \in Readable(other, columns) : other[i].grouped)
                  <=> \E i \in Readable(cited, columns) : cited[i].grouped
             /\ (\A i \in Readable(other, columns) : other[i].computes)
                  <=> \A i \in Readable(cited, columns) : cited[i].computes
  BY <1>2, <1>3, <1>4, <1>5
<1>10. (\A i \in DOMAIN other : other[i].grouped) <=> \A i \in DOMAIN cited : cited[i].grouped
  BY <1>2, <1>3
<1> QED
  BY <1>6, <1>8, <1>9, <1>10

LEMMA TurnedComparison ==
  ASSUME NEW c, NEW d, TurnedOver(c.cited, d.cited), TurnedOver(d.cited, c.cited),
         d.contract = c.contract, d.listed = c.listed, d.spec = c.spec
  PROVE  ComparisonVerdict(d) = ComparisonVerdict(c)
<1> DEFINE lefts(cited) == With(cited, Records(cited, Both), c.spec.left)
           rights(cited) == With(cited, Records(cited, Both), c.spec.right)
           left(cited) == At(cited, First(lefts(cited))).value
           right(cited) == At(cited, First(rights(cited))).value
           holds(cited) ==
             /\ Only(lefts(cited)) /\ Only(rights(cited))
             /\ NumbersEqual(left(cited), c.spec.leftValue)
             /\ NumbersEqual(right(cited), c.spec.rightValue)
             /\ Relation(left(cited), c.spec.operator, right(cited))
             /\ \/ c.spec.mode = "none"
                \/ /\ ChangeDefined(right(cited), c.spec.mode)
                   /\ ReportedNumbersEqual(DerivedChange(right(cited), left(cited), c.spec.mode),
                                           c.spec.delta)
<1>1. Compared(c) <=> holds(c.cited)
  BY Zenon DEF Compared
<1>2. Compared(d) <=> holds(d.cited)
  BY DEF Compared
<1>3. /\ Only(lefts(c.cited)) <=> Only(lefts(d.cited))
      /\ Only(lefts(c.cited)) => left(d.cited) = left(c.cited)
  BY TurnedWith
<1>4. /\ Only(rights(c.cited)) <=> Only(rights(d.cited))
      /\ Only(rights(c.cited)) => right(d.cited) = right(c.cited)
  BY TurnedWith
<1>5. holds(c.cited) <=> holds(d.cited)
  <2> HIDE DEF lefts, rights, left, right
  <2> QED
    BY <1>3, <1>4
<1>6. Check(Compared(d)) = Check(Compared(c))
  <2>1. Compared(d) <=> Compared(c)
    BY <1>1, <1>2, <1>5
  <2> QED
    BY <2>1 DEF Check
<1>7. Columns(d.cited, Both) = Columns(c.cited, Both)
  BY TurnedReadable
<1>8. Contract(d) = Contract(c)
  BY DEF Contract
<1> QED
  BY <1>6, <1>7, <1>8 DEF ComparisonVerdict

LEMMA TurnedAggregation ==
  ASSUME NEW c, NEW d, TurnedOver(c.cited, d.cited), TurnedOver(d.cited, c.cited),
         d.contract = c.contract, d.selector = c.selector, d.spec = c.spec
  PROVE  AggregationVerdict(d) = AggregationVerdict(c)
<1> DEFINE relevant(cited) == Readable(cited, {"value"})
           grouped(cited) == \E i \in relevant(cited) : cited[i].grouped
           columns(cited) == IF grouped(cited) THEN Both ELSE {"value"}
           records(cited) == Records(cited, columns(cited))
           matches(cited) == IF grouped(cited)
                             THEN With(cited, records(cited), c.selector) ELSE records(cited)
           actual(cited) == At(cited, First(matches(cited))).value
           b(cited) == Need(relevant(cited) # {})
           e(cited) == Check(\A i \in relevant(cited) : cited[i].computes)
           f(cited) == Doubt(c.spec.scope = IF grouped(cited) THEN "grouped" ELSE "scalar")
           g(cited) == Need(grouped(cited) => c.selector # NULL)
           h(cited) == Columns(cited, columns(cited))
           k(cited) == Check(/\ Only(matches(cited))
                             /\ NumbersEqual(actual(cited), c.spec.expected)
                             /\ c.spec.operation = "COUNT" \/ c.spec.nonNegative
                                  => actual(cited) >= 0)
<1>1. AggregationVerdict(c) = Verdict(<<Contract(c), b(c.cited), e(c.cited), f(c.cited),
                                        g(c.cited), h(c.cited), k(c.cited)>>)
  BY Zenon DEF AggregationVerdict
<1>2. AggregationVerdict(d) = Verdict(<<Contract(d), b(d.cited), e(d.cited), f(d.cited),
                                        g(d.cited), h(d.cited), k(d.cited)>>)
  BY DEF AggregationVerdict
<1>3. Contract(d) = Contract(c)
  BY DEF Contract
<1>4. /\ relevant(d.cited) = {} <=> relevant(c.cited) = {}
      /\ grouped(d.cited) <=> grouped(c.cited)
      /\ (\A i \in relevant(d.cited) : d.cited[i].computes)
           <=> \A i \in relevant(c.cited) : c.cited[i].computes
  BY TurnedReadable, Zenon
<1>5. columns(d.cited) = columns(c.cited)
  <2> HIDE DEF grouped
  <2> QED
    BY <1>4
<1>6. /\ Only(matches(c.cited)) <=> Only(matches(d.cited))
      /\ Only(matches(c.cited)) => actual(d.cited) = actual(c.cited)
  <2>1. CASE grouped(c.cited)
    <3>1. /\ matches(c.cited) = With(c.cited, Records(c.cited, Both), c.selector)
          /\ matches(d.cited) = With(d.cited, Records(d.cited, Both), c.selector)
      <4> HIDE DEF grouped
      <4> QED
        BY <1>4, <2>1
    <3> HIDE DEF matches
    <3> QED
      BY <3>1, TurnedWith
  <2>2. CASE ~grouped(c.cited)
    <3>1. /\ matches(c.cited) = Records(c.cited, {"value"})
          /\ matches(d.cited) = Records(d.cited, {"value"})
      <4> HIDE DEF grouped
      <4> QED
        BY <1>4, <2>2
    <3>2. \A p \in Records(c.cited, {"value"}) :
            Turn(Len(c.cited), p) \in Records(d.cited, {"value"})
      BY TurnedRecords
    <3>3. \A q \in Records(d.cited, {"value"}) :
            Turn(Len(c.cited), q) \in Records(c.cited, {"value"})
      <4>1. Len(d.cited) = Len(c.cited)
        BY DEF TurnedOver
      <4>2. \A q \in Records(d.cited, {"value"}) :
              Turn(Len(d.cited), q) \in Records(c.cited, {"value"})
        BY TurnedRecords
      <4> QED
        BY <4>1, <4>2
    <3> HIDE DEF matches
    <3> DEFINE S == Records(c.cited, {"value"})
               T == Records(d.cited, {"value"})
    <3>4. S \subseteq Records(c.cited, {"value"}) /\ T \subseteq Records(d.cited, {"value"})
      OBVIOUS
    <3>5. /\ Only(S) <=> Only(T)
          /\ Only(S) => At(d.cited, First(T)) = At(c.cited, First(S))
      <4>1. (\A p \in S : Turn(Len(c.cited), p) \in T) /\ (\A q \in T : Turn(Len(c.cited), q) \in S)
        BY <3>2, <3>3
      <4> HIDE DEF S, T
      <4> QED
        BY <3>4, <4>1, TurnedOnly
    <3> QED
      BY <3>1, <3>5
  <2> QED
    BY <2>1, <2>2
<1>7. b(d.cited) = b(c.cited) /\ e(d.cited) = e(c.cited)
  BY <1>4 DEF Need, Check
<1>8. f(d.cited) = f(c.cited) /\ g(d.cited) = g(c.cited)
  <2> HIDE DEF grouped
  <2> QED
    BY <1>4 DEF Doubt, Need
<1>9. h(d.cited) = h(c.cited)
  <2> HIDE DEF columns
  <2> QED
    BY <1>5, TurnedReadable
<1>10. k(d.cited) = k(c.cited)
  <2> HIDE DEF matches, actual
  <2> QED
    BY <1>6 DEF Check
<1> HIDE DEF b, e, f, g, h, k
<1> QED
  BY <1>1, <1>2, <1>3, <1>7, <1>8, <1>9, <1>10

\* Categories that come once do so in the other order.
LEMMA TurnedCategorical ==
  ASSUME NEW cited, NEW other, TurnedOver(cited, other), TurnedOver(other, cited),
         Categorical(cited, Records(cited, Both))
  PROVE  Categorical(other, Records(other, Both))
<1> DEFINE n == Len(cited)
<1>1. \A p \in Records(other, Both) :
        /\ Turn(n, p) \in Records(cited, Both)
        /\ At(cited, Turn(n, p)) = At(other, p) /\ Turn(n, Turn(n, p)) = p
  <2>1. Len(other) = n
    BY DEF TurnedOver
  <2>2. \A p \in Records(other, Both) :
          LET q == Turn(Len(other), p)
          IN  q \in Records(cited, Both) /\ At(cited, q) = At(other, p) /\ Turn(Len(other), q) = p
    BY TurnedRecords
  <2> QED
    BY <2>1, <2>2
<1> HIDE DEF n
<1>2. ASSUME NEW p \in Records(other, Both), NEW q \in Records(other, Both)
      PROVE  /\ At(other, p).key # NULL
             /\ ValuesEqual(At(other, p).key, At(other, q).key) => p = q
  <2>1. /\ Turn(n, p) \in Records(cited, Both) /\ Turn(n, q) \in Records(cited, Both)
        /\ At(cited, Turn(n, p)) = At(other, p) /\ At(cited, Turn(n, q)) = At(other, q)
    BY <1>1
  <2>2. /\ At(cited, Turn(n, p)).key # NULL
        /\ ValuesEqual(At(cited, Turn(n, p)).key, At(cited, Turn(n, q)).key)
             => Turn(n, p) = Turn(n, q)
    BY <2>1 DEF Categorical
  <2>3. Turn(n, p) = Turn(n, q) => p = q
    BY <1>1
  <2> QED
    BY <2>1, <2>2, <2>3
<1> QED
  BY <1>2 DEF Categorical

\* No name is found more than once.
Single(cited, names) ==
  \A k \in names : LET own == With(cited, Records(cited, Both), k)
                   IN  own = {} \/ Only(own)

LEMMA TurnedSingle ==
  ASSUME NEW cited, NEW other, TurnedOver(cited, other), TurnedOver(other, cited), NEW names,
         Single(cited, names)
  PROVE  Single(other, names)
<1> SUFFICES ASSUME NEW k \in names
             PROVE  LET own == With(other, Records(other, Both), k) IN own = {} \/ Only(own)
  BY DEF Single
<1> DEFINE own(x) == With(x, Records(x, Both), k)
<1>1. own(cited) = {} \/ Only(own(cited))
  BY DEF Single
<1>2. (own(cited) = {} <=> own(other) = {}) /\ (Only(own(cited)) <=> Only(own(other)))
  BY TurnedWith
<1> QED
  BY <1>1, <1>2

LEMMA TurnedCovered ==
  ASSUME NEW cited, NEW other, TurnedOver(cited, other), TurnedOver(other, cited), NEW names,
         NEW complete, Single(cited, names),
         Covered(cited, Records(cited, Both), names, complete)
  PROVE  Covered(other, Records(other, Both), names, complete)
<1> DEFINE n == Len(cited)
           own(x, k) == With(x, Records(x, Both), k)
<1>1. \A k \in names : own(other, k) # {}
  <2> SUFFICES ASSUME NEW k \in names
               PROVE  own(other, k) # {}
    OBVIOUS
  <2>1. own(cited, k) # {}
    BY DEF Covered
  <2> QED
    BY <2>1, TurnedWith
<1>2. ASSUME complete, NEW q \in Records(other, Both)
      PROVE  /\ At(other, q).key # EmptyText
             /\ \E k \in names : q = CanonicalKey(other, Records(other, Both), k)
  <2> DEFINE p == Turn(n, q)
  <2>1. p \in Records(cited, Both) /\ At(cited, p) = At(other, q)
    <3>1. Len(other) = n
      BY DEF TurnedOver
    <3>2. LET r == Turn(Len(other), q)
          IN  r \in Records(cited, Both) /\ At(cited, r) = At(other, q)
      BY TurnedRecords
    <3> QED
      BY <3>1, <3>2
  <2> HIDE DEF p
  <2>2. /\ At(cited, p).key # EmptyText
        /\ \E k \in names : p = CanonicalKey(cited, Records(cited, Both), k)
    BY <1>2, <2>1 DEF Covered
  <2>3. PICK k \in names : p = First(own(cited, k))
    BY <2>2 DEF CanonicalKey
  <2> DEFINE S == own(cited, k)
             T == own(other, k)
  <2>4. Only(S) /\ Only(T)
    <3>1. S # {} /\ (S = {} \/ Only(S))
      BY DEF Covered, Single
    <3>2. Only(S) <=> Only(T)
      BY TurnedWith
    <3> QED
      BY <3>1, <3>2
  <2>5. p \in S
    <3> HIDE DEF S
    <3>1. First(S) \in S
      BY <2>4, OnlyOne
    <3> QED
      BY <2>3, <3>1 DEF S
  <2>6. q \in T
    <3>1. ValuesEqual(At(cited, p).key, k)
      BY <2>5 DEF With
    <3> QED
      BY <2>1, <3>1 DEF With
  <2>7. q = First(T)
    <3> HIDE DEF T
    <3>1. T = {First(T)}
      BY <2>4, OnlyOne
    <3> QED
      BY <2>6, <3>1
  <2> QED
    BY <2>1, <2>2, <2>7 DEF CanonicalKey
<1> QED
  BY <1>1, <1>2 DEF Covered

LEMMA TurnedDistribution ==
  ASSUME NEW c, NEW d, TurnedOver(c.cited, d.cited), TurnedOver(d.cited, c.cited),
         d.contract = c.contract, d.listed = c.listed, d.spec = c.spec,
         Single(c.cited, DOMAIN c.spec.expected)
  PROVE  DistributionVerdict(d) = DistributionVerdict(c)
<1> DEFINE spec == c.spec
           names == DOMAIN spec.expected
           records(cited) == Records(cited, Both)
           value(cited, k) == At(cited, CanonicalKey(cited, records(cited), k)).value
           present(cited) == {At(cited, p).key : p \in records(cited)}
           actual(cited) == [k \in present(cited) |-> value(cited, k)]
           shown(cited) == /\ Categorical(cited, records(cited))
                           /\ Covered(cited, records(cited), names, spec.complete)
           agree(cited) == /\ \A k \in names : /\ NumbersEqual(value(cited, k), spec.expected[k])
                                               /\ InRange(value(cited, k), spec.mode)
                           /\ spec.complete /\ spec.mode # "count" =>
                                /\ \A k \in DOMAIN actual(cited) : actual(cited)[k] # NULL
                                /\ NumbersEqual(Sum(actual(cited)), Whole(spec.mode))
           t(cited) == Doubt(spec.complete => \A i \in DOMAIN cited : cited[i].grouped)
           u(cited) == Columns(cited, Both)
           v(cited) == Check(shown(cited))
           x(cited) == Check(shown(cited) => agree(cited))
<1>1. DistributionVerdict(c) = Verdict(<<Contract(c), t(c.cited), u(c.cited), v(c.cited),
                                         Doubt(c.listed), x(c.cited), Doubt(spec.complete)>>)
  BY Zenon DEF DistributionVerdict
<1>2. DistributionVerdict(d) = Verdict(<<Contract(c), t(d.cited), u(d.cited), v(d.cited),
                                         Doubt(c.listed), x(d.cited), Doubt(spec.complete)>>)
  <2>1. Contract(d) = Contract(c)
    BY DEF Contract
  <2> QED
    BY <2>1 DEF DistributionVerdict
<1>3. t(d.cited) = t(c.cited) /\ u(d.cited) = u(c.cited)
  BY TurnedReadable DEF Doubt
<1>4. present(d.cited) = present(c.cited)
  <2>1. \A p \in records(c.cited) : \E q \in records(d.cited) : At(d.cited, q) = At(c.cited, p)
    BY TurnedRecords
  <2>2. \A p \in records(d.cited) : \E q \in records(c.cited) : At(c.cited, q) = At(d.cited, p)
    BY TurnedRecords
  <2> HIDE DEF records
  <2>3. present(c.cited) \subseteq present(d.cited)
    BY <2>1
  <2>4. present(d.cited) \subseteq present(c.cited)
    BY <2>2
  <2> QED
    BY <2>3, <2>4, Zenon
<1>5. Categorical(d.cited, records(d.cited)) <=> Categorical(c.cited, records(c.cited))
  BY TurnedCategorical
<1>6. shown(d.cited) <=> shown(c.cited)
  <2>1. Single(d.cited, names)
    BY TurnedSingle
  <2>2. Covered(d.cited, records(d.cited), names, spec.complete)
          <=> Covered(c.cited, records(c.cited), names, spec.complete)
    BY <2>1, TurnedCovered
  <2> HIDE DEF records, names
  <2> QED
    BY <1>5, <2>2
<1>7. ASSUME NEW k, Only(With(c.cited, records(c.cited), k))
      PROVE  value(d.cited, k) = value(c.cited, k)
  BY <1>7, TurnedWith DEF CanonicalKey
<1>8. ASSUME shown(c.cited)
      PROVE  /\ \A k \in names : value(d.cited, k) = value(c.cited, k)
             /\ actual(d.cited) = actual(c.cited)
  <2>1. ASSUME NEW k \in names
        PROVE  Only(With(c.cited, records(c.cited), k))
    BY <1>8 DEF Covered, Single
  <2>2. ASSUME NEW k \in present(c.cited)
        PROVE  Only(With(c.cited, records(c.cited), k))
    <3>1. PICK p \in records(c.cited) : At(c.cited, p).key = k
      OBVIOUS
    <3>2. With(c.cited, records(c.cited), k) = {p}
      <4>1. Tabular(c.cited) /\ records(c.cited) \subseteq Places(c.cited)
        BY DEF TurnedOver, Records
      <4>2. Categorical(c.cited, records(c.cited))
        BY <1>8
      <4> HIDE DEF records
      <4> QED
        BY <3>1, <4>1, <4>2, CategoriesAreRows
    <3> QED
      BY <3>2 DEF Only
  <2>3. \A k \in names \cup present(c.cited) : value(d.cited, k) = value(c.cited, k)
    <3> HIDE DEF names, present, value, records
    <3> QED
      BY <1>7, <2>1, <2>2
  <2> HIDE DEF names, present, records, value
  <2> QED
    BY <1>4, <2>3
<1>9. shown(c.cited) => (agree(d.cited) <=> agree(c.cited))
  <2> SUFFICES ASSUME shown(c.cited)
               PROVE  agree(d.cited) <=> agree(c.cited)
    OBVIOUS
  <2>1. /\ \A k \in names : value(d.cited, k) = value(c.cited, k)
        /\ actual(d.cited) = actual(c.cited)
    BY <1>8
  <2> HIDE DEF actual, present, shown, value
  <2> QED
    BY <2>1
<1>10. v(d.cited) = v(c.cited) /\ x(d.cited) = x(c.cited)
  <2> HIDE DEF shown, agree
  <2> QED
    BY <1>6, <1>9 DEF Check
<1> HIDE DEF t, u, v, x
<1> QED
  BY <1>1, <1>2, <1>3, <1>10

\* There are finitely many places.
LEMMA PlacesAreFinite ==
  ASSUME NEW cited, Tabular(cited)
  PROVE  IsFiniteSet(Places(cited))
<1> DEFINE D == DOMAIN cited
           f == [i \in D |-> {i} \X DOMAIN cited[i].rows]
           T == {f[i] : i \in D}
<1>1. Places(cited) = UNION T
  BY DEF Places
<1>2. IsFiniteSet(D)
  <2>1. D = 1..Len(cited) /\ Len(cited) \in Nat
    BY PlacesOfRows
  <2> QED
    BY <2>1, FS_Interval
<1>3. \A i \in D : IsFiniteSet(f[i])
  <2> SUFFICES ASSUME NEW i \in D
               PROVE  IsFiniteSet({i} \X DOMAIN cited[i].rows)
    OBVIOUS
  <2>1. IsFiniteSet(DOMAIN cited[i].rows)
    <3>1. DOMAIN cited[i].rows = 1..Len(cited[i].rows) /\ Len(cited[i].rows) \in Nat
      BY PlacesOfRows
    <3> QED
      BY <3>1, FS_Interval
  <2> QED
    BY <2>1, FS_Singleton, FS_Product
<1>4. IsFiniteSet(T)
  <2>1. f \in Surjection(D, T)
    <3> HIDE DEF D
    <3> QED
      BY DEF Surjection
  <2> HIDE DEF D, f, T
  <2> QED
    BY <1>2, <2>1, FS_Surjection
<1> HIDE DEF D, f
<1> QED
  BY <1>1, <1>3, <1>4, FS_UNION

\* In whatever order a claim cites its evidence, a comparison, an aggregate or a
\* distribution of which no category is found twice gets the same verdict as in
\* the reverse order.
THEOREM OrderOfCitations == Spec => []CitationOrderIsIrrelevant
<1>1. Judged => CitationOrderIsIrrelevant
  <2> SUFFICES ASSUME Judged, status # "NOT_VERIFIED",
                      kind \in {"COMPARISON", "DISTRIBUTION", "AGGREGATION"}
               PROVE  CitationOrderIsIrrelevant
    BY DEF CitationOrderIsIrrelevant
  <2>1. /\ Tabular(claim.cited) /\ {"contract", "spec", "cited"} \subseteq DOMAIN claim
        /\ kind = "COMPARISON" => status = ComparisonVerdict(claim)
        /\ kind = "DISTRIBUTION" => status = DistributionVerdict(claim)
        /\ kind = "AGGREGATION" => status = AggregationVerdict(claim)
    BY GivenClaim DEF ClaimType
  <2>2. /\ kind \in {"COMPARISON", "DISTRIBUTION"} => "listed" \in DOMAIN claim
        /\ kind = "AGGREGATION" => "selector" \in DOMAIN claim
    <3>1. claim \in ClaimsOf(kind) /\ kind \in ClaimType \ {"RANKING_TOP_K"}
      BY DEF Judged, ClaimType
    <3> QED
      BY <3>1, ContractAssumption
  <2>3. /\ Reversed.cited = Reverse(claim.cited)
        /\ Reversed.contract = claim.contract /\ Reversed.spec = claim.spec
        /\ kind \in {"COMPARISON", "DISTRIBUTION"} => Reversed.listed = claim.listed
        /\ kind = "AGGREGATION" => Reversed.selector = claim.selector
    BY <2>1, <2>2 DEF Reversed
  <2>4. TurnedOver(claim.cited, Reversed.cited) /\ TurnedOver(Reversed.cited, claim.cited)
    BY <2>1, <2>3, ReverseTurnsOver
  <2>5. CASE kind = "COMPARISON"
    <3>1. ComparisonVerdict(Reversed) = status
      BY <2>1, <2>3, <2>4, <2>5, TurnedComparison
    <3> QED
      BY <2>5, <3>1 DEF CitationOrderIsIrrelevant
  <2>6. CASE kind = "DISTRIBUTION"
    <3> DEFINE names == DOMAIN claim.spec.expected
               records == Records(claim.cited, Both)
    <3>1. ASSUME \A k \in names : Occurrences(k) <= 1
          PROVE  DistributionVerdict(Reversed) = status
      <4>1. \A k \in names : With(claim.cited, records, k) = {} \/ Only(With(claim.cited, records, k))
        <5> SUFFICES ASSUME NEW k \in names
                     PROVE  With(claim.cited, records, k) = {} \/ Only(With(claim.cited, records, k))
          OBVIOUS
        <5> DEFINE own == With(claim.cited, records, k)
        <5>1. IsFiniteSet(own)
          <6>1. own \subseteq Places(claim.cited)
            BY DEF With, Records
          <6> QED
            BY <2>1, <6>1, PlacesAreFinite, FS_Subset
        <5>2. Cardinality(own) <= 1
          BY <2>1, <3>1, RowsAreRecords
        <5> HIDE DEF own
        <5>3. Cardinality(own) \in Nat
          BY <5>1, FS_CardinalityType
        <5>4. CASE Cardinality(own) = 0
          BY <5>1, <5>4, FS_EmptySet DEF own
        <5>5. CASE Cardinality(own) = 1
          <6>1. Only(own)
            BY <5>1, <5>5, CountedOnce
          <6> QED
            BY <6>1 DEF own
        <5> QED
          BY <5>2, <5>3, <5>4, <5>5
      <4>2. Single(claim.cited, DOMAIN claim.spec.expected)
        BY <4>1, Zenon DEF Single
      <4> QED
        BY <2>1, <2>3, <2>4, <2>6, <4>2, TurnedDistribution
    <3> QED
      BY <2>6, <3>1 DEF CitationOrderIsIrrelevant
  <2>7. CASE kind = "AGGREGATION"
    <3>1. AggregationVerdict(Reversed) = status
      BY <2>1, <2>3, <2>4, <2>7, TurnedAggregation
    <3> QED
      BY <2>7, <3>1 DEF CitationOrderIsIrrelevant
  <2> QED
    BY <2>5, <2>6, <2>7
<1> QED
  BY <1>1, ClaimsAreJudged, PTL

-----------------------------------------------------------------------------
(* Where a subject is found.                                                 *)

\* A result has a number of columns that all rows have.
LEMMA WidthIsThere ==
  ASSUME NEW block, block.projection \in Seq(Terms), block.declared \in Seq(Names),
         IsSequence(block.rows), \A j \in DOMAIN block.rows : IsSequence(block.rows[j])
  PROVE  /\ ReplayColumns(block) \in Seq(Names) /\ Len(ReplayColumns(block)) \in Nat
         /\ Width(block) \in 0..Len(ReplayColumns(block))
<1> DEFINE n == Len(ReplayColumns(block))
           lens == {Len(block.rows[j]) : j \in DOMAIN block.rows}
<1>1. ReplayColumns(block) \in Seq(Names) /\ n \in Nat
  BY ColumnsAreNames, LenProperties
<1>2. lens \subseteq Nat
  <2>1. \A j \in DOMAIN block.rows : Len(block.rows[j]) \in Nat
    BY LenProperties DEF IsSequence
  <2> QED
    BY <2>1
<1> HIDE DEF n
<1>3. PICK w \in lens \cup {n} : \A m \in lens \cup {n} : w <= m
  <2> DEFINE S == lens \cup {n}
  <2>1. S \subseteq Nat /\ S # {}
    BY <1>1, <1>2
  <2> HIDE DEF S
  <2>2. \E w \in S : \A m \in S : w <= m
    BY <2>1, Least
  <2> QED
    BY <2>2 DEF S
<1>4. /\ w \in 0..n
      /\ \A j \in DOMAIN block.rows : w <= Len(block.rows[j])
      /\ w = n \/ \E j \in DOMAIN block.rows : w = Len(block.rows[j])
  BY <1>1, <1>2, <1>3
<1>5. Width(block) \in 0..n
  BY <1>4, Zenon DEF Width, n
<1> QED
  BY <1>1, <1>5 DEF n

\* A run is its start and its span.
LEMMA RunsAreSequences ==
  ASSUME NEW start \in Nat, NEW span \in Nat \ {0}
  PROVE  /\ Len(Run(start, span)) = span /\ Run(start, span)[1] = start
         /\ span = 1 => Run(start, span) = <<start>>
<1> DEFINE r == Run(start, span)
<1>1. r = [i \in 1..span |-> (start + i) - 1]
  BY DEF Run
<1>2. \A i \in 1..span : (start + i) - 1 \in Int
  OBVIOUS
<1>3. r \in Seq(Int)
  BY <1>1, <1>2, IsASeq
<1>4. DOMAIN r = 1..span /\ 1 \in 1..span
  BY <1>1
<1>5. Len(r) = span
  BY <1>3, <1>4, LenProperties
<1>6. r[1] = start
  BY <1>1, <1>4
<1>7. ASSUME span = 1
      PROVE  r = <<start>>
  <2>1. DOMAIN r = {1}
    BY <1>4, <1>7
  <2>2. r = [i \in {1} |-> start]
    BY <1>1, <1>6, <2>1
  <2>3. <<start>> = [i \in {1} |-> start]
    OBVIOUS
  <2> QED
    BY <2>2, <2>3
<1> QED
  BY <1>5, <1>6, <1>7

\* What quality says of a place: each subject is, but for its writing, in some row.
LEMMA QualityShowsSubjects ==
  ASSUME NEW subjects, NEW rows, NEW indices, SubjectQuality(subjects, rows, indices) # {}
  PROVE  \A s \in subjects : \E j \in DOMAIN rows : TextsEqual(JoinCells(rows[j], indices), s)
<1> DEFINE shown == {j \in DOMAIN rows : Len(indices) = 1 => rows[j][indices[1]] # NoCell}
           join(j) == JoinCells(rows[j], indices)
<1>1. \/ \A s \in subjects : \E j \in shown : join(j) = s /\ ~Spaced(rows[j], indices)
      \/ \A s \in subjects : \E j \in shown : TextsEqual(join(j), s)
  BY DEF SubjectQuality
<1>2. \A s : TextsEqual(s, s)
  BY DEF TextsEqual
<1> HIDE DEF join
<1>3. \A s \in subjects : \E j \in shown : TextsEqual(join(j), s)
  BY <1>1, <1>2
<1> QED
  BY <1>3 DEF join

\* The place at which the subjects of a claim are found in a block, if they are:
\* one run of columns that shows them, before which no other is tried.
LEMMA BestPlace ==
  ASSUME NEW c, NEW block, c.preferred \in Names,
         block.projection \in Seq(Terms), block.declared \in Seq(Names),
         IsSequence(block.rows), \A j \in DOMAIN block.rows : IsSequence(block.rows[j]),
         ResolveSubject(c, block) # {}
  PROVE  \E start \in 1..Width(block), span \in 1..MaxCompositeWidth :
           LET best == Run(start, span)
               first == ResolveColumn(SubSeq(ReplayColumns(block), 1, Width(block)), c.preferred)
           IN  /\ \A m \in ResolveSubject(c, block) : m.indices = best
               /\ SubjectQuality(c.subjects, block.rows, best) # {}
               /\ \A i \in 1..Width(block) :
                    SubjectQuality(c.subjects, block.rows, <<i>>) # {}
                      => Place(block, c.preferred, best) <= Place(block, c.preferred, <<i>>)
<1> DEFINE w == Width(block)
           place(r) == Place(block, c.preferred, r)
           fits == {r \in Runs(block) : /\ r[Len(r)] <= w
                                        /\ SubjectQuality(c.subjects, block.rows, r) # {}}
           best == CHOOSE r \in fits : \A q \in fits : place(r) <= place(q)
<1>1. w \in Nat /\ MaxCompositeWidth \in 2..3
  BY WidthIsThere, WordsAssumption
<1>2. fits # {} /\ \A m \in ResolveSubject(c, block) : m.indices = best
  BY DEF ResolveSubject
<1>3. \A r \in Runs(block) : \E start \in 1..w, span \in 1..MaxCompositeWidth :
        r = Run(start, span)
  BY DEF Runs
<1>4. ASSUME NEW r \in Runs(block)
      PROVE  place(r) \in Nat
  <2>1. PICK start \in 1..w, span \in 1..MaxCompositeWidth : r = Run(start, span)
    BY <1>3
  <2>2. Len(r) = span /\ r[1] = start
    <3>1. start \in Nat /\ span \in Nat \ {0}
      BY <1>1
    <3> QED
      BY <2>1, <3>1, RunsAreSequences
  <2>3. span * (w + 1) + start \in Nat
    BY <1>1
  <2>4. place(r) \in {0, Len(r) * (w + 1) + r[1]}
    BY Zenon DEF Place
  <2>5. place(r) \in {0, span * (w + 1) + start}
    BY <2>2, <2>4
  <2> HIDE DEF place
  <2> QED
    BY <2>3, <2>5
<1>5. best \in fits /\ \A q \in fits : place(best) <= place(q)
  <2> DEFINE S == {place(r) : r \in fits}
  <2>1. S \subseteq Nat /\ S # {}
    BY <1>2, <1>4
  <2> HIDE DEF S
  <2>2. PICK n \in S : \A m \in S : n <= m
    BY <2>1, Least
  <2>3. \E r \in fits : \A q \in fits : place(r) <= place(q)
    <3> HIDE DEF fits, place
    <3> QED
      BY <2>2 DEF S
  <2> HIDE DEF fits, place
  <2> QED
    BY <2>3
<1>6. PICK start \in 1..w, span \in 1..MaxCompositeWidth : best = Run(start, span)
  <2>1. best \in Runs(block)
    BY <1>5
  <2> HIDE DEF best
  <2> QED
    BY <1>3, <2>1
<1>7. SubjectQuality(c.subjects, block.rows, best) # {}
  <2> HIDE DEF best
  <2> QED
    BY <1>5
<1>8. ASSUME NEW i \in 1..w, SubjectQuality(c.subjects, block.rows, <<i>>) # {}
      PROVE  place(best) <= place(<<i>>)
  <2>1. i \in Nat /\ 1 \in 1..MaxCompositeWidth
    BY <1>1
  <2>2. <<i>> = Run(i, 1)
    BY <2>1, RunsAreSequences
  <2>3. <<i>> \in Runs(block)
    BY <2>1, <2>2 DEF Runs
  <2>4. Len(<<i>>) = 1 /\ <<i>>[1] = i /\ i <= w
    BY <1>1
  <2>5. <<i>>[Len(<<i>>)] <= w
    BY <2>4
  <2>6. <<i>> \in fits
    BY <1>8, <2>3, <2>5
  <2> HIDE DEF fits, best, place
  <2> QED
    BY <1>5, <2>6
<1> HIDE DEF best, place
<1> QED
  BY <1>2, <1>6, <1>7, <1>8 DEF place

\* A single column of a block is tried before any run, and the preferred one first.
LEMMA ColumnsBeforeRuns ==
  ASSUME NEW c, NEW block, c.preferred \in Names,
         block.projection \in Seq(Terms), block.declared \in Seq(Names),
         IsSequence(block.rows), \A j \in DOMAIN block.rows : IsSequence(block.rows[j]),
         NEW start \in 1..Width(block), NEW span \in 1..MaxCompositeWidth,
         NEW i \in 1..Width(block),
         Place(block, c.preferred, Run(start, span)) <= Place(block, c.preferred, <<i>>)
  PROVE  /\ Len(Run(start, span)) = 1
         /\ \A m \in ResolveColumn(SubSeq(ReplayColumns(block), 1, Width(block)), c.preferred) :
              m.index = i => Run(start, span) = <<i>>
<1> DEFINE w == Width(block)
           first == ResolveColumn(SubSeq(ReplayColumns(block), 1, w), c.preferred)
           best == Run(start, span)
           at == Place(block, c.preferred, best)
           there == Place(block, c.preferred, <<i>>)
<1>1. w \in Nat /\ MaxCompositeWidth \in 2..3 /\ start \in Nat /\ span \in Nat \ {0} /\ i \in Nat
  BY WidthIsThere, WordsAssumption
<1>2. Len(best) = span /\ best[1] = start /\ (span = 1 => best = <<start>>)
  BY <1>1, RunsAreSequences
<1>3. Len(<<i>>) = 1 /\ <<i>>[1] = i
  OBVIOUS
<1>4. at = IF span = 1 /\ \E m \in first : m.index = start THEN 0 ELSE span * (w + 1) + start
  <2> HIDE DEF best
  <2> QED
    BY <1>2 DEF Place
<1>5. there = IF \E m \in first : m.index = i THEN 0 ELSE 1 * (w + 1) + i
  BY <1>3 DEF Place
<1>6. \A m, o \in first : m = o
  BY DEF ResolveColumn
<1>7. at <= there
  OBVIOUS
<1> HIDE DEF at, there, first, best
<1>8. span = 1
  <2> SUFFICES ASSUME span # 1
               PROVE  FALSE
    OBVIOUS
  <2>1. span = 2 \/ span = 3
    BY <1>1
  <2>2. at = span * (w + 1) + start
    BY <1>4
  <2>3. there <= (w + 1) + i
    <3>1. 1 * (w + 1) + i = (w + 1) + i /\ 0 <= (w + 1) + i
      BY <1>1
    <3> QED
      BY <1>1, <1>5, <3>1
  <2>4. at > (w + 1) + i
    <3>1. start >= 1 /\ i <= w
      BY <1>1
    <3>2. CASE span = 2
      BY <1>1, <2>2, <3>1, <3>2
    <3>3. CASE span = 3
      BY <1>1, <2>2, <3>1, <3>3
    <3> QED
      BY <2>1, <3>2, <3>3
  <2>5. there \in Int
    BY <1>1, <1>5
  <2> QED
    BY <1>1, <1>7, <2>2, <2>3, <2>4, <2>5
<1>9. ASSUME NEW m \in first, m.index = i
      PROVE  best = <<i>>
  <2>1. there = 0
    BY <1>5, <1>9
  <2>2. \E o \in first : o.index = start
    <3> SUFFICES ASSUME ~ \E o \in first : o.index = start
                 PROVE  FALSE
      OBVIOUS
    <3>1. at = span * (w + 1) + start
      BY <1>4
    <3>2. at > 0
      BY <1>1, <1>8, <3>1
    <3> QED
      BY <1>1, <1>7, <1>8, <2>1, <3>1, <3>2
  <2>3. start = i
    BY <1>6, <1>9, <2>2
  <2> QED
    BY <1>2, <1>8, <2>3
<1> QED
  BY <1>2, <1>8, <1>9 DEF first, best

\* A subject that is found is read where it is shown.
LEMMA SubjectsAreRead ==
  ASSUME claim \in SubjectClaims, Found(claim) # {}
  PROVE  ReadAsFound
<1> DEFINE k == MatchedBlock(claim)
           block == claim.cited[k]
           w == Width(block)
           columns == SubSeq(ReplayColumns(block), 1, w)
           first == ResolveColumn(columns, claim.preferred)
           match == Match(claim)
<1>1. /\ claim.preferred \in Names
      /\ IsSequence(claim.cited)
      /\ \A i \in DOMAIN claim.cited :
           LET b == claim.cited[i]
           IN  /\ b.projection \in Seq(Terms) /\ b.declared \in Seq(Names)
               /\ IsSequence(b.rows) /\ \A j \in DOMAIN b.rows : IsSequence(b.rows[j])
  BY SubjectAssumption
<1>2. k \in Found(claim) /\ k \in DOMAIN claim.cited
  <2> DEFINE S == Found(claim)
  <2>1. S \subseteq DOMAIN claim.cited
    BY DEF Found
  <2>2. DOMAIN claim.cited \subseteq Nat
    BY <1>1, LenProperties DEF IsSequence
  <2>3. S \subseteq Nat /\ S # {}
    BY <2>1, <2>2
  <2>4. k = CHOOSE i \in S : \A j \in S : i <= j
    BY DEF MatchedBlock
  <2> HIDE DEF S, k
  <2>5. k \in S
    BY <2>3, <2>4, Least
  <2> QED
    BY <2>1, <2>5 DEF S
<1>3. ResolveSubject(claim, block) # {}
  BY <1>2 DEF Found
<1>4. match \in ResolveSubject(claim, block)
  BY <1>3 DEF Match
<1>5. /\ block.projection \in Seq(Terms) /\ block.declared \in Seq(Names)
      /\ IsSequence(block.rows) /\ \A j \in DOMAIN block.rows : IsSequence(block.rows[j])
  BY <1>1, <1>2
<1> HIDE DEF k, match
<1>6. PICK start \in 1..w, span \in 1..MaxCompositeWidth :
        LET best == Run(start, span)
        IN  /\ \A m \in ResolveSubject(claim, block) : m.indices = best
            /\ SubjectQuality(claim.subjects, block.rows, best) # {}
            /\ \A i \in 1..w :
                 SubjectQuality(claim.subjects, block.rows, <<i>>) # {}
                   => Place(block, claim.preferred, best) <= Place(block, claim.preferred, <<i>>)
  <2> HIDE DEF block
  <2> QED
    BY <1>1, <1>3, <1>5, BestPlace
<1> DEFINE best == Run(start, span)
<1>7. match.indices = best
  BY <1>4, <1>6
<1>8. \A s \in claim.subjects : RowsOf(claim, s) # {}
  <2> SUFFICES ASSUME NEW s \in claim.subjects
               PROVE  RowsOf(claim, s) # {}
    OBVIOUS
  <2>1. PICK j \in DOMAIN block.rows : TextsEqual(JoinCells(block.rows[j], best), s)
    BY <1>6, QualityShowsSubjects
  <2>2. j \in RowsOf(claim, s)
    BY <1>7, <2>1 DEF RowsOf, match, k
  <2> QED
    BY <2>2
<1>9. ASSUME NEW i \in 1..w, SubjectQuality(claim.subjects, block.rows, <<i>>) # {}
      PROVE  /\ Len(best) = 1
             /\ \A m \in first : m.index = i => best = <<i>>
  <2>1. Place(block, claim.preferred, best) <= Place(block, claim.preferred, <<i>>)
    BY <1>6, <1>9
  <2> HIDE DEF block
  <2> QED
    BY <1>1, <1>5, <2>1, ColumnsBeforeRuns
<1>10. Len(best) > 1 => \A i \in 1..w : SubjectQuality(claim.subjects, block.rows, <<i>>) = {}
  <2>1. ASSUME NEW i \in 1..w, SubjectQuality(claim.subjects, block.rows, <<i>>) # {}
        PROVE  ~(Len(best) > 1)
    <3>1. Len(best) = 1
      BY <1>9, <2>1
    <3> HIDE DEF best
    <3> QED
      BY <3>1
  <2> QED
    BY <2>1, Zenon
<1>11. ASSUME NEW m \in first, SubjectQuality(claim.subjects, block.rows, <<m.index>>) # {}
       PROVE  best = <<m.index>>
  <2>1. m.index \in 1..w
    <3>1. /\ ReplayColumns(block) \in Seq(Names) /\ Len(ReplayColumns(block)) \in Nat
          /\ w \in 0..Len(ReplayColumns(block))
      <4> HIDE DEF block
      <4> QED
        BY <1>5, WidthIsThere
    <3>2. columns \in Seq(Names) /\ Len(columns) = w
      <4> DEFINE r == ReplayColumns(block)
      <4>1. r \in Seq(Names) /\ Len(r) \in Nat /\ w \in 0..Len(r)
        BY <3>1
      <4> HIDE DEF r, w
      <4>2. \A i \in 1..w : i \in 1..Len(r)
        BY <4>1
      <4>3. /\ SubSeq(r, 1, w) \in Seq(Names)
            /\ Len(SubSeq(r, 1, w)) = IF 1 <= w THEN w - 1 + 1 ELSE 0
        BY <4>1, SubSeqProperties
      <4>4. Len(SubSeq(r, 1, w)) = w
        BY <4>1, <4>3
      <4> QED
        BY <4>3, <4>4 DEF r
    <3> HIDE DEF columns
    <3>3. m.index \in DOMAIN columns
      BY <1>1, <3>2, BoundToLike
    <3> QED
      BY <3>2, <3>3, LenProperties
  <2> QED
    BY <1>9, <1>11, <2>1
<1> HIDE DEF best
<1> QED
  BY <1>7, <1>8, <1>10, <1>11 DEF ReadAsFound, match, k

\* A lookup in one block reads the rows of its subject, if there are any.
LEMMA LookupInOneBlock ==
  ASSUME Tabular(claim.cited), Len(claim.cited) = 1, claim.subject # NULL,
         claim.cited[1].cols["value"] # "none",
         NEW own, own = {claim.cited[1].rows[j] : j \in {j \in DOMAIN claim.cited[1].rows :
                                                          ValuesEqual(claim.cited[1].rows[j].key, claim.subject)}}
  PROVE  /\ Holding(claim.cited, claim.subject) = IF own = {} THEN {} ELSE {1}
         /\ own # {} => /\ own = {At(claim.cited, p) : p \in Candidates(claim)}
                        /\ First(Candidates(claim)) \in Candidates(claim)
<1> DEFINE cited == claim.cited
           rows == cited[1].rows
           n == Len(rows)
           holding == Holding(cited, claim.subject)
           found == Candidates(claim)
<1>1. /\ n \in Nat /\ DOMAIN rows = 1..n /\ DOMAIN cited = {1}
      /\ \A p : p \in Places(cited) <=> \E j \in 1..n : p = <<1, j>>
      /\ \A j \in 1..n : At(cited, <<1, j>>) = rows[j]
      /\ \A j, l \in 1..n : Before(<<1, j>>, <<1, l>>) <=> j < l
      /\ Records(cited, {"value"}) = Places(cited)
  <2>1. /\ n \in Nat
        /\ \A p : p \in Places(cited) <=> \E j \in 1..n : p = <<1, j>>
        /\ \A j \in 1..n : At(cited, <<1, j>>) = rows[j]
        /\ \A j, l \in 1..n : Before(<<1, j>>, <<1, l>>) <=> j < l
        /\ \A columns : Records(cited, columns)
                          = IF Resolves(cited[1], columns) THEN Places(cited) ELSE {}
    BY OneSeries, Zenon
  <2>2. Resolves(cited[1], {"value"})
    BY DEF Resolves
  <2>3. DOMAIN cited = 1..1
    BY PlacesOfRows
  <2>4. DOMAIN cited = {1} /\ DOMAIN rows = 1..n
    BY <2>3, PlacesOfRows
  <2> QED
    BY <2>1, <2>2, <2>4, Zenon
<1>2. own # {} <=> \E j \in 1..n : ValuesEqual(rows[j].key, claim.subject)
  BY <1>1
<1>3. holding = IF own = {} THEN {} ELSE {1}
  BY <1>1, <1>2 DEF Holding
<1>4. ASSUME own # {}
      PROVE  own = {At(cited, p) : p \in found} /\ First(found) \in found
  <2>1. holding = {1} /\ Min({1}) = 1
    <3>1. Min({1}) = 1
      BY DEF Min
    <3> HIDE DEF holding
    <3> QED
      BY <1>3, <1>4, <3>1
  <2>2. found = {p \in Places(cited) : ValuesEqual(At(cited, p).key, claim.subject)}
    <3>1. \A p \in Places(cited) : p[1] = 1
      BY <1>1
    <3>2. found = {p \in Places(cited) :
                     claim.subject # NULL /\ holding # {} /\ p[1] = Min(holding)
                       => ValuesEqual(At(cited, p).key, claim.subject)}
      BY <1>1 DEF Candidates
    <3> HIDE DEF holding, found
    <3> QED
      BY <2>1, <3>1, <3>2
  <2> HIDE DEF found
  <2>3. \A p : p \in found <=> \E j \in 1..n : p = <<1, j>> /\ ValuesEqual(rows[j].key, claim.subject)
    BY <1>1, <2>2
  <2>4. own = {At(cited, p) : p \in found}
    <3>1. \A p \in found : At(cited, p) \in own
      BY <1>1, <2>3
    <3>2. \A r \in own : \E p \in found : r = At(cited, p)
      <4> SUFFICES ASSUME NEW r \in own
                   PROVE  \E p \in found : r = At(cited, p)
        OBVIOUS
      <4>1. PICK j \in 1..n : r = rows[j] /\ ValuesEqual(rows[j].key, claim.subject)
        BY <1>1
      <4>2. <<1, j>> \in found /\ At(cited, <<1, j>>) = r
        BY <1>1, <2>3, <4>1
      <4> QED
        BY <4>2
    <3> QED
      BY <3>1, <3>2
  <2>5. First(found) \in found
    <3>1. found \subseteq Places(cited) /\ found # {}
      BY <1>4, <2>2, <2>4
    <3> QED
      BY <3>1, FirstIsThere
  <2> QED
    BY <2>4, <2>5
<1> QED
  BY <1>3, <1>4

\* A VERIFIED lookup in one block shows its subject with the declared value and no
\* other, or pins it; one that is FAILED has another value for its subject.  And a
\* subject is read where it is found.
THEOREM LookupsAreSound == Spec => []LookupIsSound
<1>1. Judged => LookupIsSound
  <2> SUFFICES ASSUME Judged
               PROVE  LookupIsSound
    OBVIOUS
  <2>1. ASSUME kind = "SUBJECT", Found(claim) # {}
        PROVE  ReadAsFound
    BY <2>1, GivenClaim, SubjectsAreRead
  <2>2. ASSUME kind = "VALUE_LOOKUP", claim.subject # NULL, Len(claim.cited) = 1,
               claim.cited[1].cols["value"] # "none",
               NEW own, own = {claim.cited[1].rows[j] : j \in {j \in DOMAIN claim.cited[1].rows :
                                                   ValuesEqual(claim.cited[1].rows[j].key, claim.subject)}}
        PROVE  /\ status = "VERIFIED" =>
                    \/ /\ \E r \in own : r.key = claim.subject
                       /\ \E r \in own : /\ ValuesEqual(r.value, claim.spec.expected)
                                          /\ \A o \in own : ValuesEqual(o.value, r.value)
                    \/ own = {} /\ claim.pinned
               /\ status = "FAILED" /\ own # {} =>
                    \E r \in own : ~ (r.value # NULL /\ r.value = claim.spec.expected)
    <3> DEFINE places == Candidates(claim)
               value(p) == At(claim.cited, p).value
               expected == claim.spec.expected
               a == Contract(claim)
               b == SubjectCheck(claim, "INCONCLUSIVE")
               c == Need(Readable(claim.cited, {"value"}) # {})
               same == \A p \in places : ValuesEqual(value(p), value(First(places)))
               shows == ValuesEqual(value(First(places)), expected)
               d == Check(places # {} /\ same /\ shows)
    <3>1. /\ Tabular(claim.cited) /\ claim.contract \in {"sound", "noise", "missing"}
          /\ status \in {"NOT_VERIFIED", ValueLookupVerdict(claim)}
      BY <2>2, GivenClaim DEF ClaimType
    <3>2. /\ Holding(claim.cited, claim.subject) = IF own = {} THEN {} ELSE {1}
          /\ own # {} => /\ own = {At(claim.cited, p) : p \in places}
                         /\ First(places) \in places
      BY <2>2, <3>1, LookupInOneBlock
    <3>3. ValueLookupVerdict(claim) = Verdict(<<a, b, c, d>>)
      BY DEF ValueLookupVerdict
    <3>4. ASSUME status = "VERIFIED"
          PROVE  \/ /\ \E r \in own : r.key = claim.subject
                    /\ \E r \in own : /\ ValuesEqual(r.value, expected)
                                       /\ \A o \in own : ValuesEqual(o.value, r.value)
                 \/ own = {} /\ claim.pinned
      <4>1. b = "CONFIRMED" /\ d = "CONFIRMED"
        <5> HIDE DEF a, b, c, d
        <5>1. Verdict(<<a, b, c, d>>) = "VERIFIED"
          BY <3>1, <3>3, <3>4
        <5> QED
          BY <5>1, VerdictOfFour
      <4>2. CASE own = {}
        BY <2>2, <3>2, <4>1, <4>2 DEF SubjectCheck
      <4>3. CASE own # {}
        <5>1. same /\ shows
          BY <4>1 DEF Check
        <5>2. First(places) \in places /\ own = {At(claim.cited, p) : p \in places}
          BY <3>2, <4>3
        <5> DEFINE r == At(claim.cited, First(places))
        <5>3. r \in own
          BY <5>2
        <5>4. ValuesEqual(r.value, expected) /\ \A o \in own : ValuesEqual(o.value, r.value)
          <6> HIDE DEF places
          <6> QED
            BY <5>1, <5>2
        <5>5. \E o \in own : o.key = claim.subject
          <6>1. Min({1}) = 1
            BY DEF Min
          <6>2. b = Doubt(Spelled(claim.cited[1], claim.subject))
            BY <2>2, <3>2, <4>3, <6>1 DEF SubjectCheck
          <6>3. Spelled(claim.cited[1], claim.subject)
            BY <4>1, <6>2 DEF Doubt
          <6>4. PICK j \in DOMAIN claim.cited[1].rows : claim.cited[1].rows[j].key = claim.subject
            BY <6>3 DEF Spelled
          <6>5. ValuesEqual(claim.cited[1].rows[j].key, claim.subject)
            BY <6>4 DEF ValuesEqual
          <6> QED
            BY <2>2, <6>4, <6>5
        <5> HIDE DEF r
        <5> QED
          BY <5>3, <5>4, <5>5
      <4> QED
        BY <4>2, <4>3
    <3>5. ASSUME status = "FAILED", own # {}, \A r \in own : r.value # NULL /\ r.value = expected
          PROVE  FALSE
      <4>1. First(places) \in places /\ own = {At(claim.cited, p) : p \in places}
        BY <3>2, <3>5
      <4>2. \A p \in places : value(p) = expected
        BY <3>5, <4>1
      <4>3. d # "REFUTED"
        <5>1. places # {} /\ value(First(places)) = expected
          BY <4>1, <4>2
        <5> HIDE DEF places, value, expected
        <5>2. same /\ shows
          BY <4>2, <5>1 DEF ValuesEqual
        <5> QED
          BY <5>1, <5>2 DEF Check
      <4>4. a # "REFUTED" /\ b # "REFUTED" /\ c # "REFUTED"
        BY <3>1 DEF Contract, SubjectCheck, Doubt, Need
      <4>5. "REFUTED" \in {a, b, c, d}
        <5> HIDE DEF a, b, c, d
        <5>1. Verdict(<<a, b, c, d>>) = "FAILED"
          BY <3>1, <3>3, <3>5
        <5> QED
          BY <5>1, VerdictOfFour
      <4> QED
        BY <4>3, <4>4, <4>5
    <3> QED
      BY <3>4, <3>5
  <2>3. ASSUME kind = "VALUE_LOOKUP", claim.subject # NULL, Len(claim.cited) = 1,
               claim.cited[1].cols["value"] # "none"
        PROVE  LET rows == claim.cited[1].rows
                   own  == {rows[j] : j \in {j \in DOMAIN rows :
                                              ValuesEqual(rows[j].key, claim.subject)}}
               IN  /\ status = "VERIFIED" =>
                        \/ /\ \E r \in own : r.key = claim.subject
                           /\ \E r \in own : /\ ValuesEqual(r.value, claim.spec.expected)
                                              /\ \A o \in own : ValuesEqual(o.value, r.value)
                        \/ own = {} /\ claim.pinned
                   /\ status = "FAILED" /\ own # {} =>
                        \E r \in own : ~ (r.value # NULL /\ r.value = claim.spec.expected)
    BY <2>2, <2>3, Zenon
  <2> QED
    BY <2>1, <2>3, Zenon DEF LookupIsSound
<1> QED
  BY <1>1, ClaimsAreJudged, PTL

=============================================================================
