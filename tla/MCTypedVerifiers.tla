--------------------------- MODULE MCTypedVerifiers ---------------------------
(***************************************************************************)
(* TypedVerifiers on claims over one or two blocks of up to three rows.  Of    *)
(* keys and values, a number from 3 on is equal to the next within the          *)
(* tolerance, but not to the one after it (4 and 5, 5 and 6, never 4 and 6).     *)
(* The checks made of any claim follow, on results of up to three columns.      *)
(***************************************************************************)
EXTENDS TypedVerifiers

Upto(S, n) == UNION {[1..k -> S] : k \in 0..n}

Alone(blocks) == {<<b>> : b \in blocks}

KeyedCells(keys, values) == [key : keys, value : values]

Contracts == {"sound", "noise", "missing"}

\* Keys that are texts: equal to themselves only.
Ann == 1
Bob == 2
Cid == 40

CloseKeys == {4, 5, 6}

Exact   == [key |-> "exact", value |-> "exact"]
Loosely == [key |-> "exact", value |-> "loose"]
Keyless == [key |-> "none", value |-> "exact"]
Lacking == [key |-> "exact", value |-> "none"]

-----------------------------------------------------------------------------

TrendRows ==
  Upto(KeyedCells(1..3, {NULL, 0, 4, 5}), 2)
    \cup {[i \in 1..3 |-> [key |-> k[i], value |-> v[i]]] :
            k \in {<<1, 2, 3>>, <<2, 3, 1>>, <<1, 3, 2>>}, v \in [1..3 -> {0, 4, 5}]}

InTime(rows) == \A i \in 2..Len(rows) : rows[i - 1].key <= rows[i].key

TrendBlocks(rows, resolutions) ==
  {b \in [rows : rows, order : {"none", "time", "then_time", "other"}, cols : resolutions] :
     b.order = "time" => InTime(b.rows)}

TrendSpecs(modes, changes) ==
  [start : {1}, end : {3}, first : {0, 4}, last : {4}, monotonic : BOOLEAN,
   direction : {"increased", "decreased", "unchanged"}, mode : modes, change : changes]

MCTrendClaims ==
  [contract : {"sound"}, spec : TrendSpecs({"none"}, {0}),
   cited : Alone(TrendBlocks(TrendRows, {Exact}))]
  \cup
  [contract : {"sound"}, spec : TrendSpecs({"absolute", "percent"}, {-1, 4, 25}),
   cited : Alone(TrendBlocks([1..2 -> KeyedCells({1, 3}, {0, 4, 5})], {Exact}))]
  \cup
  [contract : Contracts,
   spec : {[start |-> 1, end |-> 3, first |-> 0, last |-> 4, monotonic |-> TRUE,
            direction |-> "increased", mode |-> "none", change |-> 0]},
   cited : TrendBlocks(Upto(KeyedCells(1..3, {0, 4}), 2), {Exact, Loosely, Keyless})
             \X TrendBlocks(Upto(KeyedCells({2, 3, 5}, {4}), 2), {Exact})]
  \cup
  [contract : {"sound"},
   spec : [start : {1, 4}, end : {5, 6}, first : {0}, last : {4}, monotonic : BOOLEAN,
           direction : {"increased"}, mode : {"none"}, change : {0}],
   cited : Alone(TrendBlocks(Upto(KeyedCells({1} \cup CloseKeys, {0, 4}), 3), {Exact}))]

-----------------------------------------------------------------------------

Key(name, desc) == [name |-> name, desc |-> desc]

Orders == {<<>>, <<Key("metric", TRUE)>>, <<Key("metric", FALSE)>>, <<Key("other", TRUE)>>,
           <<Key("unknown", TRUE)>>, <<Key("other", FALSE), Key("metric", TRUE)>>}

TopKBlocks ==
  [order : Orders, limit : {NULL, 1, 2}, scored : BOOLEAN, filters : {"CONFIRMED"},
   rows : Upto(KeyedCells({Ann, Bob, NULL}, {NULL, 4, 5}), 2)]

FilteredBlocks ==
  [order : {<<Key("metric", TRUE)>>}, limit : {2}, scored : {TRUE},
   filters : {"CONFIRMED", "INCONCLUSIVE", "REFUTED"},
   rows : Upto(KeyedCells({Ann, Bob}, {-1, 4, 5}), 2)]

MCTopKClaims ==
  [k : {0, 1, 2}, metric : BOOLEAN, subjects : {NULL, <<>>, <<Ann>>, <<Ann, Bob>>},
   cited : Alone(TopKBlocks \cup FilteredBlocks)]
  \cup
  [k : {2}, metric : {TRUE}, subjects : {<<Ann, Bob>>, <<Bob, Ann>>},
   cited : {b \in FilteredBlocks : b.filters = "CONFIRMED"} \X FilteredBlocks]
  \cup
  [k : {2}, metric : {TRUE}, subjects : [1..2 -> CloseKeys],
   cited : Alone([order : {<<Key("metric", TRUE)>>}, limit : {2}, scored : {TRUE},
                  filters : {"CONFIRMED"}, rows : Upto(KeyedCells(CloseKeys, {4, 5}), 2)])]

-----------------------------------------------------------------------------

PairBlocks(rows) == [rows : rows, cols : {Exact, Loosely, Keyless}]

ComparisonSpecs(operators, lefts, rights, modes, deltas) ==
  [left : {Ann}, right : {Bob}, operator : operators, leftValue : lefts,
   rightValue : rights, mode : modes, delta : deltas]

Operators == {"GT", "GTE", "LT", "LTE", "EQ", "NE"}

MCComparisonClaims ==
  [contract : Contracts, listed : BOOLEAN,
   spec : ComparisonSpecs(Operators, {4, 9}, {4}, {"none"}, {0})
            \cup {[left |-> Ann, right |-> Ann, operator |-> "EQ", leftValue |-> 4,
                   rightValue |-> 4, mode |-> "none", delta |-> 0]},
   cited : Alone(PairBlocks(Upto(KeyedCells({Ann, Bob, Cid}, {4, 5, 9}), 2)))
             \cup PairBlocks(Upto(KeyedCells({Ann, Bob, Cid}, {4, 9}), 1))
                    \X [rows : Upto(KeyedCells({Ann, Bob}, {4, 9}), 2), cols : {Exact, Keyless}]]
  \cup
  [contract : {"sound"}, listed : {TRUE},
   spec : ComparisonSpecs({"GT", "LT", "NE"}, {0, 4, 9}, {0, 4, 9}, {"absolute", "percent"},
                          {-100, -5, 4, 5, 125}),
   cited : Alone([rows : [1..2 -> KeyedCells({Ann, Bob}, {NULL, 0, 4, 9})], cols : {Exact}])]
  \cup
  [contract : {"sound"}, listed : {TRUE},
   spec : [left : CloseKeys, right : CloseKeys, operator : {"GTE", "NE"}, leftValue : {4, 9},
           rightValue : {4}, mode : {"none"}, delta : {0}],
   cited : Alone([rows : Upto(KeyedCells(CloseKeys, {4, 9}), 3), cols : {Exact}])]

-----------------------------------------------------------------------------

GroupBlocks(rows, resolutions, grouped) ==
  [rows : rows, cols : resolutions, grouped : grouped]

MCDistributionClaims ==
  [contract : Contracts, listed : BOOLEAN,
   spec : [expected : {Ann :> 20, Ann :> 20 @@ Bob :> 80, Ann :> 1 @@ Bob :> 0,
                       Ann :> 20 @@ Bob :> 20},
           complete : BOOLEAN, mode : {"count", "share", "percent"}],
   cited : Alone(GroupBlocks(Upto(KeyedCells({Ann, Bob}, {0, 1, 20, 80}), 2), {Exact, Loosely}, BOOLEAN))
             \cup GroupBlocks(Upto(KeyedCells({Ann}, {NULL, 20}), 1), {Exact}, {TRUE})
                    \X GroupBlocks(Upto(KeyedCells({Bob, Cid, NULL}, {20, 80}), 2),
                                   {Exact, Keyless}, BOOLEAN)]
  \cup
  [contract : {"sound"}, listed : {TRUE},
   spec : [expected : {4 :> 20 @@ 6 :> 80, 5 :> 20, 4 :> 20 @@ 5 :> 20,
                       EmptyText :> 20 @@ Ann :> 80},
           complete : BOOLEAN, mode : {"count", "percent"}],
   cited : Alone(GroupBlocks(Upto(KeyedCells(CloseKeys, {20, 80}), 2)
                               \cup Upto(KeyedCells({EmptyText, Ann}, {20, 80}), 2),
                             {Exact}, {TRUE}))
             \cup GroupBlocks(Upto(KeyedCells(CloseKeys, {20, 80}), 1), {Exact}, {TRUE})
                    \X GroupBlocks(Upto(KeyedCells(CloseKeys, {20, 80}), 1), {Exact}, {TRUE})]

-----------------------------------------------------------------------------

AggregateBlocks(rows) ==
  [rows : rows, grouped : BOOLEAN, computes : BOOLEAN,
   cols : {Exact, Loosely, Keyless, Lacking}]

AggregationSpecs(operations, scopes, expected) ==
  [operation : operations, scope : scopes, expected : expected, nonNegative : BOOLEAN]

MCAggregationClaims ==
  [contract : Contracts, selector : {NULL, Ann},
   spec : AggregationSpecs({"SUM"}, {"scalar", "grouped"}, {-4, 4}),
   cited : Alone(AggregateBlocks(Upto(KeyedCells({Ann, Bob}, {NULL, -4, 5}), 2)))]
  \cup
  [contract : {"sound"}, selector : {NULL, Ann},
   spec : AggregationSpecs({"COUNT"}, {"grouped"}, {4}),
   cited : AggregateBlocks(Upto(KeyedCells({Ann, Bob}, {4}), 1))
             \X AggregateBlocks(Upto(KeyedCells({Ann}, {-4, 4, 9}), 1))]
  \cup
  [contract : {"sound"}, selector : CloseKeys,
   spec : AggregationSpecs({"SUM"}, {"grouped"}, {4}),
   cited : Alone(AggregateBlocks(Upto(KeyedCells(CloseKeys, {4, 9}), 2)))]

-----------------------------------------------------------------------------

LookupBlocks(rows) == [rows : rows, spelled : BOOLEAN, cols : {Exact, Lacking}]

MCValueLookupClaims ==
  [contract : Contracts, subject : {NULL, Ann}, pinned : BOOLEAN, spec : [expected : {4}],
   cited : Alone(LookupBlocks(Upto(KeyedCells({Ann, Bob}, {NULL, 3, 4, 5}), 3)))
             \cup LookupBlocks(Upto(KeyedCells({Ann, Bob}, {4, 5, 9}), 1))
                    \X LookupBlocks(Upto(KeyedCells({Ann, Bob}, {4, 5, 9}), 1))]
  \cup
  [contract : {"sound"}, subject : CloseKeys, pinned : BOOLEAN, spec : [expected : {4}],
   cited : Alone(LookupBlocks(Upto(KeyedCells(CloseKeys, {4, 9}), 2)))]

-----------------------------------------------------------------------------

Cut(block) == [block EXCEPT !.rows = Page(block)]

ExistenceBlocks(keys, values) ==
  {Cut(b) : b \in
     [rows : {<<>>}, spelled : BOOLEAN, offset : {NULL, 0, 1}, limit : {NULL, 0, 1},
      all : Upto([key : keys, value : values, flag : BOOLEAN], 1)
              \cup {<<[key |-> Bob, value |-> 1, flag |-> FALSE],
                      [key |-> Ann, value |-> 0, flag |-> FALSE]>>},
      cols : {Exact, Lacking}]}

ExistenceSpecs(by) == [exists : BOOLEAN, by : by, column : BOOLEAN]

MCExistenceClaims ==
  [contract : Contracts, subject : {NULL, Ann}, pinned : BOOLEAN,
   spec : ExistenceSpecs({"rows", "count", "boolean"}),
   cited : Alone(ExistenceBlocks({Ann, Bob}, {NULL, -1, 0, 1}))]
  \cup
  [contract : {"sound"}, subject : {5}, pinned : {FALSE}, spec : ExistenceSpecs({"rows"}),
   cited : Alone(ExistenceBlocks(CloseKeys, {1}))]
  \cup
  [contract : {"sound"}, subject : {Ann}, pinned : {FALSE},
   spec : ExistenceSpecs({"rows", "count"}),
   cited : LET few == {b \in ExistenceBlocks({Ann, Bob}, {1}) : b.spelled /\ b.offset # 0}
           IN  few \X few]

-----------------------------------------------------------------------------
\* Numbers in sixths: one half is a float, a sixth rounds to 0 and five to 1.

MCNumbers == 0..12
MCFloat == [n \in MCNumbers |-> 3 * ((n + 1) \div 3)]

Cell(type, text, number) == [type |-> type, text |-> text, number |-> number]

AllCells ==
  {Cell("null", "", None), Cell("bool", "true", None), Cell("text", "true", None),
   Cell("text", "x", None), Cell("other", "a date", None),
   Cell("text", "6/6", 6), Cell("text", "06/6", 6), Cell("text", "1/6", 1),
   Cell("text", "Infinity", Infinite), Cell("int", "", 6), Cell("int", "", 0),
   Cell("decimal", "", 0), Cell("decimal", "", 5), Cell("decimal", "", 2),
   Cell("decimal", "", 4), Cell("decimal", "", 6), Cell("decimal", "", Infinite),
   Cell("float", "", 3), Cell("float", "", 6), Cell("float", "", Infinite)}

FewCells ==
  {Cell("null", "", None), Cell("text", "06/6", 6), Cell("int", "", 6), Cell("decimal", "", 5)}

Executions(rows) == [fails : {FALSE}, rows : rows] \cup {[fails |-> TRUE, rows |-> <<>>]}

MCReplayClaims ==
  [parses : {TRUE}, width : {1}, counted : {1},
   attached : Executions({<<<<c>>, <<d>>>> : c, d \in AllCells} \cup {<<<<c>>>> : c \in AllCells}),
   replayed : Executions({<<<<c>>, <<d>>>> : c \in AllCells, d \in FewCells}
                           \cup {<<<<c>>>> : c \in AllCells})]
  \cup
  [parses : BOOLEAN, width : {1, 2}, counted : {0, 1},
   attached : Executions(Upto([1..2 -> FewCells], 1) \cup Upto([1..1 -> FewCells], 2)),
   replayed : Executions(Upto([1..2 -> FewCells], 1) \cup Upto([1..1 -> FewCells], 2))]

-----------------------------------------------------------------------------
\* Names: text, the same in lower case, and its words.

Name(text, fold, norm) == [text |-> text, fold |-> fold, norm |-> norm]

MCBlank == Name("", "", <<>>)
MCStar  == Name("*", "*", <<>>)
Percent == Name("%", "%", <<>>)
Total_  == Name("total_", "total_", <<"total">>)
UTotal  == Name("Total", "total", <<"total">>)
LTotal  == Name("total", "total", <<"total">>)
Sales   == Name("sales", "sales", <<"sales">>)
TotalSales == Name("total_sales", "total_sales", <<"total", "sales">>)
SalesFrom  == Name("sales_from", "sales_from", <<"sales", "from">>)

MCNames ==
  {MCBlank, MCStar, Percent, Total_, UTotal, LTotal, Sales, TotalSales, SalesFrom}

Term(kind_, name, alias) == [kind |-> kind_, name |-> name, alias |-> alias]
Column(name) == Term("column", name, MCBlank)

MCTerms ==
  {Column(n) : n \in {UTotal, LTotal, Sales, MCStar}}
    \cup {Term("function", LTotal, MCBlank), Term("star", MCStar, MCBlank),
          Term("other", MCBlank, MCBlank), Term("other", MCBlank, TotalSales),
          Term("column", Sales, Total_), Term("other", MCBlank, Percent)}

NamedBlocks(projections, declared) ==
  [projection : projections, declared : declared, rows : {<<>>}, clauses : {{}}]

MCNameClaims ==
  [metric : MCNames \ {MCStar}, filters : {<<>>},
   cited : Alone(NamedBlocks(Upto(MCTerms, 2),
                             Upto({LTotal, UTotal, Total_, Sales, Percent, MCBlank}, 2)))]
  \cup
  [metric : {LTotal, Sales, Percent}, filters : {<<>>},
   cited : Alone(NamedBlocks([1..3 -> {Column(LTotal), Column(UTotal), Column(Sales),
                                       Term("other", MCBlank, TotalSales)}],
                             [1..3 -> {LTotal, UTotal, Sales, Total_}]))]

\* Filters on a table with the columns sales and total; 3 and 4 are close.

MCTableColumns == {Sales, LTotal}

Predicate(column, operator, values, negated, derived) ==
  [column |-> column, operator |-> operator, values |-> values, negated |-> negated,
   derived |-> derived]

MCPredicates ==
  {Predicate(c, o, {v}, FALSE, FALSE) : c \in {Sales, LTotal}, o \in {"EQ", "NE", "GTE"}, v \in {0, 4}}
    \cup {Predicate(c, "IN", {0, 4}, b, d) : c \in {Sales, LTotal}, b, d \in BOOLEAN}
    \cup {Predicate(Sales, "BETWEEN", {3, 4}, FALSE, FALSE)}

Clauses == {{p} : p \in MCPredicates} \cup {{p, q} : p, q \in {p \in MCPredicates : p.operator = "EQ"}}

Filter(name, stem, form, members) ==
  [key |-> [name |-> name, stem |-> stem], value |-> [form |-> form, members |-> members]]

MCFilters ==
  {Filter(n, MCBlank, "scalar", {v}) : n \in {Sales, LTotal, TotalSales, Percent}, v \in {0, 3}}
    \cup {Filter(SalesFrom, Sales, "scalar", {3}), Filter(Sales, MCBlank, "list", {0, 3}),
          Filter(LTotal, MCBlank, "commas", {0, 3}), Filter(Sales, MCBlank, "list", {})}

FilteredResults(clauses) ==
  {b \in [projection : {<<Column(Sales)>>}, declared : {<<Sales>>, <<LTotal>>},
          clauses : clauses, rows : {<<>>, <<<<0>>>>, <<<<4>>>>}] : FromScope(b)}

MCFilterClaims ==
  [metric : {MCBlank}, filters : Upto(MCFilters, 1),
   cited : Alone(FilteredResults({{c, d} : c, d \in Clauses} \cup {{}}))]
  \cup
  [metric : {MCBlank, Sales}, filters : [1..2 -> MCFilters],
   cited : Alone(FilteredResults({{c} : c \in Clauses}))]
  \cup
  [metric : {MCBlank}, filters : [1..1 -> MCFilters],
   cited : FilteredResults({{c} : c \in Clauses}) \X FilteredResults({{c} : c \in Clauses})]

MCAnnotationClaims == MCNameClaims \cup MCFilterClaims

-----------------------------------------------------------------------------
\* Subjects of one or two words over results of up to three columns.

MCFold == [w \in {"a", "A", "b", "four", "five"} |-> IF w = "A" THEN "a" ELSE w]

MCReading ==
  [w \in DOMAIN MCFold |-> IF w = "four" THEN 4 ELSE IF w = "five" THEN 5 ELSE NULL]

Texts == {<<"a">>, <<"A">>, <<"b">>, <<"a", "b">>}
TextCells == Texts \cup {NoCell}

SubjectBlocks(width, rows) ==
  [projection : {SubSeq(<<Column(LTotal), Column(Sales), Column(Total_)>>, 1, width)},
   declared : {<<>>}, rows : Upto([1..width -> TextCells], rows)]

MCSubjectClaims ==
  {[named |-> FALSE, subjects |-> {}, preferred |-> MCBlank, literals |-> {}, cited |-> <<>>]}
  \cup
  [named : {TRUE},
   subjects : {{}, {<<"a">>}, {<<"a", "b">>}, {<<"A", "b">>}, {<<"a">>, <<"b">>},
               {<<"a">>, <<"a", "b">>}},
   preferred : {MCBlank, Sales}, literals : {{}, {<<"a">>, <<"b">>}, {<<"a", "b">>}},
   cited : Alone(SubjectBlocks(2, 2) \cup SubjectBlocks(3, 1))
             \cup SubjectBlocks(2, 1) \X SubjectBlocks(1, 1)]
  \cup
  [named : {TRUE}, subjects : {{<<"four">>}, {<<"a", "four">>}, {<<"four">>, <<"five">>}},
   preferred : {MCBlank, Sales}, literals : {{}, {<<"five">>}},
   cited : Alone([projection : {<<Column(LTotal), Column(Sales)>>}, declared : {<<>>},
                  rows : Upto([1..2 -> {<<"a">>, <<"four">>, <<"five">>, NoCell}], 2)])]
=============================================================================
