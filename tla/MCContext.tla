------------------------------ MODULE MCContext ------------------------------
(***************************************************************************)
(* Context for TLC: families of small workbooks, each family free in one   *)
(* respect.  Sheets S and T; labels in column 1, then units, then periods. *)
(***************************************************************************)
EXTENDS Context

MCCaptions == {"RURm", "kEUR"}
MCSelectorLabels == {"Live case"}
MCOddPeriods == {"9M 2025"}
MCMeasureOf ==
    ("RURm" :> [unit |-> "money", currency |-> "RUB", scale |-> "m"])
    @@ ("kEUR" :> [unit |-> "money", currency |-> "EUR", scale |-> "k"])
    @@ ("RUR" :> [unit |-> "money", currency |-> "RUB", scale |-> ""])
    @@ ("percent" :> [unit |-> "rate", currency |-> "", scale |-> ""])
    @@ ("money" :> [unit |-> "money", currency |-> "USD", scale |-> ""])
MCNumberOf == ("0" :> 0) @@ ("1" :> 1) @@ ("5" :> 5) @@ ("9000" :> 9000)
MCFactorOf == ("" :> 1) @@ ("unit" :> 1) @@ ("k" :> 10) @@ ("m" :> 100)

Cell(sheet, row, col, value) ==
    [sheet |-> sheet, row |-> row, col |-> col, call |-> "", args |-> <<>>, tpl |-> "",
     value |-> value, missing |-> FALSE, fmt |-> "general", unparsed |-> FALSE]
Formula(sheet, row, col, call, args, value) ==
    [Cell(sheet, row, col, value) EXCEPT !.call = call, !.args = args, !.tpl = call,
                                         !.missing = (value = "")]
Arg(sheet, row, col) == [sheet |-> sheet, row |-> row, col |-> col, name |-> ""]
Named(name) == [sheet |-> "", row |-> 0, col |-> 0, name |-> name]

Row(row, kind, label) ==
    [row |-> row, kind |-> kind, label |-> label, words |-> <<label>>, parent |-> 0,
     path |-> <<>>, cells |-> <<>>]
Period(col, key) ==
    [col |-> col, key |-> key, kind |-> "period", variant |-> "", group |-> "", dates |-> ""]
Years(from) == <<Period(from, "2024"), Period(from + 1, "2025"), Period(from + 2, "2026")>>
Axis(id, sheet, row, periods) ==
    [id |-> id, sheet |-> sheet, grain |-> "year", header_row |-> row, periods |-> periods,
     notes |-> <<>>]
TimeBlock(id, sheet, axis, rows) ==
    [id |-> id, sheet |-> sheet, kind |-> "timeline", axis_ids |-> <<axis.id>>,
     timeline_ids |-> <<>>, rows |-> rows, label_col |-> 1, header_row |-> axis.header_row,
     headers |-> <<>>]
ParamsBlock(id, sheet, row, headers, rows) ==
    [id |-> id, sheet |-> sheet, kind |-> "params", axis_ids |-> <<>>, timeline_ids |-> <<>>,
     rows |-> rows, label_col |-> 1, header_row |-> row, headers |-> headers]
Sheet(name, axes, blocks) ==
    [name |-> name, axes |-> axes, blocks |-> blocks, plan |-> <<>>, hidden |-> FALSE,
     hidden_rows |-> {}, hidden_cols |-> {}]
Book(cells, sheets) == [cells |-> cells, sheets |-> sheets, names |-> {}]

\* Captions: three rows under a header with or without a caption beside it, each an
\* ordinary line, a section or a caption, with or without a unit of its own.
Lines == {<<"fact", "Costs">>, <<"abstract", "Section">>, <<"abstract", "RURm">>,
          <<"fact", "kEUR">>}
UnitBook(header, l2, l3, l4, own) ==
    LET axis == [Axis("a", "S", 1, Years(3)) EXCEPT !.periods[2].kind = "total"]
    IN  Book(<<Cell("S", 1, 1, header), Cell("S", 2, 3, "9000"),
               Cell("S", 3, 3, "5"), Cell("S", 4, 2, own), Cell("S", 4, 3, "1"),
               Cell("S", 4, 4, "9000"), [Cell("S", 4, 5, "1") EXCEPT !.fmt = "percent"]>>,
             <<Sheet("S", <<axis>>,
                     <<TimeBlock("b", "S", axis,
                         <<Row(2, l2[1], l2[2]), Row(3, l3[1], l3[2]),
                           [Row(4, l4[1], l4[2]) EXCEPT !.parent = 2]>>)>>)>>)
UnitBooks ==
    {UnitBook(h, a, b, c, o) : h \in {"", "RURm"}, a \in Lines, b \in Lines, c \in Lines,
                               o \in {"", "RUR"}}

\* Axes of one sheet: three headers of the same columns, marked or not, each with
\* or without a flag row.
FlagCell(row, on) == Cell("S", row, 3, IF on THEN "1" ELSE "0")
Mark(axis, marked) ==
    IF marked THEN [axis EXCEPT !.periods[1].variant = "A"] ELSE axis
HeaderOf(n) == 10 * n
Flagged(n, mark, flag) ==
    LET axis == Mark(Axis(<<"a", "b", "c">>[n], "S", HeaderOf(n), Years(2)), mark)
    IN  [axis |-> axis,
         block |-> TimeBlock(<<"x", "y", "z">>[n], "S", axis,
                      <<Row(HeaderOf(n) + 2, "fact", "Costs")>> \o
                      (IF flag = "" THEN <<>> ELSE <<Row(HeaderOf(n) + 1, "flag", "Live")>>)),
         cells |-> <<IF flag = "of first" /\ n > 1
                     THEN Formula("S", HeaderOf(n), 2, "REF", <<Arg("S", 10, 2)>>, "2024")
                     ELSE Cell("S", HeaderOf(n), 2, "2024"),
                     FlagCell(HeaderOf(n) + 1, flag = "on")>>]
AxisBook(parts) ==
    Book(FlattenSeq([n \in DOMAIN parts |-> parts[n].cells]),
         <<Sheet("S", [n \in DOMAIN parts |-> parts[n].axis],
                 [n \in DOMAIN parts |-> parts[n].block])>>)
AxisBooks ==
    {AxisBook(<<Flagged(1, m[1], f[1]), Flagged(2, m[2], f[2]), Flagged(3, m[3], f[3])>>) :
        m \in [1..3 -> BOOLEAN], f \in [1..3 -> {"", "on", "off"}]}

\* Timelines of two sheets: the keys agree, the columns, dates and flags may not;
\* the cells of the sheets alternate.
DatedAxis(id, sheet, row, from, dates) ==
    [Axis(id, sheet, row, Years(from)) EXCEPT !.periods[1].dates = dates]
LinkBook(dates, from, flags) ==
    LET a == DatedAxis("a", "S", 1, 2, dates[1])
        b == DatedAxis("b", "T", 1, from, dates[2])
        c == [DatedAxis("c", "T", 5, 2, dates[3]) EXCEPT !.periods[3].key = "2026"]
        rows(n, r, sheet) == <<Row(r + 1, "fact", "Costs")>> \o
            (IF flags[n] = "" THEN <<>> ELSE <<Row(r + 2, "flag", "Live")>>)
        bit(n) == IF flags[n] = "on" THEN "1" ELSE "0"
    IN  Book(<<Cell("S", 1, 2, "2024"), Cell("S", 3, 2, bit(1)), Cell("T", 1, from, "2024"),
               Cell("S", 4, 2, "x"), Cell("T", 3, from, bit(2)), Cell("T", 7, 2, bit(3))>>,
             <<Sheet("S", <<a>>, <<TimeBlock("x", "S", a, rows(1, 1, "S"))>>),
               Sheet("T", <<b, c>>, <<TimeBlock("y", "T", b, rows(2, 1, "T")),
                                      TimeBlock("z", "T", c, rows(3, 5, "T"))>>)>>)
LinkBooks ==
    {LinkBook(d, from, f) : d \in {"", "d1"} \X {"", "d1", "d2"} \X {"", "d2"}, from \in {2, 3},
                            f \in [1..3 -> {"", "on", "off"}]}

\* Flag rows of one axis whose labels repeat or look like a qualified key.
Words == {<<"a">>, <<"b">>, <<"a", "(", "b", ")">>, <<"a", "(", "b", ")", "5">>}
KeyBook(words) ==
    LET axis == Axis("a", "S", 1, Years(2))
    IN  Book([n \in 1..4 |-> Cell("S", n + 1, 2, "1")],
             <<Sheet("S", <<axis>>, <<TimeBlock("x", "S", axis,
                 [n \in 1..4 |-> [Row(n + 1, "flag", "Live") EXCEPT !.words = words[n]]])>>)>>)
KeyBooks == {KeyBook(w) : w \in [1..4 -> Words]}

\* Selectors, neighbours and totals: two constants of a params block, formulas that
\* select by them, by address or by name, with and without a cached value.
Headers == <<[col |-> 2, key |-> <<"value">>, text |-> "Base", role |-> "value"],
             [col |-> 3, key |-> <<"unknown">>, text |-> "9M 2025", role |-> "unknown"],
             [col |-> 4, key |-> <<"unknown">>, text |-> "9M 2025", role |-> "unknown"]>>
Tagged(row, roles) ==
    [Row(row, "fact", "Other") EXCEPT !.cells = [k \in DOMAIN roles |->
                                                   [col |-> k + 1, role |-> roles[k]]]]
SelectBook(first, second, label, value, wide) ==
    LET axis == Axis("a", "S", 4, <<Period(2, "2024"), Period(3, "2025")>>)
        select(row, arg) == Formula("S", row, 2, "INDEX", <<Arg("S", 6, 2), arg>>, value)
    IN  [Book(<<Cell("S", 1, 2, "Base"), Cell("S", 1, 3, "9M 2025"),
                Cell("S", 2, 1, label), Cell("S", 2, 2, "1"),
                Cell("S", 3, 1, "Other"), Formula("S", 3, 3, "REF", <<Arg("S", 5, 3)>>, ""),
                Cell("S", 3, 4, "9M 2025"), Cell("S", 4, 2, "2024"), Cell("S", 4, 3, "2025"),
                select(5, first), select(6, first),
                [select(7, second) EXCEPT !.unparsed = (label = "Other")], select(8, second),
                Formula("S", 9, 2, "SUM", <<Arg("S", 5, 2), Arg("S", wide, 2)>>, "5"),
                Cell("S", 9, 5, "x"), Cell("S", 3, 2, "5")>>,
              <<[Sheet("S", <<axis>>,
                   <<ParamsBlock("p", "S", 1, Headers, 
                      <<[Tagged(2, <<"value">>) EXCEPT !.label = label],
                        Tagged(3, <<"value", "unknown", "unknown">>)>>),
                     TimeBlock("x", "S", axis, <<Row(5, "fact", "Costs"), Row(6, "fact", "Net")>>),
                     ParamsBlock("e", "S", 12, <<>>, <<>>)>>)
                 EXCEPT !.hidden = TRUE, !.hidden_rows = {2, 5, 6, 8, 11}, !.hidden_cols = {5}]>>)
         EXCEPT !.names = {[name |-> "Case", scope |-> "", sheet |-> "S", row |-> 2, col |-> 2],
                           [name |-> "Case", scope |-> "S", sheet |-> "S", row |-> 3, col |-> 2]}]
SelectBooks ==
    {SelectBook(a, b, l, v, w) :
        a \in {Arg("S", 2, 2), Named("Case")}, b \in {Arg("S", 2, 2), Arg("S", 3, 2), Arg("S", 5, 2)},
        l \in {"Live case", "Other"}, v \in {"", "5"}, w \in {6, 8}}

\* Relations: a row of formulas stored in one piece or in two, one or two axes.
Shapes == {"alias", "roll", "sum", "diff"}
ShapeCell(kind, row, col) ==
    CASE kind = "alias" -> Formula("S", row, col, "REF", <<Arg("S", 2, col)>>, "5")
      [] kind = "roll" -> Formula("S", row, col, "REF", <<Arg("S", 2, col - 1)>>, "5")
      [] kind = "sum" -> Formula("S", row, col, "SUM", <<Arg("S", 2, col), Arg("S", 3, col)>>, "5")
      [] kind = "diff" -> Formula("S", row, col, "SUB", <<Arg("S", 2, col), Arg("S", 3, col)>>, "5")
RelationBook(kinds, split, two) ==
    LET axis == Axis("a", "S", 1, Years(2))
        other == [Axis("o", "S", 1, <<Period(5, "M1"), Period(6, "M2")>>) EXCEPT !.grain = "month",
                     !.notes = [n \in 1..4 |-> <<"note", n>>]]
        row == [n \in 1..3 |-> ShapeCell(kinds[n], 4, n + 1)]
        after == <<Cell("S", 5, 2, "9M 2025"), Formula("S", 5, 3, "REF", <<Arg("S", 4, 3)>>, "5")>>
    IN  Book(<<Cell("S", 2, 2, "5"), Cell("S", 3, 2, "9000"), Cell("T", 1, 1, "x")>> \o
             (IF split THEN SubSeq(row, 1, 2) \o after \o SubSeq(row, 3, 3) ELSE row \o after),
             <<Sheet("S", IF two THEN <<axis, other>> ELSE <<axis>>,
                     <<[TimeBlock("x", "S", axis, <<Row(2, "fact", "Costs"), Row(3, "fact", "Net"),
                                     Row(4, "fact", "Total"), Row(5, "fact", "Copy")>>)
                        EXCEPT !.axis_ids = IF two THEN <<"a", "o">> ELSE <<"a">>]>>),
               Sheet("T", <<>>, <<>>)>>)
RelationBooks ==
    {RelationBook(k, s, t) : k \in {"alias", "roll", "sum", "diff"} \X {"alias", "sum"} \X Shapes, s \in BOOLEAN, t \in BOOLEAN}

\* Scenario tables: a params sheet with three value columns, a section and a selected
\* row; the cells of the first row may be missing in any column.
MCSlugOf == ("Base" :> "base") @@ ("Upside" :> "upside")
MCValueWords == {"Value"}
Captioned(row, col, text) == IF text = "" THEN <<>> ELSE <<Cell("P", row, col, text)>>
ParamsBook(heads, first, stray) ==
    Book(FlattenSeq([n \in 1..3 |-> Captioned(1, n + 1, heads[n])])
         \o <<Cell("P", 2, 1, "Section"), Cell("P", 3, 1, "Tariff")>>
         \o FlattenSeq([n \in 1..3 |-> Captioned(3, n + 1, first[n])])
         \o (IF stray THEN <<Cell("P", 3, 6, "RUR"), Cell("P", 3, 7, "9000")>> ELSE <<>>)
         \o FlattenSeq([r \in 1..2 |->
                <<Cell("P", r + 3, 1, "Other")>>
                \o [n \in 1..3 |-> Cell("P", r + 3, n + 1, IF n = r THEN "0" ELSE "1")]]),
         <<[Sheet("P", <<>>, <<>>) EXCEPT !.plan =
              <<[id |-> "p", header_row |-> 1,
                 roles |-> (1 :> "label") @@ (2 :> "value") @@ (3 :> "value") @@ (4 :> "value")]>>]>>)
ParamsBooks ==
    {ParamsBook(h, f, s) : h \in [1..3 -> {"Base", "Upside", "Value", ""}],
                           f \in {<<"1", "5", "9000">>, <<"1", "5", "">>, <<"5", "", "">>},
                           s \in BOOLEAN}
BlankBooks == {ParamsBook(<<"Base", "Upside", "Value">>, f, FALSE) :
                  f \in [1..3 -> {"", "1", "5"}]}

\* Builds fail and are repeated for a few of the books.
Fragile ==
    {SelectBook(a, b, "Other", v, w) :
        a \in {Arg("S", 2, 2), Named("Case")}, b \in {Arg("S", 3, 2), Arg("S", 5, 2)},
        v \in {"", "5"}, w \in {6, 8}}
    \cup {RelationBook(<<"sum", k, "sum">>, TRUE, TRUE) : k \in {"sum", "alias"}}
MCBuilds(b) == IF b \in Fragile THEN 2 ELSE 1
MCFaults(b) == IF b \in Fragile THEN 1 ELSE 0

MCBooks == UnitBooks \cup AxisBooks \cup LinkBooks \cup KeyBooks \cup SelectBooks \cup RelationBooks
           \cup ParamsBooks \cup BlankBooks
=============================================================================
