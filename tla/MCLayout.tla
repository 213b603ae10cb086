------------------------------ MODULE MCLayout ------------------------------
(***************************************************************************)
(* Families of small sheets.  Each family varies one part of a sheet and   *)
(* fixes the rest, so their state spaces add up instead of multiplying.    *)
(***************************************************************************)
EXTENDS Layout

B == Cell(<<>>)
N(n) == Cell(<<Num(n)>>)
L(w) == Cell(<<Plain(w)>>)
Y(y) == Cell(<<Year(y)>>)
Sum(c) == [c EXCEPT !.f = "sum"]
article == Plain("article")
Body == Row(<<L("article"), N(5), N(2), N(3)>>)
SheetOf(rows) == [rows |-> rows, hidden |-> {}, below |-> TRUE]

\* One header row of three columns: years, quarters, months, dates, markers, comparisons.
Heads ==
  {<<>>, <<Year(2025)>>, <<YearE(2026)>>, <<Year(2025), article>>, <<Part("Q", 1)>>,
   <<Month(6), Year(2025)>>, <<Year(2025), Word("Y"), Year(2026)>>, <<Date(2025, 3, 31)>>,
   <<Word("H"), Roman(2), Year(2025)>>, <<Month(1), Year(2025), Part("Q", 1)>>}
OneRow ==
  {SheetOf(<<Row(<<B, Cell(a), Cell(b), Cell(c)>>), Body>>) : a, b, c \in Heads}

\* Long headers beside two plain years.
Words == {Year(2025), Word("Y"), Part("Q", 1), article, Plain("mark")}
Long ==
  {SheetOf(<<Row(<<B, Cell(h), Y(2026), Y(2027)>>), Body>>) :
     h \in [1..3 -> Words] \cup [1..4 -> Words \ {Plain("mark")}] \cup
           {<<a, b, article, article, c>> : a, b, c \in Words \cup {Plain("fy")}}}

\* A band of two rows.
Upper == {<<>>, <<Year(2025)>>, <<Year(2026), article>>, <<Month(1), Year(2025)>>}
Lower == {<<>>, <<Part("Q", 1)>>, <<article, Roman(2), Word("Q")>>, <<Num(3)>>, <<Year(2025)>>,
          <<Date(2025, 3, 31)>>}
TwoRows ==
  {SheetOf(<<Row(<<Cell(l), Cell(a), Cell(b), Y(2025)>>),
             Row(<<B, Cell(c), Cell(d), Cell(<<Part("Q", 4)>>)>>), Body>>) :
     l \in {<<>>, <<Word("Q")>>}, a, b \in Upper, c, d \in Lower}

\* Start and end rows of a period, a column without a start.
Bounds ==
  {SheetOf(<<Row(<<L("start"), Cell(a), Cell(b), Cell(<<Date(2025, 7, 1)>>)>>),
             Row(<<L("end"), Cell(<<Date(2025, 3, 31)>>), Cell(c), Cell(<<Date(2025, 9, 30)>>)>>),
             Body>>) :
     a, b \in {<<>>, <<Date(2025, 1, 1)>>, <<Date(2025, 4, 1)>>},
     c \in {<<>>, <<Date(2025, 6, 30)>>}}

\* Five columns, some hidden by the workbook or by their cells.
HiddenCols ==
  {[SheetOf(<<Row(<<B, Cell(a), Cell(b), [Cell(c) EXCEPT !.hid = h], Y(2027)>>),
              Row(<<L("article"), N(5), N(2), N(3), N(4)>>)>>) EXCEPT !.hidden = s] :
     a, b, c \in {<<>>, <<Year(2025)>>, <<Year(2026)>>}, h \in BOOLEAN,
     s \in SUBSET {2, 3}}

\* A year row apart from the row of finer periods under it, a total column.
Banner ==
  {SheetOf(<<Row(<<B, Y(a), Y(b), Y(c), B, B>>), Row(<<L("article"), N(1), N(2), N(3), B, B>>),
             Row(<<B, Cell(<<Year(2025), Part("Q", 1)>>), Cell(<<Year(d), Part("Q", 2)>>),
                   Cell(<<Year(2025), Part("Q", 3)>>), t, B>>),
             Row(<<L("article"), N(5), N(2), N(3), Sum(v), B>>),
             Row(<<L("total"), N(1), N(1), N(1), N(3), B>>)>>) :
     a, b, c, d \in {2025, 2026}, t \in {B, L("total")}, v \in {B, N(10)}}

\* Rows under a header: indents, outline levels and kinds.
Item(i, l, w, v) == [Row(<<L(w), v, v, v>>) EXCEPT !.indent = i, !.level = l]
Outlined == {Item(i, l, "article", N(7)) : i \in 0..1, l \in 0..2} \cup {Item(0, 0, "units", N(7))}
Nested ==
  {Item(i, 0, "article", v) : i \in 0..2, v \in {B, N(7)}}
    \cup {Item(0, 0, "units", B), Item(0, 0, "total", N(7)), Item(1, 0, "check", N(7))}
Years == Row(<<B, Y(2025), Y(2026), Y(2027)>>)
Hier ==
  {SheetOf(<<Years>> \o s) : s \in [1..3 -> Nested]}
Outlines == {[SheetOf(<<Years>> \o s) EXCEPT !.below = FALSE] : s \in [1..4 -> Outlined]}
Below == {SheetOf(<<Years>> \o s) : s \in [1..3 -> Outlined]}

\* Several tables on one sheet: headers, titles, banners, counters, ordinal rulers.
Parts ==
  {Years, Body, Row(<<L("article"), B, B, B>>), Row(<<B, L("article"), L("article"), B>>),
   Row(<<B, B, B, B>>), Row(<<B, N(1), N(2), N(3)>>),
   Row(<<Cell(<<Word("P")>>), N(1), N(2), N(3)>>)}
Tables == {SheetOf(s) : s \in [1..4 -> Parts]}

\* A short run 1, 2, 3 inside the periods: a scenario table.
Wide(w, a, b, c, d, e) == Row(<<L(w), a, b, c, d, e>>)
CaseTable ==
  {SheetOf(<<Wide("index", Y(2025), Y(2026), Y(2027), Y(2028), Y(2029))>> \o s
             \o <<Wide("article", N(1), N(2), N(3), B, B)>> \o t) :
     s \in [1..3 -> {Wide("article", N(5), B, B, B, B), Wide("article", B, B, B, B, B),
                     Wide("article", N(5), B, B, B, N(4))}],
     t \in [1..1 -> {Wide("article", N(5), B, B, B, B), Wide("article", N(5), B, B, N(4), B)}]}

MCSheets ==
  OneRow \cup Long \cup TwoRows \cup Bounds \cup HiddenCols \cup Banner \cup Hier \cup Outlines
    \cup Below \cup Tables \cup CaseTable
=============================================================================
