----------------------------- MODULE RangeGraph -----------------------------
(***************************************************************************)
(* The formula graph of one sheet: how references become cell edges and    *)
(* range nodes (formulas/csr.py), how cycles are found through range nodes *)
(* (graph/ranges.py, graph/cycles.py, graph/stage.py) and how a trace      *)
(* walks them (graph/trace.py).                                            *)
(*                                                                         *)
(* A range node stands for its cells, which are written nowhere.  Whatever *)
(* is computed through nodes is compared with the plain expansion of every *)
(* range into its cells.                                                   *)
(***************************************************************************)
EXTENDS Integers, Sequences, FiniteSets, FiniteSetsExt

CONSTANTS
    Cells,          \* the cells <<col, row>> a workbook may have
    Reads,          \* what a formula may read: sets of node ids
    MaxRow, MaxCol, \* Excel's limits
    MinCells,       \* RANGE_NODE_MIN_CELLS
    RangeCap,       \* RANGE_EXPAND_CAP
    NarrowColumns,  \* _NARROW_COLUMNS
    Period,         \* [column -> <<grain, position>>]; grain 0 is no period
    Depth           \* depth of a trace

\* The default settings have MinCells = 64 and RangeCap = 2000: a range that is
\* expanded per formula is never cut short by the cap.
ASSUME RangeAssumption ==
    /\ MaxRow \in Nat /\ MaxCol \in Nat
    /\ Cells \subseteq (1 .. MaxCol) \X (1 .. MaxRow)
    /\ MinCells \in Nat /\ RangeCap \in Nat /\ MinCells <= RangeCap
    /\ NarrowColumns \in Nat /\ Depth \in Nat \ {0}

VARIABLES
    kind,   \* "absent", "blank" (styled, no value), "input" or "formula"
    reads,  \* the references of each formula
    stage,  \* what has been done last: "parse", "compile", or the graph from
            \* a "list" of edges or "packed"
    edges,  \* ir/cell_edges.parquet, as <<source, target>>
    cycles  \* the cycles of graph.json

vars == <<kind, reads, stage, edges, cycles>>

\* Ids of cells, range nodes and segments of RangeHops.
CellId(c, r) == <<"cell", c, r, 0, 0>>
Id(x) == CellId(x[1], x[2])
RangeId(c1, c2, r1, r2) == <<"range", c1, c2, r1, r2>>
SegId(c, lo, hi) == <<"seg", c, lo, hi, 0>>

is_range_node(n) == n[1] = "range"
is_cell_id(n) == n[1] = "cell"

\* Row, then column.
Before(x, y) == x[2] < y[2] \/ (x[2] = y[2] /\ x[1] < y[1])

\* A finite set as a sequence, ordered by lt.
Sorted(S, lt(_, _)) ==
    [i \in 1 .. Cardinality(S) |->
        CHOOSE x \in S : Cardinality({y \in S : lt(y, x)}) = i - 1]

Present == {x \in Cells : kind[x] # "absent"}
Formulas == {x \in Cells : kind[x] = "formula"}
Filled == {x \in Cells : kind[x] \in {"input", "formula"}}

-----------------------------------------------------------------------------
(* formulas/csr.py *)

whole_axis(n) == (n[4] = 1 /\ n[5] = MaxRow) \/ (n[2] = 1 /\ n[3] = MaxCol)

Area(n) == (n[3] - n[2] + 1) * (n[5] - n[4] + 1)

\* Mutant of range_node_for: off by one.
range_node_for_AtLeast(n) == whole_axis(n) \/ Area(n) >= MinCells

\* The range stays one node; a smaller rectangle is expanded per formula.
range_node_for(n) == whole_axis(n) \/ Area(n) > MinCells

\* Present rows of a column as runs: sorted, not overlapping, not adjacent.
merge_spans(items) ==
    LET M[i \in 1 .. Len(items)] ==
            IF i = 1 THEN <<items[1]>>
            ELSE LET m == M[i - 1]
                     last == m[Len(m)] IN
                 IF items[i][1] <= last[2] + 1
                 THEN [m EXCEPT ![Len(m)] =
                         <<last[1], Max({last[2], items[i][2]})>>]
                 ELSE Append(m, items[i])
    IN IF items = <<>> THEN <<>> ELSE M[Len(items)]

\* Runs of one column, from a set of cells.
rows_by_col(S, c) ==
    merge_spans(Sorted({<<x[2], x[2]>> : x \in {y \in S : y[1] = c}},
                       LAMBDA p, q : p[1] < q[1]))

\* Bisect for the run that starts at or before the row.
span_has(spans, row) ==
    LET index == Cardinality({i \in DOMAIN spans : spans[i][1] <= row}) IN
    index > 0 /\ spans[index][1] <= row /\ row <= spans[index][2]

\* Cells of S in the rectangle, read off the runs.
present_pairs(n, S) ==
    UNION {LET spans == rows_by_col(S, c) IN
           {<<c, row>> : row \in UNION {
               Max({spans[i][1], n[4]}) .. Min({spans[i][2], n[5]})
                   : i \in DOMAIN spans}}
              : c \in {x[1] : x \in S} \cap n[2] .. n[3]}

\* The first cell of the rectangle that is present, row then column.
first_present(n, S) ==
    LET found == present_pairs(n, S) IN
    CHOOSE x \in found : \A y \in found : x = y \/ Before(x, y)

\* _take: the first RangeCap cells, row by row, the blank ones included.
Take(n) ==
    {x \in (n[2] .. n[3]) \X (n[4] .. n[5]) :
        (x[2] - n[4]) * (n[3] - n[2] + 1) + (x[1] - n[2]) < RangeCap}

expand_range(n) == IF whole_axis(n) THEN present_pairs(n, Present) ELSE Take(n)

\* The rows of one reference: a cell, a node, or the cells of a small range.
edge_rows(n) ==
    IF ~is_range_node(n) \/ range_node_for(n) THEN {n}
    ELSE {Id(x) : x \in expand_range(n)}

expand_cell_edges ==
    UNION {{<<Id(f), t>> : t \in UNION {edge_rows(n) : n \in reads[f]}}
              : f \in Formulas}

-----------------------------------------------------------------------------
(* Periods, graph/stage.py *)

Unaligned == <<"unaligned", 0>>

\* Distance of two columns' periods inside one grain.
calendar_lag(c, d) ==
    LET p == Period[c]
        q == Period[d] IN
    IF p[1] = 0 \/ q[1] = 0 \/ p[1] # q[1] THEN Unaligned
    ELSE IF p = q THEN <<"same", 0>>
    ELSE <<"num", q[2] - p[2]>>

period_chain(lag) == lag[1] = "num" /\ lag[2] # 0

\* Lag of the edge between two cell ids.
CellLag(s, t) == calendar_lag(s[2], t[2])

\* CellGrid.first: the corner of a rectangle, the first cell of a whole axis.
\* <<0, 0>> is None.
GridFirst(n) ==
    IF ~whole_axis(n) THEN <<n[2], n[4]>>
    ELSE IF present_pairs(n, Present) = {} THEN <<0, 0>>
    ELSE first_present(n, Present)

\* _enrich_edge: a range node's edge gets the lag of the node's first cell.
EdgeLag(e) ==
    IF ~is_range_node(e[2]) THEN CellLag(e[1], e[2])
    ELSE LET first == GridFirst(e[2]) IN
         IF first = <<0, 0>> THEN Unaligned
         ELSE calendar_lag(e[1][2], first[1])

\* CellGrid.member_columns.
member_columns(n) ==
    IF whole_axis(n)
    THEN {c \in {x[1] : x \in Present} \cap n[2] .. n[3] :
             \E i \in DOMAIN rows_by_col(Present, c) :
                LET s == rows_by_col(Present, c)[i] IN
                ~(s[2] < n[4] \/ s[1] > n[5])}
    ELSE n[2] .. n[3]

\* Mutant of add_range_lags: only the edge's own lag counts.
add_range_lags_None(f) == {}

\* _add_range_lags: the lags of a formula's range nodes.
add_range_lags(f) ==
    UNION {{calendar_lag(f[1], c) : c \in member_columns(e[2])}
              : e \in {d \in edges :
                          d[1] = Id(f) /\ is_range_node(d[2])}}

\* _lags_by_source, then _add_range_lags: what formula_class reads.
FormulaLags(f) ==
    {EdgeLag(e) : e \in {d \in edges : d[1] = Id(f)}}
        \cup add_range_lags(f)

-----------------------------------------------------------------------------
(* RangeHops, graph/ranges.py *)

\* Formula rows of a column, sorted.
HopRows(c) ==
    Sorted({x[2] : x \in {f \in Formulas : f[1] = c}}, LAMBDA a, b : a < b)

HopCols(n) == {f[1] : f \in Formulas} \cap n[2] .. n[3]

\* _span: positions (from 0) of the rows inside the node, by bisection.
HopSpan(n, c) ==
    LET rows == HopRows(c) IN
    <<Cardinality({i \in DOMAIN rows : rows[i] < n[4]}),
      Cardinality({i \in DOMAIN rows : rows[i] <= n[5]}) - 1>>

\* _cover: segments of the balanced tree over 0 .. size - 1 that cover want.
cover(size, want) ==
    LET C[s \in (0 .. size - 1) \X (0 .. size - 1)] ==
            LET mid == (s[1] + s[2]) \div 2 IN
            IF s[2] < want[1] \/ s[1] > want[2] THEN {}
            ELSE IF want[1] <= s[1] /\ s[2] <= want[2] THEN {s}
            ELSE C[<<s[1], mid>>] \cup C[<<mid + 1, s[2]>>]
    IN C[<<0, size - 1>>]

\* _name: a segment of one cell is that cell.
HopName(c, s) ==
    IF s[1] = s[2] THEN CellId(c, HopRows(c)[s[1] + 1])
    ELSE SegId(c, s[1], s[2])

\* Mutant of tree: the halves of a half are forgotten.
tree_OneLevel(c, seg) ==
    LET mid == (seg[1] + seg[2]) \div 2 IN
    IF seg[1] = seg[2] THEN {}
    ELSE {<<HopName(c, seg), HopName(c, <<seg[1], mid>>)>>,
          <<HopName(c, seg), HopName(c, <<mid + 1, seg[2]>>)>>}

\* _tree: each segment points at its halves, down to the cells.
tree(c, seg) ==
    LET size == Len(HopRows(c))
        T[s \in (0 .. size - 1) \X (0 .. size - 1)] ==
            LET mid == (s[1] + s[2]) \div 2
                left == <<s[1], mid>>
                right == <<mid + 1, s[2]>> IN
            IF s[1] = s[2] THEN {}
            ELSE {<<HopName(c, s), HopName(c, left)>>,
                  <<HopName(c, s), HopName(c, right)>>}
                 \cup T[left] \cup T[right]
    IN T[seg]

HopMembers(n) ==
    UNION {LET span == HopSpan(n, c) IN
           {CellId(c, HopRows(c)[i + 1]) : i \in span[1] .. span[2]}
              : c \in HopCols(n)}

HopEdges(n) ==
    UNION {LET span == HopSpan(n, c) IN
           IF span[1] > span[2] THEN {}
           ELSE UNION {{<<n, HopName(c, s)>>} \cup tree(c, s)
                          : s \in cover(Len(HopRows(c)), span)}
              : c \in HopCols(n)}

-----------------------------------------------------------------------------
(* Cycles, graph/cycles.py and graph/stage.py *)

\* scipy (external): the nodes reachable from each node in one step or more.
Reach(pairs) ==
    LET nodes == {p[1] : p \in pairs} \cup {p[2] : p \in pairs}
        next == [n \in nodes |-> {p[2] : p \in {q \in pairs : q[1] = n}}]
        R[k \in 0 .. Cardinality(nodes)] ==
            IF k = 0 THEN next
            ELSE LET r == R[k - 1]
                     s == [n \in nodes |->
                             r[n] \cup UNION {next[m] : m \in r[n]}]
                 IN IF s = r THEN r ELSE s
    IN R[Cardinality(nodes)]

Component(reach, n) == {n} \cup {m \in reach[n] : n \in reach[m]}

RangeUsers == {e \in edges : is_range_node(e[2])}

\* hop_flags: the formula -> member edges inside one component.
hop_flags(reach) ==
    UNION {{<<u[1], m>> : m \in HopMembers(u[2]) \cap Component(reach, u[1])}
              : u \in {e \in RangeUsers : e[2] \in Component(reach, e[1])}}

\* A component with its cells, and whether it counts as an iteration.
CycleRecord(cells, ok) ==
    [members |-> cells, class |-> IF ok THEN "iterative_ok" ELSE "unexpected"]

HopPairs == UNION {HopEdges(e[2]) : e \in RangeUsers}

\* classify_cycles, on the enriched edges.  Links into and inside range nodes
\* join components and have no vote.
classify_cycles ==
    LET reach == Reach(edges \cup HopPairs)
        flags == hop_flags(reach)
        Intra(comp) == {e \in edges :
                           /\ e[1] \in comp /\ e[2] \in comp
                           /\ ~is_range_node(e[2])
                           /\ Cardinality(comp) > 1 \/ e[1] = e[2]}
        Hop(comp) == {e \in flags : e[1] \in comp}
        Group(comp) == {n \in comp : is_cell_id(n)}
        IsCycle(comp) ==
            /\ Group(comp) # {}
            /\ \/ Cardinality(Group(comp)) > 1
               \/ \E e \in Intra(comp) \cup Hop(comp) : e[1] = e[2]
    IN {CycleRecord(Group(comp),
                    /\ Intra(comp) \cup Hop(comp) # {}
                    /\ \A e \in Intra(comp) : period_chain(EdgeLag(e))
                    /\ \A e \in Hop(comp) : period_chain(CellLag(e[1], e[2])))
          : comp \in {c \in {Component(reach, n) : n \in DOMAIN reach} :
                         IsCycle(c)}}

\* The flag of an edge: 1 is a period chain, 2 is _STRUCTURAL.
packed_flag(e) ==
    IF is_range_node(e[2]) THEN 2
    ELSE IF period_chain(EdgeLag(e)) THEN 1 ELSE 0

\* _cycles_packed, on flagged edges.
cycles_packed ==
    LET packed == {<<e[1], e[2], packed_flag(e)>> : e \in edges}
                 \cup {<<e[1], e[2], 2>> : e \in HopPairs}
        reach == Reach({<<e[1], e[2]>> : e \in packed})
        extra == {<<e[1], e[2], IF period_chain(CellLag(e[1], e[2]))
                                THEN 1 ELSE 0>> : e \in hop_flags(reach)}
        Votes(comp) == {e \in packed : /\ e[1] \in comp /\ e[2] \in comp
                                       /\ (Cardinality(comp) > 1 \/ e[1] = e[2])
                                       /\ e[3] # 2}
                       \cup {e \in extra : e[1] \in comp}
        SelfLoop(comp) == \E e \in Votes(comp) : e[1] = e[2]
        Group(comp) == {n \in comp : is_cell_id(n)}
        IsCycle(comp) ==
            /\ Cardinality(comp) > 1 \/ SelfLoop(comp)
            /\ Group(comp) # {}
            /\ Cardinality(Group(comp)) > 1 \/ SelfLoop(comp)
    IN {CycleRecord(Group(comp),
                    Votes(comp) # {} /\ \A e \in Votes(comp) : e[3] = 1)
          : comp \in {c \in {Component(reach, n) : n \in DOMAIN reach} :
                         IsCycle(c)}}

-----------------------------------------------------------------------------
(* CoverIndex, graph/ranges.py *)

Nodes == {e[2] : e \in RangeUsers}

\* _Intervals: sorted by start, with a tree of the greatest ends.
IntervalSize(n) == Min({s \in {1, 2, 4, 8, 16, 32, 64} : s >= n})

EndTree(items) ==
    LET size == IntervalSize(Len(items))
        T[i \in 1 .. 2 * size - 1] ==
            IF i >= size
            THEN IF i - size < Len(items) THEN items[i - size + 1][5] ELSE -1
            ELSE Max({T[2 * i], T[2 * i + 1]})
    IN [i \in 1 .. 2 * size - 1 |-> T[i]]

\* Mutant of Covering: the search turns back at an end equal to the row.
Covering_Strict(items, row) ==
    LET size == IntervalSize(Len(items))
        ends == EndTree(items)
        limit == Cardinality({i \in DOMAIN items : items[i][4] <= row})
        V[v \in (1 .. 2 * size - 1) \X (0 .. size - 1) \X (0 .. size - 1)] ==
            LET mid == (v[2] + v[3]) \div 2 IN
            IF v[2] >= limit \/ ends[v[1]] <= row THEN {}
            ELSE IF v[2] = v[3] THEN {items[v[2] + 1]}
            ELSE V[<<2 * v[1], v[2], mid>>]
                 \cup V[<<2 * v[1] + 1, mid + 1, v[3]>>]
    IN IF limit = 0 THEN {} ELSE V[<<1, 0, size - 1>>]

\* _Intervals.covering: walk the tree from its root; the slots from limit on
\* start after the row.
Covering(items, row) ==
    LET size == IntervalSize(Len(items))
        ends == EndTree(items)
        limit == Cardinality({i \in DOMAIN items : items[i][4] <= row})
        V[v \in (1 .. 2 * size - 1) \X (0 .. size - 1) \X (0 .. size - 1)] ==
            LET mid == (v[2] + v[3]) \div 2 IN
            IF v[2] >= limit \/ ends[v[1]] < row THEN {}
            ELSE IF v[2] = v[3] THEN {items[v[2] + 1]}
            ELSE V[<<2 * v[1], v[2], mid>>]
                 \cup V[<<2 * v[1] + 1, mid + 1, v[3]>>]
    IN IF limit = 0 THEN {} ELSE V[<<1, 0, size - 1>>]

\* By start; the rest only makes the order total.
StartsBefore(m, n) ==
    \/ m[4] < n[4]
    \/ m[4] = n[4] /\ m[5] < n[5]
    \/ m[4] = n[4] /\ m[5] = n[5] /\ m[2] < n[2]
    \/ m[4] = n[4] /\ m[5] = n[5] /\ m[2] = n[2] /\ m[3] < n[3]

Intervals(S) == Sorted(S, StartsBefore)

IsNarrow(n) == n[3] - n[2] + 1 <= NarrowColumns

\* CoverIndex.covering: the column's index and the sheet's index of wide nodes.
CoverIndex(x) ==
    LET narrow == {n \in Nodes : IsNarrow(n) /\ x[1] \in n[2] .. n[3]}
        wide == {n \in Nodes : ~IsNarrow(n)} IN
    (IF narrow = {} THEN {} ELSE Covering(Intervals(narrow), x[2]))
    \cup (IF wide = {} THEN {}
          ELSE {n \in Covering(Intervals(wide), x[2]) :
                   n[2] <= x[1] /\ x[1] <= n[3]})

-----------------------------------------------------------------------------
(* trace_graph, graph/trace.py *)

\* Nodes that contain the cell; a whole axis has only cells that exist.
covering(x) ==
    {n \in CoverIndex(x) :
        whole_axis(n) => span_has(rows_by_col(Present, x[1]), x[2])}

\* The filled cells of a node, the first limit of them unless limit is 0.
shown(n, limit) ==
    LET found == present_pairs(n, Filled) IN
    IF limit = 0 THEN found
    ELSE {x \in found : Cardinality({y \in found : Before(y, x)}) < limit}

\* One step to precedents: through a node to its members, never to an empty
\* cell.
precedents(x, limit) ==
    UNION {IF is_range_node(e[2]) THEN shown(e[2], limit)
           ELSE {<<e[2][2], e[2][3]>>} \cap Filled
              : e \in {d \in edges : d[1] = Id(x)}}

\* One step to dependents: edges into the cell, and the readers of every node
\* that contains it.
dependents(x) ==
    LET into == {Id(x)} \cup covering(x) IN
    {<<e[1][2], e[1][3]>> : e \in {d \in edges : d[2] \in into}}

\* The nodes a breadth-first walk visits; the walk does not go on from depth.
Walk(origin, step) ==
    LET W[k \in 0 .. Depth] ==
            IF k = 0 THEN {origin}
            ELSE W[k - 1] \cup UNION {step[x] : x \in W[k - 1]}
    IN W[Depth]

-----------------------------------------------------------------------------
(* The workbook is read cell by cell, row by row, then compiled and graphed. *)

Init ==
    /\ kind = [x \in Cells |-> "absent"]
    /\ reads = [x \in Cells |-> {}]
    /\ stage = "parse" /\ edges = {} /\ cycles = {}

IsNext(x) == stage = "parse" /\ \A y \in Present : Before(y, x)

ReadValue(x, k) ==
    /\ IsNext(x)
    /\ kind' = [kind EXCEPT ![x] = k]
    /\ UNCHANGED <<reads, stage, edges, cycles>>

ReadFormula(x, refs) ==
    /\ IsNext(x)
    /\ kind' = [kind EXCEPT ![x] = "formula"]
    /\ reads' = [reads EXCEPT ![x] = refs]
    /\ UNCHANGED <<stage, edges, cycles>>

\* The formula stage writes the cell edges.
Compile ==
    /\ stage = "parse"
    /\ stage' = "compile"
    /\ edges' = expand_cell_edges
    /\ UNCHANGED <<kind, reads, cycles>>

\* The graph stage, with the edges as a list or streamed from parquet.
Graph(how, found) ==
    /\ stage = "compile"
    /\ stage' = how
    /\ cycles' = found
    /\ UNCHANGED <<kind, reads, edges>>

GraphList == Graph("list", classify_cycles)
GraphPacked == Graph("packed", cycles_packed)

Next ==
    \/ \E x \in Cells :
          \/ \E k \in {"blank", "input"} : ReadValue(x, k)
          \/ \E refs \in Reads : ReadFormula(x, refs)
    \/ Compile \/ GraphList \/ GraphPacked

Spec == Init /\ [][Next]_vars

-----------------------------------------------------------------------------
(* Properties *)

\* Is the cell inside the rectangle?
Inside(n, x) == n[2] <= x[1] /\ x[1] <= n[3] /\ n[4] <= x[2] /\ x[2] <= n[5]

\* The plain expansion: every cell a formula reads, however it names it.
ReadCells(f) ==
    UNION {IF ~is_range_node(n) THEN {<<n[2], n[3]>>}
           ELSE IF whole_axis(n) THEN {x \in Present : Inside(n, x)}
           ELSE {x \in (1 .. MaxCol) \X (1 .. MaxRow) : Inside(n, x)}
              : n \in reads[f]}

PlainEdges == UNION {{<<f, x>> : x \in ReadCells(f)} : f \in Formulas}

\* The cycles of the plain expansion.
PlainCycles ==
    LET reach == Reach(PlainEdges)
        Group(f) == {g \in Formulas : g \in reach[f] /\ f \in reach[g]}
        Inner(f) == {e \in PlainEdges : {e[1], e[2]} \subseteq Group(f)}
        Chain(e) == period_chain(calendar_lag(e[1][1], e[2][1]))
    IN {CycleRecord({Id(g) : g \in Group(f)},
                    \A e \in Inner(f) : Chain(e))
          : f \in {g \in DOMAIN reach : g \in reach[g]}}

\* The cycles found through range nodes and tree segments, with their class,
\* are those of the plain expansion, whether the edges are a list or packed
\* integers; so they do not depend on RANGE_NODE_MIN_CELLS (classify_cycles,
\* _cycles_packed, RangeHops, hop_flags).
SameCycles == stage \in {"list", "packed"} => cycles = PlainCycles

\* A trace visits what the plain expansion reaches within its depth, in both
\* directions: through members of nodes for precedents, through the interval
\* index for dependents; with a limit on members it visits a part of that
\* (trace_graph, CoverIndex).  The edges of both kinds of graph are the same.
TraceExact ==
    LET up == [x \in Filled |-> precedents(x, 0)]
        part == [x \in Filled |-> precedents(x, 1)]
        down == [x \in Filled |-> dependents(x)]
        plain == [x \in Filled |->
                     IF x \in Formulas THEN ReadCells(x) \cap Filled ELSE {}]
        back == [x \in Filled |-> {f \in Formulas : x \in plain[f]}] IN
    stage = "list" => \A x \in Filled :
        /\ Walk(x, up) = Walk(x, plain)
        /\ Walk(x, part) \subseteq Walk(x, plain)
        /\ Walk(x, down) = Walk(x, back)

\* formula_class sees the lags it would see with one edge per cell of a range;
\* "unaligned" makes no difference to it (_add_range_lags).
LagsAgree ==
    stage = "list" => \A f \in Formulas :
        FormulaLags(f) \cup {Unaligned}
        = {calendar_lag(f[1], x[1]) : x \in ReadCells(f)} \cup {Unaligned}

\* Every variable has its type, and an edge leads from a formula to a cell or
\* to a range too large to expand (edges).
TypeOK ==
    /\ kind \in [Cells -> {"absent", "blank", "input", "formula"}]
    /\ \A x \in Cells : reads[x] \in Reads \cup {{}}
    /\ \A x \in Cells : kind[x] # "formula" => reads[x] = {}
    /\ stage \in {"parse", "compile", "list", "packed"}
    /\ \A e \in edges :
          /\ \E f \in Formulas : e[1] = Id(f)
          /\ is_range_node(e[2]) => whole_axis(e[2]) \/ Area(e[2]) > MinCells
          /\ ~is_range_node(e[2]) => is_cell_id(e[2])
    /\ \A r \in cycles : r.class \in {"iterative_ok", "unexpected"}
                         /\ r.members \subseteq {Id(f) : f \in Formulas}
=============================================================================
