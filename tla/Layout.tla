------------------------------- MODULE Layout -------------------------------
(***************************************************************************)
(* The layout of one sheet (layout/detect.py, layout/rows.py,              *)
(* layout/axes.py, layout/params.py): header bands, the periods of their   *)
(* columns from left to right, the axes that stay, and then block by block *)
(* the rows under each header with their parents and sections.             *)
(*                                                                         *)
(* The sheet is chosen from Sheets in the initial state; every later step  *)
(* is determined by the code.  A sheet is a record: rows (module Rows),    *)
(* hidden (the columns the workbook hides) and below (summaryBelow).       *)
(***************************************************************************)
EXTENDS Axes

CONSTANTS Sheets         \* the sheets the layout may be asked for

VARIABLES
  sheet,      \* the sheet
  pc,         \* the step: "cells", "bands", "columns", "block", "rows", "closed", "done"
  bands,      \* the rows of each header band, from the top
  at,         \* the band, the group or the row the step is at
  col,        \* the next column of the band
  hint,       \* the year carried from column to column, 0 for none
  headers,    \* the composed columns of the band
  axes,       \* the axes found so far, then the ones that stay
  block,      \* the block being filled: its columns, span, body and header rows
  out,        \* its rows so far
  pstack,     \* parent_stack: indices into out
  sstack,     \* section_stack
  blocks      \* the blocks finished

vars == <<sheet, pc, bands, at, col, hint, headers, axes, block, out, pstack, sstack, blocks>>

Rs == sheet.rows
Width == Len(Rs[1].cells)
Hidden == sheet.hidden \cup inferred_hidden_columns(Rs)

NoBlock == [cols |-> {}, span |-> {}, body |-> <<>>, band |-> {}, titles |-> {}]

Init ==
  /\ sheet \in Sheets
  /\ pc = "cells" /\ at = 1 /\ col = 1 /\ hint = 0
  /\ bands = <<>> /\ headers = <<>> /\ axes = <<>>
  /\ block = NoBlock /\ out = <<>> /\ pstack = <<>> /\ sstack = <<>> /\ blocks = <<>>

-----------------------------------------------------------------------------
(* Axes.                                                                   *)

ReadCells ==
  /\ pc = "cells"
  /\ sheet' = [sheet EXCEPT !.rows =
                 [r \in DOMAIN Rs |->
                    [Rs[r] EXCEPT !.cells = [c \in DOMAIN Rs[r].cells |-> ReadCell(Rs[r].cells[c])]]]]
  /\ pc' = "bands"
  /\ UNCHANGED <<bands, at, col, hint, headers, axes, block, out, pstack, sstack, blocks>>

FindBands ==
  /\ pc = "bands"
  /\ bands' = header_bands(Rs)
  /\ pc' = "columns"
  /\ UNCHANGED <<sheet, at, col, hint, headers, axes, block, out, pstack, sstack, blocks>>

\* One column of the band: its period, with the year of the column before it when
\* its own cells name none.
ComposeColumn ==
  /\ pc = "columns" /\ at <= Len(bands) /\ col <= Width
  /\ LET band == bands[at]
         hit == IF HasStart(Rs, band, col)
                  THEN compose_period(column_atoms(Rs, band, col), hint) ELSE {}
     IN /\ headers' = headers \o SetToSeq({[col |-> col, key |-> h.key, variant |-> h.variant] :
                                             h \in hit})
        /\ hint' = IF hit = {} THEN hint ELSE (CHOOSE h \in hit : TRUE).key.y
  /\ col' = col + 1
  /\ UNCHANGED <<sheet, pc, bands, at, axes, block, out, pstack, sstack, blocks>>

CloseBand ==
  /\ pc = "columns" /\ at <= Len(bands) /\ col > Width
  /\ axes' = axes \o SelectSeq(axes_from_band(Rs, bands, bands[at], headers, Hidden),
                               LAMBDA a : period_count(a) >= 2)
  /\ at' = at + 1 /\ col' = 1 /\ hint' = 0 /\ headers' = <<>>
  /\ UNCHANGED <<sheet, pc, bands, block, out, pstack, sstack, blocks>>

\* Ordinal axes on the rows no band took; then the axes that stay.
ChooseAxes ==
  /\ pc = "columns" /\ at > Len(bands)
  /\ LET taken == UNION {axes[i].band : i \in DOMAIN axes}
         runs == {r \in DOMAIN Rs \ taken : relative_run(Rs[r], Hidden) # <<>>}
         order == SetToSortSeq(runs, <)
         relative == [i \in DOMAIN order |->
                        axis_from_relative(order[i], relative_run(Rs[order[i]], Hidden), Hidden)]
     IN axes' = keep_dominant(fold_year_banners(axes \o relative))
  /\ pc' = "block" /\ at' = 1
  /\ UNCHANGED <<sheet, bands, col, hint, headers, block, out, pstack, sstack, blocks>>

-----------------------------------------------------------------------------
(* Blocks: one per header band that has axes.                              *)

\* The bands of the axes, in sheet order.
table_groups == SetToSortSeq({axes[i].band : i \in DOMAIN axes}, LAMBDA a, b : Min(a) < Min(b))
GroupCols(band) == UNION {axis_cols(axes[i]) : i \in {j \in DOMAIN axes : axes[j].band = band}}

\* Label-only rows above a header, up to the header before it; one text banner on
\* the header is stepped over.
label_rows_above(start, cols, floor) ==
  LET above == {r \in (floor + 1)..(start - 1) : ~is_empty_row(Rs[r])}
      banner == {r \in above : r = Max(above) /\ is_banner_gap(Rs[r], cols)}
      Title(r) == is_label_only_row(Rs[r], cols)
  IN {r \in above \ banner : \A q \in above \ banner : q >= r => Title(q)}

Starts == {Min(table_groups[i]) : i \in DOMAIN table_groups}
\* The header before a header row, and the one after it.
Floor(start) == Max({0} \cup {s \in Starts : s < start})
Ceiling(start) == Min({Len(Rs) + 1} \cup {s \in Starts : s > start})
TitlesOf(band) == label_rows_above(Min(band), GroupCols(band), Floor(Min(band)))

\* Rows that hold no cell at all are not rows of the sheet.
RowIds == {r \in DOMAIN Rs : Texts(Rs[r]) # {} \/ \E c \in 1..Width : Rs[r].cells[c].f # "none"}

\* Mutant: the titles of the next table stay in this one as well.
BodyFrom_KeepTitles(start, titles, others) ==
  (RowIds \cap (start..(Ceiling(start) - 1))) \cup titles

\* The rows from a header to the next one, without the next tables' titles.
BodyFrom(start, titles, others) ==
  (RowIds \cap ((start..(Ceiling(start) - 1)) \ others)) \cup titles

\* A header row with computed periods and a label opens the section itself.
band_title(band, span, cols) ==
  LET row == Rs[Max(band)]
      c == LET named == Names(row, FALSE) \cap span IN IF named = {} THEN 0 ELSE Min(named)
  IN IF /\ \E d \in cols : row.cells[d].f # "none"
        /\ c # 0
        /\ ~is_start_period_label(TextAt(row, c)) /\ ~is_end_period_label(TextAt(row, c))
        /\ ~is_relative_label(TextAt(row, c))
       THEN <<[row |-> Max(band), indent |-> label_indent(row, span, c),
               check |-> LabelHas(TextAt(row, c), {"check"})]>>
       ELSE <<>>

BlockOf(band, cols, titles, body) ==
  [cols |-> cols, band |-> band, titles |-> titles,
   span |-> label_span(Rs, body, band, cols), body |-> SetToSortSeq(body \ band, <)]

OpenBlock ==
  /\ pc = "block" /\ at <= Len(table_groups)
  /\ \E band \in {table_groups[at]} : \E cols \in {GroupCols(band)} :
     \E titles \in {[b \in Range(table_groups) |-> TitlesOf(b)]} :
       LET others == UNION {titles[b] : b \in DOMAIN titles \ {band}} IN
         block' = BlockOf(band, cols, titles[band], BodyFrom(Min(band), titles[band], others))
  /\ sstack' = band_title(block'.band, block'.span, block'.cols)
  /\ pc' = "rows" /\ out' = <<>> /\ pstack' = <<>> /\ col' = 1
  /\ UNCHANGED <<sheet, bands, at, hint, headers, axes, blocks>>

TopWhile(stack, P(_)) ==       \* the stack without the items popped from its top
  LET keep == {i \in DOMAIN stack : ~P(stack[i])} IN
    IF keep = {} THEN <<>> ELSE SubSeq(stack, 1, Max(keep))

\* Nearest earlier non-unit row whose indent is strictly smaller.
indent_parent(indent) ==
  LET shallower == {i \in DOMAIN pstack : out[pstack[i]].indent < indent} IN
    IF shallower = {} THEN 0 ELSE out[pstack[Max(shallower)]].row

\* The nearest preceding row at each shallower indent.
ancestors(indent) ==
  {i \in DOMAIN out : /\ out[i].indent < indent
                      /\ \A j \in (i + 1)..Len(out) : out[j].indent > out[i].indent}

\* The kind of a row: one with a value beside the label, or a formula that shows
\* nothing, is no section; under a check section it is a helper.
KindOf(row, c, indent) ==
  LET kind == row_kind(row, block.cols, TextAt(row, c))
      inCheck == \/ \E i \in DOMAIN sstack : sstack[i].check
                 \/ \E i \in ancestors(indent) : out[i].check
  IN IF kind = "abstract" /\ (\/ has_scalar_value(row, block.span, block.cols)
                              \/ is_blank_data_row(row, c, block.cols))
       THEN IF inCheck THEN "helper" ELSE "fact"
       ELSE kind

\* The sections a row leaves open; a unit caption closes none.
OpenSections(kind, indent, unit) ==
  IF unit THEN sstack
  ELSE TopWhile(sstack, LAMBDA s : IF kind = "abstract" THEN s.indent >= indent
                                                        ELSE s.indent > indent)

\* The row above by indent; else the open section; a total belongs to the section.
ParentOf(label, kind, indent, secs) ==
  LET near == indent_parent(indent)
      parent == IF near = 0 /\ secs # <<>> /\ kind # "abstract" THEN Last(secs).row ELSE near
  IN IF /\ secs # <<>> /\ LabelHas(label, {"total"})
        /\ parent = 0 \/ \E i \in DOMAIN secs : secs[i].row = parent
       THEN Last(secs).row ELSE parent

\* The item of a row.
RowItem(r, c) ==
  LET row == Rs[r]
      label == TextAt(row, c)
      With(indent, kind, unit) ==
        LET secs == OpenSections(kind, indent, unit) IN
          [row |-> r, col |-> c, indent |-> indent, kind |-> kind, unit |-> unit,
           parent |-> ParentOf(label, kind, indent, secs),
           check |-> LabelHas(label, {"check"}), total |-> LabelHas(label, {"total"}),
           level |-> row.level, path |-> [i \in DOMAIN secs |-> secs[i].row]]
      at0 == label_indent(row, block.span, c)
  IN With(at0, KindOf(row, c, at0), is_unit_text(label))

\* The label column of body row r, 0 when the row has no label or holds no data.
LabelOf(r) ==
  IF is_empty_row(Rs[r]) \/ is_counter_row(Rs[r]) THEN 0
  ELSE label_at(Rs[r], block.span, block.cols, r \in block.titles \/ RowHidden(Rs[r]))

DataRow ==
  /\ pc = "rows" /\ col <= Len(block.body)
  /\ \E r \in {block.body[col]} : \E c \in {LabelOf(r)} :
       \/ c = 0 /\ UNCHANGED <<out, pstack, sstack>>
       \/ /\ c # 0
          /\ \E item \in {RowItem(r, c)} :
               /\ out' = Append(out, item)
               /\ pstack' = IF item.unit THEN pstack
                            ELSE Append(TopWhile(pstack, LAMBDA i : out[i].indent >= item.indent),
                                        Len(out) + 1)
               /\ sstack' = IF item.kind = "abstract" /\ ~item.unit
                              THEN Append(OpenSections(item.kind, item.indent, item.unit),
                                          [row |-> r, indent |-> item.indent, check |-> item.check])
                              ELSE OpenSections(item.kind, item.indent, item.unit)
  /\ col' = col + 1
  /\ UNCHANGED <<sheet, pc, bands, at, hint, headers, axes, block, blocks>>

\* The summary row of each row: nearest in the summary direction with a smaller
\* level, found by one pass with a stack of indices.
outline_parent_at(items, below) ==
  LET n == Len(items)
      Idx(k) == IF below THEN n + 1 - k ELSE k
      pass[k \in 0..n] ==
        IF k = 0 THEN [stack |-> <<>>, found |-> [i \in 1..n |-> 0]]
        ELSE LET p == pass[k - 1]
                 i == Idx(k)
                 s == TopWhile(p.stack, LAMBDA j : items[j].level >= items[i].level)
             IN IF items[i].unit THEN p
                ELSE [stack |-> Append(s, i),
                      found |-> [p.found EXCEPT ![i] = IF s = <<>> THEN 0 ELSE Last(s)]]
  IN pass[n].found

apply_outline_parents(items, below) ==
  LET found == outline_parent_at(items, below)
      Takes(i) ==
        /\ items[i].level > 1 /\ ~items[i].unit
        /\ found[i] # 0 /\ items[found[i]].level > 0
        /\ LET p == items[found[i]].row IN
             \/ items[i].parent = 0
             \/ ~below /\ p > items[i].parent
             \/ below /\ p < items[i].parent
  IN IF \A i \in DOMAIN items : items[i].level = 0 THEN items
     ELSE [i \in DOMAIN items |->
             IF Takes(i) THEN [items[i] EXCEPT !.parent = items[found[i]].row] ELSE items[i]]

-----------------------------------------------------------------------------
(* Scenario and constant tables inside the period columns.                 *)

\* A run 1, 2, 3.. at the left of the row's numbers in the period columns.
case_run(row, cols) ==
  LET order == SetToSortSeq(Numbers(row) \cap cols, <)
      Fits(n) == \A i \in 1..n : /\ parse_int(TextAt(row, order[i])) = i
                                 /\ i > 1 => order[i] = order[i - 1] + 1
      n == Max({k \in 0..Len(order) : Fits(k)})
  IN {order[i] : i \in 1..n}

CaseRows(items, cols) ==
  {i \in DOMAIN items : LET run == case_run(Rs[items[i].row], cols) IN
     Cardinality(run) >= 3 /\ 10 * Cardinality(run) <= 6 * Cardinality(cols)}

has_value_right_of(row, cols, last) ==
  \E c \in cols : c > last /\ (TextAt(row, c) # <<>> \/ row.cells[c].f # "none")

MinValueRows == 3
\* The constants above the first outermost section over the case row, when enough of
\* their rows hold values.
ConstantRows(items, start, sections, index) ==
  LET outer == {i \in sections : \A j \in sections : items[i].col <= items[j].col}
      above == start..((IF sections = {} THEN start ELSE Max(outer)) - 1)
  IN IF Cardinality({i \in above : items[i].kind \in {"fact", "helper"}}) >= MinValueRows
       THEN above ELSE {}

\* The rows around the case row that hold nothing right of it; trailing captions stay.
StaticSpan(items, cols, index, last) ==
  LET Static(i) == ~has_value_right_of(Rs[items[i].row], cols, last)
      stop == Max({e \in index..Len(items) : \A i \in (index + 1)..e : Static(i)})
  IN [start |-> Min({s \in 1..index : \A i \in s..(index - 1) : Static(i)}),
      end |-> Max({e \in index..stop : e = index \/ items[e].kind # "abstract"})]

CarvedBy(items, index, start, end, constants) ==
  [rows |-> {i \in DOMAIN items : i < start \/ i > end},
   tables |-> {constants, ((start..end) \ constants) \ {index}},
   case |-> {index}]

CarveSpan(items, index, span) ==
  CarvedBy(items, index, span.start, span.end,
           ConstantRows(items, span.start,
                        {i \in span.start..(index - 1) : items[i].kind = "abstract"}, index))

CarveAt(items, cols, index) ==
  CarveSpan(items, index,
            StaticSpan(items, cols, index, Max(case_run(Rs[items[index].row], cols))))

\* The rows that stay in the timeline block, and the ones of the tables carved out:
\* the constants above the case row's section, the scenarios, the case row itself.
carve_params_regions(items, cols) ==
  LET cases == CaseRows(items, cols) IN
    IF cases = {} THEN [rows |-> DOMAIN items, tables |-> {}, case |-> {}]
    ELSE CarveAt(items, cols, Min(cases))

\* The block is finished: outline parents, then the tables carved out of it.
CloseBlock ==
  /\ pc = "rows" /\ col > Len(block.body)
  /\ LET items == apply_outline_parents(out, sheet.below)
         carved == carve_params_regions(items, block.cols)
         Kept(s) == {items[i].row : i \in s}
     IN /\ out' = items
        /\ blocks' = Append(blocks, [cols |-> block.cols, band |-> block.band, rows |-> Kept(carved.rows),
                                     tables |-> {Kept(t) : t \in carved.tables},
                                     case |-> Kept(carved.case)])
  /\ pc' = "closed"
  /\ UNCHANGED <<sheet, bands, at, col, hint, headers, axes, block, pstack, sstack>>

NextBlock ==
  /\ pc = "closed"
  /\ pc' = "block" /\ at' = at + 1
  /\ out' = <<>> /\ pstack' = <<>> /\ sstack' = <<>> /\ block' = NoBlock
  /\ UNCHANGED <<sheet, bands, col, hint, headers, axes, blocks>>

Finish ==
  /\ pc = "block" /\ at > Len(table_groups)
  /\ pc' = "done"
  /\ UNCHANGED <<sheet, bands, at, col, hint, headers, axes, block, out, pstack, sstack, blocks>>

Next ==
  \/ ReadCells \/ FindBands \/ ComposeColumn \/ CloseBand \/ ChooseAxes
  \/ OpenBlock \/ DataRow \/ CloseBlock \/ NextBlock \/ Finish

Spec == Init /\ [][Next]_vars

-----------------------------------------------------------------------------
(* Properties.                                                             *)

Items == [row : DOMAIN Rs, col : 1..Width, indent : Nat, parent : {0} \cup DOMAIN Rs,
          kind : {"abstract", "fact", "helper", "flag", "index"},
          unit : BOOLEAN, check : BOOLEAN, total : BOOLEAN, level : Nat,
          path : Seq(DOMAIN Rs)]

\* The layout's state is well formed; a row names rows of the sheet only.
TypeOK ==
  /\ pc \in {"cells", "bands", "columns", "block", "rows", "closed", "done"}
  /\ \A i \in DOMAIN bands : bands[i] \subseteq DOMAIN Rs
  /\ \A i \in DOMAIN out : out[i] \in Items
  /\ \A i \in DOMAIN pstack : pstack[i] \in DOMAIN out
  /\ \A i \in DOMAIN sstack : sstack[i].row \in DOMAIN Rs

HeaderCells == {TextAt(Rs[r], c) : r \in DOMAIN Rs, c \in 1..Width}

\* A header that many_dates reports as a comparison (it scans every window of the
\* text) is no period for classify_atom (which prunes its windows by the usable
\* tokens and the rightmost digit): the two scans of periods.py agree on it.
ComparisonNotPeriod ==
  pc = "cells" =>
    \A t \in HeaderCells :
      many_dates(normalize_header(t)) => own_atom(t) \cup label_atom(t, TRUE, TRUE) = {}

\* The cheap word count that refuses a long label before any matching
\* (_prose_blocks_calendar) refuses nothing the matcher would accept.
ProseCheckSound ==
  pc = "cells" =>
    \A t \in HeaderCells :
      prose_blocks_calendar(normalize_header(t)) => one_calendar(normalize_header(t)) = {}

\* A period written over two rows of a band (classify_atom, compose_period) and the
\* same words in one cell (classify_header) are one period, when both are periods.
SplitAgrees ==
  pc = "columns" /\ at <= Len(bands) /\ Cardinality(bands[at]) = 2 /\ col <= Width =>
    LET atoms == column_atoms(Rs, bands[at], col)
        text == TextAt(Rs[Min(bands[at])], col) \o TextAt(Rs[Max(bands[at])], col)
    IN \A h \in compose_period(atoms, 0), g \in classify_header(text) :
         Len(atoms) = 2 => h.key = g.key

\* However a header is read, by the full or the pruned scan, with or without the cheap
\* word count, in one cell or over two rows, it is the same period (periods.py).
HeadersAgree == ComparisonNotPeriod /\ ProseCheckSound /\ SplitAgrees

SeriesOf(axis) == SelectSeq(axis.periods, LAMBDA p : p.kind # "total")

\* Between two neighbouring periods of an axis there are only hidden columns, and a
\* column is in one axis of its band (_split_header_runs, _relative_run).
RunsConnected ==
  /\ \A i \in DOMAIN axes :
       LET ps == SeriesOf(axes[i]) IN
         \A j \in 1..(Len(ps) - 1) :
           \A c \in (ps[j].col + 1)..(ps[j + 1].col - 1) : c \in Hidden
  /\ \A i, j \in DOMAIN axes :
       i # j /\ axes[i].band = axes[j].band =>
         {SeriesOf(axes[i])[k].col : k \in DOMAIN SeriesOf(axes[i])}
           \cap {SeriesOf(axes[j])[k].col : k \in DOMAIN SeriesOf(axes[j])} = {}

\* The year banner a period carries is the year of its own key: neither the banner
\* inside the band nor a repeated year row folded in from above contradicts it.
GroupYear ==
  \A i \in DOMAIN axes : \A j \in DOMAIN axes[i].periods :
    LET p == axes[i].periods[j] IN
      p.group # 0 /\ is_calendar_key(p.key) => p.group = p.key.y

\* An axis is one connected run of columns, and the years it is filed under are its own
\* (_split_header_runs, _fold_year_banners).
AxesSound == RunsConnected /\ GroupYear

\* Two columns of an axis end up with the same key only when their headers named the
\* same period with the same marker: neither the grain (_axes_from_band, apply_grain)
\* nor the disambiguation merges columns, and the order of dates is kept.
KeysStayApart ==
  [][CloseBand =>
       \A i \in (Len(axes) + 1)..Len(axes') :
         LET ps == SeriesOf(axes'[i])
             Composed(p) == CHOOSE h \in Range(headers) : h.col = p.col
         IN \A j, k \in DOMAIN ps :
              LET a == Composed(ps[j])
                  b == Composed(ps[k])
              IN /\ <<ps[j].key, ps[j].tag>> = <<ps[k].key, ps[k].tag>> =>
                       a.key = b.key /\ a.variant = b.variant
                 /\ key_as_date(a.key) < key_as_date(b.key) =>
                       key_as_date(ps[j].key) <= key_as_date(ps[k].key)]_vars

BandRows == UNION {axes[i].band : i \in DOMAIN axes}

\* When the sheet is done every labelled row from the first header on, headers and
\* counters aside, is in exactly one block or table (_blocks_for_sheet,
\* _section_title_owners, carve_params_regions).
RowOnce ==
  LET Places(r) == Cardinality({i \in DOMAIN blocks : r \in blocks[i].rows})
                     + Cardinality({<<i, t>> \in UNION {{i} \X blocks[i].tables : i \in DOMAIN blocks} :
                                      r \in t})
                     + Cardinality({i \in DOMAIN blocks : r \in blocks[i].case})
      Labelled(r) ==
        /\ ~is_counter_row(Rs[r]) /\ r >= Min(BandRows)
        /\ \E c \in Names(Rs[r], FALSE) : \A i \in DOMAIN blocks : c < Min(blocks[i].cols)
  IN pc = "done" /\ blocks # <<>> =>
       \A r \in DOMAIN Rs \ BandRows :
         /\ Places(r) <= 1
         /\ Labelled(r) => Places(r) = 1

\* The parent and the section path of a row, computed with stacks that are popped as
\* rows go by (parent_stack, section_stack), are what the rows above it say: the
\* nearest row with a smaller indent, and the sections no later row has closed.
Hierarchy ==
  pc = "rows" =>
    \A i \in DOMAIN out :
      LET Above(j) == j < i /\ ~out[j].unit /\ out[j].indent < out[i].indent
          near == {j \in DOMAIN out : Above(j)}
          Closes(t, s) == /\ ~out[t].unit
                          /\ IF out[t].kind = "abstract" THEN out[s].indent >= out[t].indent
                                                         ELSE out[s].indent > out[t].indent
          open == {out[s].row : s \in {x \in 1..(i - 1) :
                      /\ out[x].kind = "abstract" /\ ~out[x].unit
                      /\ \A t \in (x + 1)..i : ~Closes(t, x)}}
      IN /\ near # {} /\ ~out[i].total => out[i].parent = out[Max(near)].row
         /\ Range(out[i].path) \ block.band = open

\* A row of a nested outline group hangs off the group's summary row when that row is
\* nearer than its indent parent (_apply_outline_parents).
SummaryOwnsDetail ==
  pc = "closed" =>
    \A i \in DOMAIN out :
      LET side == {j \in DOMAIN out : /\ ~out[j].unit /\ out[j].level < out[i].level
                                      /\ IF sheet.below THEN j > i ELSE j < i}
          s == IF sheet.below THEN Min(side) ELSE Max(side)
          Gap(r) == IF r > out[i].row THEN r - out[i].row ELSE out[i].row - r
          indented == {j \in 1..(i - 1) : ~out[j].unit /\ out[j].indent < out[i].indent}
      IN /\ out[i].level > 1 /\ ~out[i].unit /\ side # {}
         /\ out[s].level > 0
         /\ indented # {} => Gap(out[s].row) < Gap(out[Max(indented)].row)
         => out[i].parent = out[s].row

\* Where the workbook puts summaries above their details, the stack pass of
\* _outline_parent_at and _apply_outline_parents give each detail row its summary.
SummaryAbove == ~sheet.below => SummaryOwnsDetail

\* Every row has one place: one block, the parent and the sections the rows above it
\* give, or the summary of its outline group (_blocks_for_sheet, _data_rows).
RowsPlaced == RowOnce /\ Hierarchy /\ SummaryAbove

=============================================================================
