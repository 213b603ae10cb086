----------------------------- MODULE Observations -----------------------------
(***************************************************************************)
(* The cells of a row that carry a role, from the layout to the answer of  *)
(* GET observations: the rows and the value keys of a params block         *)
(* (layout/params.py), the role cells of a published row                   *)
(* (context/build.py) and build_observations, which joins a row with its   *)
(* periods and its cells (context/observations.py).                        *)
(*                                                                         *)
(* The roles of the columns are given.  Prose, notes, check rows and       *)
(* hidden columns are left out.                                            *)
(***************************************************************************)
EXTENDS ContextParts

CONSTANTS
    SlugOf,      \* header text -> its slug
    ValueWords,  \* header texts that the closed list calls a value
    MinValueRows \* rows with a value that make a params block (3)

ASSUME MinValueRowsAssumption == MinValueRows \in Nat \ {0}

ValueRoles == {"value", "unknown"}

CellsOfRow(cells, row) == Select(cells, LAMBDA c : c.row = row)
IsNumber(text) == text \in DOMAIN NumberOf

(***************************************************************************)
(* Cells of a layout row                                                   *)
(***************************************************************************)
\* _row_cells: the stored cells of a params row, without the label.  A column
\* with no role of its own gets one from the cell.
guessed_role(c) ==
    IF c.value \in DOMAIN MeasureOf THEN "unit"
    ELSE IF c.call # "" \/ c.value # "" THEN "value" ELSE ""

role_of(roles, c) == IF c.col \in DOMAIN roles THEN roles[c.col] ELSE guessed_role(c)

Tag(c, role) == [col |-> c.col, role |-> role]

row_cells(cells, row, label_col, roles) ==
    LET mine == Select(CellsOfRow(cells, row),
                          LAMBDA c : c.col # label_col /\ role_of(roles, c) # "")
    IN  [k \in DOMAIN mine |-> Tag(mine[k], role_of(roles, mine[k]))]

\* attach_stub_cells: the cells of a timeline row between its label and its periods.
stub_role(c) ==
    IF c.value \in DOMAIN MeasureOf THEN "unit"
    ELSE IF c.call # "" \/ IsNumber(c.value) THEN "value" ELSE ""

stub_cells(cells, row, label_col, period_cols) ==
    LET mine == Select(CellsOfRow(cells, row),
                          LAMBDA c : /\ c.col > label_col /\ stub_role(c) # ""
                                     /\ \A col \in period_cols : c.col < col)
    IN  [k \in DOMAIN mine |-> Tag(mine[k], stub_role(mine[k]))]

(***************************************************************************)
(* A params block                                                          *)
(***************************************************************************)
\* _params_data_rows: a row with a number or a formula in a value column is a
\* fact, a selector row a flag, any other the section of the rows below it.
numeric_value(cells, row, tagged) ==
    \E t \in Range(tagged) :
        /\ t.role \in ValueRoles
        /\ \E c \in Range(CellsOfRow(cells, row)) :
              c.col = t.col /\ (c.call # "" \/ IsNumber(c.value))

Section(out) ==
    LET heads == Select(out, LAMBDA r : r.kind = "abstract")
    IN  IF heads = <<>> THEN [row |-> 0, label |-> ""] ELSE Last(heads)

params_row(out, row, label, kind, tagged) ==
    Append(out,
        [row |-> row, kind |-> kind, label |-> label, words |-> <<label>>, cells |-> tagged,
         parent |-> IF kind = "abstract" THEN 0 ELSE Section(out).row,
         path |-> IF kind = "abstract" \/ Section(out).row = 0 THEN <<>>
                  ELSE <<Section(out).label>>])

Label(cells, row, label_col) ==
    LET here == Select(CellsOfRow(cells, row), LAMBDA c : c.col = label_col)
    IN  IF here # <<>> THEN Last(here).value ELSE LeftText(cells, row)

params_kind(cells, row, tagged, switches) ==
    IF row \in switches THEN "flag"
    ELSE IF numeric_value(cells, row, tagged) THEN "fact" ELSE "abstract"

\* rows are the rows of the region below the header.
params_data_rows(cells, rows, label_col, roles, switches) ==
    FoldLeft(LAMBDA out, row :
                IF Label(cells, row, label_col) = "" \/ IsNumber(Label(cells, row, label_col))
                THEN out
                ELSE params_row(out, row, Label(cells, row, label_col),
                                params_kind(cells, row, row_cells(cells, row, label_col, roles),
                                            switches),
                                row_cells(cells, row, label_col, roles)),
             <<>>, SetToSortSeq({c.row : c \in {d \in Range(cells) : d.row \in rows}}, <))

\* _separate_value_keys: each of several value columns gets a key of its own.
ColumnKey(col) == <<"value", col>>
value_key(header) ==
    IF header.text \in ValueWords \/ header.text \notin DOMAIN SlugOf
    THEN "value" ELSE SlugOf[header.text]
separate_key(out, header) ==
    LET used == {h.key : h \in {g \in Range(out) : g.role = "value"}}
    IN  Append(out,
            IF header.role # "value" THEN header
            ELSE IF <<value_key(header)>> \in used
            THEN [header EXCEPT !.key = ColumnKey(header.col)]
            ELSE [header EXCEPT !.key = <<value_key(header)>>])

separate_value_keys(headers) ==
    IF Len(Select(headers, LAMBDA h : h.role = "value")) < 2 THEN headers
    ELSE FoldLeft(separate_key, <<>>, headers)

\* _axis_headers: the columns with a caption, and the value columns without one.
HeaderText(cells, row, col) ==
    LET here == Select(CellsOfRow(cells, row), LAMBDA c : c.col = col /\ ~IsNumber(c.value))
    IN  IF here = <<>> THEN "" ELSE Last(here).value

axis_headers(roles, cells, row) ==
    LET cols == Select(SetToSortSeq(DOMAIN roles, <), LAMBDA col :
                    roles[col] # "label"
                    /\ (roles[col] = "value" \/ HeaderText(cells, row, col) # ""))
    IN  separate_value_keys(
            [k \in DOMAIN cols |-> [col |-> cols[k], role |-> roles[cols[k]],
                                    text |-> HeaderText(cells, row, cols[k]),
                                    key |-> <<roles[cols[k]]>>]])

\* detect_params_block: the block of a sheet without a timeline.  plan holds the
\* roles of the columns and the header row; the rows are all the others.
Facts(rows) == Select(rows, LAMBDA r : r.kind = "fact")

params_block(plan, sheet, label_col, rows, headers) ==
    IF Len(Facts(rows)) < MinValueRows \/ headers = <<>> THEN <<>>
    ELSE <<[id |-> plan.id, sheet |-> sheet, kind |-> "params", axis_ids |-> <<>>,
            timeline_ids |-> <<>>, rows |-> rows, label_col |-> label_col,
            header_row |-> plan.header_row, headers |-> headers]>>

detect_params_block(plan, sheet, cells, label_col, switches) ==
    params_block(plan, sheet, label_col,
        params_data_rows(cells, {c.row : c \in Range(cells)} \ {plan.header_row},
                         label_col, plan.roles, switches),
        axis_headers(plan.roles, cells, plan.header_row))

\* The blocks of a sheet: those found on the timelines, with the cells beside
\* their labels, or else a params block.
PeriodCols(axes, ids) ==
    UNION {{p.col : p \in Range(a.periods)} : a \in {b \in Range(axes) : b.id \in Range(ids)}}

with_stub_cells(block, cells, period_cols) ==
    IF block.kind = "params" THEN block
    ELSE [block EXCEPT !.rows = [r \in DOMAIN block.rows |->
            [block.rows[r] EXCEPT !.cells =
                stub_cells(cells, block.rows[r].row, block.label_col, period_cols)]]]

blocks_for_sheet(sheet, cells, switches) ==
    IF sheet.blocks = <<>> /\ sheet.plan # <<>>
    THEN detect_params_block(sheet.plan[1], sheet.name, cells,
             CHOOSE col \in DOMAIN sheet.plan[1].roles : sheet.plan[1].roles[col] = "label",
             switches)
    ELSE [b \in DOMAIN sheet.blocks |->
            with_stub_cells(sheet.blocks[b], cells,
                            PeriodCols(sheet.axes, sheet.blocks[b].axis_ids))]

(***************************************************************************)
(* A published row: _role_cells                                            *)
(***************************************************************************)
role_cells(tagged, sheet, row, cells) ==
    [k \in DOMAIN tagged |->
        [col |-> tagged[k].col, role |-> tagged[k].role,
         value |-> cell_at(cells, sheet, row, tagged[k].col).value]]

UnitCells(roled) == Select(roled, LAMBDA c : c.role = "unit")
unit_from_cell(roled) == IF UnitCells(roled) = <<>> THEN "" ELSE UnitCells(roled)[1].value
own_unit(roled) ==
    LET named == Select(UnitCells(roled), LAMBDA c : c.value # "")
    IN  IF named = <<>> THEN "" ELSE named[1].value

(***************************************************************************)
(* build_observations                                                      *)
(***************************************************************************)
Item(items, k, dflt) == IF k \in DOMAIN items THEN items[k] ELSE dflt

\* _cache: no value for an empty cell and for one that does not apply.
cache(text, status) ==
    IF status \in {"empty", "not_applicable"} THEN "" ELSE text

observation(row, axis_id, period, col, values, statuses, k) ==
    [key |-> row.key, axis |-> axis_id, period |-> period, col |-> col,
     status |-> Item(statuses, k, IF Item(values, k, "") = "" THEN "empty" ELSE "cached"),
     value |-> cache(Item(values, k, ""),
                     Item(statuses, k, IF Item(values, k, "") = "" THEN "empty" ELSE "cached"))]

\* _timeline_row: the series of each axis, in step with the periods of the axis.
SeriesOf(row, axis_id) == Select(row.series, LAMBDA s : s.axis_id = axis_id)

timeline_row(block, row, axes) ==
    FlattenSeq([a \in DOMAIN block.axis_ids |->
        FlattenSeq([x \in DOMAIN axes |->
            IF axes[x].id # block.axis_ids[a] \/ SeriesOf(row, axes[x].id) = <<>> THEN <<>>
            ELSE [p \in DOMAIN axes[x].periods |->
                    observation(row, axes[x].id, axes[x].periods[p].key, axes[x].periods[p].col,
                                Last(SeriesOf(row, axes[x].id)).values,
                                Last(SeriesOf(row, axes[x].id)).statuses, p)]])])

\* _params_row: the values of the block's one series, in step with the value cells
\* of the row.
params_period_id(block, col) ==
    LET named == Select(block.periods, LAMBDA h : h.col = col)
    IN  IF named = <<>> THEN <<"cell", col>> ELSE named[1].key

ValueCells(row) ==
    SortSeq(Select(row.cells, LAMBDA c : c.role \in ValueRoles),
            LAMBDA one, other : one.col < other.col)

params_observations(block, row) ==
    LET cells == ValueCells(row)
        series == SeriesOf(row, block.id)
    IN  [k \in DOMAIN cells |->
            IF series = <<>>
            THEN observation(row, "", params_period_id(block, cells[k].col), cells[k].col,
                             [c \in DOMAIN cells |-> cells[c].value], <<>>, k)
            ELSE observation(row, "", params_period_id(block, cells[k].col), cells[k].col,
                             series[1].values, series[1].statuses, k)]

\* keys is the selector; limit cuts the list.
observations(doc, keys) ==
    FlattenSeq([b \in DOMAIN doc.blocks |->
        FlattenSeq([r \in DOMAIN doc.blocks[b].rows |->
            IF doc.blocks[b].rows[r].key \notin keys THEN <<>>
            ELSE IF doc.blocks[b].kind = "params"
            THEN params_observations(doc.blocks[b], doc.blocks[b].rows[r])
            ELSE timeline_row(doc.blocks[b], doc.blocks[b].rows[r], doc.axes)])])

build_observations(found, limit) ==
    [truncated |-> Len(found) > limit,
     observations |-> SubSeq(found, 1, IF Len(found) < limit THEN Len(found) ELSE limit)]
=============================================================================
