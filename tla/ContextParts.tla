----------------------------- MODULE ContextParts -----------------------------
(***************************************************************************)
(* What build_context computes from a laid-out workbook: relations between *)
(* rows, their formula neighbours, the selector rows, the flags of an      *)
(* axis, one published row, the formula totals and the warnings            *)
(* (context/build.py, context/timeline.py, context/assemble.py,            *)
(* context/series.py, layout/relations.py, layout/adjacency.py,            *)
(* layout/params.py).  Context drives these operators.                     *)
(*                                                                         *)
(*   cell    [sheet, row, col, call, args, tpl, value, missing, fmt,       *)
(*            unparsed]; call is "" for a constant, missing says that the  *)
(*            cell has no cached value, an empty text is value ""          *)
(*   arg     [sheet, row, col, name]; name # "" is a defined name          *)
(* None is the empty text, and the empty sequence where a tuple is meant.  *)
(***************************************************************************)
EXTENDS Timelines, Functions, TLC

CONSTANTS
    Captions,        \* labels that set the unit of the rows below them
    SelectorLabels,  \* labels that read as a scenario selector
    OddPeriods,      \* texts that look like a period and do not parse
    MeasureOf,       \* text -> [unit, currency, scale] it names
    NumberOf,        \* numeric text -> the number
    FactorOf,        \* scale -> its multiplier
    NoiseRatio,      \* a value this many times below the largest is residue
    MaxFloat,        \* a scaled value above it is not finite
    RangeMin         \* rows from which a range is kept as one node

Or(a, b) == IF a # "" THEN a ELSE b
Found(set, dflt) == IF set = {} THEN dflt ELSE CHOOSE x \in set : TRUE
KeyOf(sheet, row, block) == <<sheet, row, block>>

(***************************************************************************)
(* Relations: layout/relations.py, layout/formulas_shape.py                *)
(***************************************************************************)
NoShape == [type |-> "", sheet |-> "", rows |-> <<>>]

\* One formula against its own place: a roll reads the previous column of
\* another row of the sheet, an alias another row, an aggregate the rows of a
\* span of its own column, a difference two cells of its own column.
shape(c) ==
    IF c.call = "REF" /\ c.args[1].row # c.row
    THEN IF c.args[1].sheet = c.sheet /\ c.args[1].col = c.col - 1
         THEN [type |-> "roll", sheet |-> c.sheet, rows |-> <<c.args[1].row>>]
         ELSE [type |-> "alias", sheet |-> c.args[1].sheet, rows |-> <<c.args[1].row>>]
    ELSE IF c.call = "SUM" /\ c.args[1].col = c.col /\ c.args[2].col = c.col
    THEN [type |-> "aggregate", sheet |-> c.sheet,
          rows |-> IF c.args[1].row <= c.args[2].row
                   THEN <<c.args[1].row, c.args[2].row>>
                   ELSE <<c.args[2].row, c.args[1].row>>]
    ELSE IF c.call = "SUB" /\ c.args[1].col = c.col /\ c.args[2].col = c.col
    THEN [type |-> "diff", sheet |-> c.sheet, rows |-> <<c.args[1].row, c.args[2].row>>]
    ELSE NoShape

\* The cells of a row at the period columns, in column order; the last cell of
\* an address wins.
RowCells(bucket, cols) ==
    Select([p \in DOMAIN cols |->
                 IF bucket = <<>> THEN NoCell
                 ELSE cell_at(bucket, bucket[1].sheet, bucket[1].row, cols[p])],
              LAMBDA c : c # NoCell)

MostCommon(seq) ==
    LET count(v) == Cardinality({p \in DOMAIN seq : seq[p] = v})
        best == {p \in DOMAIN seq : \A q \in DOMAIN seq : count(seq[q]) <= count(seq[p])}
    IN  seq[CHOOSE p \in best : \A q \in best : p <= q]

\* The shape at least 60 percent of a row's shaped cells agree on.
pattern_of(shapes) ==
    LET top == MostCommon([p \in DOMAIN shapes |-> shapes[p].type])
        same == Select(shapes, LAMBDA s : s.type = top)
    IN  IF 10 * Len(same) >= 6 * Len(shapes) THEN same[1] ELSE NoShape

pattern_for_row(bucket, cols) ==
    LET shapes == Select([p \in DOMAIN RowCells(bucket, cols) |->
                               shape(RowCells(bucket, cols)[p])],
                            LAMBDA s : s # NoShape)
    IN  IF shapes = <<>> THEN NoShape ELSE pattern_of(shapes)

\* The columns formula_relations reads on a block.
relation_period_cols(block, axes) ==
    IF block.kind = "params"
    THEN LET kept == Select(block.headers, LAMBDA h : h.role \in {"value", "unknown"})
         IN  [p \in DOMAIN kept |-> kept[p].col]
    ELSE FlattenSeq([a \in DOMAIN axes |->
            [p \in DOMAIN axes[a].periods |-> axes[a].periods[p].col]])

\* row_index: the block of a sheet row, "" when no block has it.
BlockOfRow(blocks, sheet, row) ==
    LET hits == {b \in DOMAIN blocks : /\ blocks[b].sheet = sheet
                                       /\ \E r \in Range(blocks[b].rows) : r.row = row}
    IN  IF hits = {} THEN "" ELSE blocks[CHOOSE b \in hits : \A c \in hits : c <= b].id

\* _member_keys_in_span: the published rows of the span, in row order.
member_keys(blocks, sheet, rows) ==
    LET known == Select(rows, LAMBDA r : BlockOfRow(blocks, sheet, r) # "")
    IN  [p \in DOMAIN known |-> KeyOf(sheet, known[p], BlockOfRow(blocks, sheet, known[p]))]

RelationOf(blocks, source, sheet, pattern) ==
    LET target == member_keys(blocks, pattern.sheet, <<pattern.rows[1]>>)
        rel(kind, to, members) ==
            <<[kind |-> kind, source |-> source, target |-> to, members |-> members]>>
    IN  CASE pattern.type = "alias" /\ target # <<>> -> rel("alias", target[1], <<>>)
          [] pattern.type = "roll" /\ target # <<>> -> rel("roll_forward", target[1], <<>>)
          [] pattern.type = "aggregate" ->
                rel("aggregate", <<>>,
                    member_keys(blocks, sheet,
                        [n \in 1..(pattern.rows[2] - pattern.rows[1] + 1) |->
                            pattern.rows[1] + n - 1]))
          [] pattern.type = "diff" ->
                rel("difference", <<>>, member_keys(blocks, sheet, pattern.rows))
          [] OTHER -> <<>>

\* _relations_for_block: the relations that name a row of the block.
relations_for_block(relations, id) ==
    Select(relations, LAMBDA r :
        \E key \in {r.source, r.target} \cup Range(r.members) : key # <<>> /\ key[3] = id)

(***************************************************************************)
(* Neighbours: layout/adjacency.py                                         *)
(***************************************************************************)
\* A range over many rows is a node of its own and is not expanded.
IsNode(c) == c.call = "SUM" /\ c.args[2].row - c.args[1].row + 1 >= RangeMin

Targets(c) ==
    IF c.call = "SUM"
    THEN {<<c.args[1].sheet, r>> : r \in c.args[1].row..c.args[2].row}
    ELSE {<<a.sheet, a.row>> : a \in {b \in Range(c.args) : b.name = ""}}

\* One edge of row_adjacency.  found holds the pairs of rows stored for the rows
\* that are read; a source outside keep is walked, it may read a row inside.
row_adjacency_edge_Kept(found, c, keep) ==
    IF IsNode(c) \/ <<c.sheet, c.row>> \notin keep
    THEN found
    ELSE found \cup {<<<<c.sheet, c.row>>, t>> : t \in Targets(c) \ {<<c.sheet, c.row>>}}
               \cup {<<t, <<c.sheet, c.row>>>> :
                        t \in (Targets(c) \cap keep) \ {<<c.sheet, c.row>>}}
row_adjacency_edge(found, c, keep) ==
    IF IsNode(c)
    THEN found
    ELSE found
         \cup {p \in {<<c.sheet, c.row>>} \X Targets(c) : p[1] # p[2] /\ p[1] \in keep}
         \cup {p \in Targets(c) \X {<<c.sheet, c.row>>} : p[1] # p[2] /\ p[1] \in keep}

row_adjacency(cells, keep) ==
    FoldLeft(LAMBDA found, c : row_adjacency_edge(found, c, keep), {}, cells)

formula_neighbors(found, sheet, row) ==
    {pair[2] : pair \in {p \in found : p[1] = <<sheet, row>>}}

(***************************************************************************)
(* Selector rows: selector_rows of layout/params.py                        *)
(***************************************************************************)
SwitchCalls == {"INDEX", "CHOOSE", "OFFSET"}

\* A name local to the sheet hides a workbook name; the name must point at one
\* cell of this sheet.
NamedCell(names, sheet, name) ==
    LET here == {n \in names : n.name = name /\ n.scope \in {"", sheet}
                               /\ n.sheet = sheet}
        local == {n \in here : n.scope # ""}
    IN  {<<n.row, n.col>> : n \in IF local # {} THEN local ELSE here}

\* The array of INDEX and the anchor of OFFSET do not select.
switch_args(c, names) ==
    LET from == IF c.call = "CHOOSE" THEN 1 ELSE 2
        picked == {c.args[k] : k \in {j \in DOMAIN c.args : j >= from}}
    IN  IF c.call \notin SwitchCalls THEN {}
        ELSE {<<a.row, a.col>> : a \in {b \in picked : b.name = "" /\ b.sheet = c.sheet}}
             \cup UNION {NamedCell(names, c.sheet, a.name) : a \in {b \in picked : b.name # ""}}

\* Rows whose constant two other rows use to select.
Candidates(table, names) ==
    LET read == UNION {switch_args(c, names) : c \in Range(table)}
        target(at) == cell_at(table, table[1].sheet, at[1], at[2])
        constant(at) == target(at) # NoCell /\ target(at).call = ""
        readers(at) == {c.row : c \in {d \in Range(table) : at \in switch_args(d, names)}}
    IN  {at[1] : at \in {a \in read : constant(a) /\ Cardinality(readers(a) \ {a[1]}) >= 2}}

\* With two or more candidates a selector label keeps its row.
LeftText(table, row) ==
    LET texts == {c \in Range(table) : c.row = row /\ c.value # ""}
    IN  IF texts = {} THEN ""
        ELSE (CHOOSE c \in texts : \A d \in texts : c.col <= d.col).value

selector_rows(table, candidates) ==
    LET labeled == {r \in candidates : LeftText(table, r) \in SelectorLabels}
    IN  IF Cardinality(candidates) < 2 \/ labeled = {} THEN candidates ELSE labeled

\* The cells _switch_rows fetches from the file: the switch formulas that name a
\* cell and the cells they name, without cached values.
switch_table(cells, sheet, names) ==
    LET calls == Select(cells, LAMBDA c : c.sheet = sheet /\ switch_args(c, names) # {})
        wanted == UNION {switch_args(c, names) : c \in Range(calls)}
        named == Select(cells, LAMBDA c : /\ c.sheet = sheet
                                             /\ <<c.row, c.col>> \in wanted
                                             /\ switch_args(c, names) = {})
        both == calls \o named
    IN  [k \in DOMAIN both |-> [both[k] EXCEPT !.value = "", !.missing = TRUE]]

(***************************************************************************)
(* Axes: context/timeline.py                                               *)
(***************************************************************************)
\* A key is a sequence of words: the label, then what sets it apart.
preceding_flag_key(bases, keys, n) ==
    LET other == {m \in 1..(n - 1) : bases[m] # bases[n]}
    IN  IF other = {} THEN <<>> ELSE keys[CHOOSE m \in other : \A l \in other : l <= m]

\* _unused_flag_key: the row number, then a counter, until the key is new.
unused_flag_key_Once(key, used, row) == IF key \notin used THEN key ELSE Append(key, row)
unused_flag_key(key, used, row) ==
    LET tries == <<key, Append(key, row)>>
                 \o [n \in 1..Cardinality(used) |-> Append(Append(key, row), ToString(n + 1))]
        free == {k \in DOMAIN tries : tries[k] \notin used}
    IN  tries[CHOOSE k \in free : \A l \in free : k <= l]

\* One flag row: a repeated label takes the nearest preceding flag of another
\* label, or else the row number.
flag_key(bases, keys, n, row) ==
    LET before == preceding_flag_key(bases, keys, n)
    IN  IF \A m \in DOMAIN bases : m # n => bases[m] # bases[n]
        THEN bases[n]
        ELSE IF before # <<>> THEN bases[n] \o <<"(">> \o before \o <<")">> ELSE Append(bases[n], row)

flag_keys(rows) ==
    LET bases == [k \in DOMAIN rows |-> rows[k].words]
        add(keys, row) ==
            Append(keys, unused_flag_key(
                flag_key(bases, keys, Len(keys) + 1, ToString(row.row)),
                Range(keys), ToString(row.row)))
    IN  FoldLeft(add, <<>>, rows)

\* _timeline_of: the timeline of an axis, as the blocks name it.
timeline_of(blocks, id) ==
    LET links == UNION {{<<b, k>> : k \in {n \in DOMAIN blocks[b].axis_ids :
                                             blocks[b].axis_ids[n] = id}} : b \in DOMAIN blocks}
    IN  IF links = {} THEN id
        ELSE LET at == CHOOSE l \in links : \A m \in links : m[1] <= l[1]
             IN  blocks[at[1]].timeline_ids[at[2]]

\* The published axis: its series columns, the flags that are on somewhere, its
\* timeline.  cells are the cells the caller loaded.
annotate_axis(axis, timeline, rows, keys, periods, cells) ==
    LET on(k, p) == flag_bit(cell_at(cells, axis.sheet, rows[k].row, periods[p].col))
        live == {k \in DOMAIN rows : \E p \in DOMAIN periods : on(k, p)}
    IN  [id |-> axis.id, timeline |-> timeline,
         periods |-> [p \in DOMAIN periods |->
             [col |-> periods[p].col, key |-> periods[p].key,
              flags |-> {<<keys[k], on(k, p)>> : k \in live}]]]

\* _axis_cell_rows: the header rows and the flag rows, all that the axes and the
\* header caption are read from.
axis_cell_rows(axes, blocks) ==
    {<<a.sheet, a.header_row>> : a \in Range(axes)}
    \cup {<<b.sheet, b.header_row>> : b \in Range(blocks)}
    \cup UNION {{<<b.sheet, r.row>> : r \in Range(FlagRows(b))} : b \in Range(blocks)}

load_rows(cells, wanted) == Select(cells, LAMBDA c : <<c.sheet, c.row>> \in wanted)

\* _header_unit: the caption in the label cell of a header row, the first one.
header_unit(block, rows, cells) ==
    LET hits == {r \in rows : cell_at(cells, block.sheet, r, block.label_col).value \in Captions}
    IN  IF hits = {} THEN ""
        ELSE cell_at(cells, block.sheet, CHOOSE r \in hits : \A q \in hits : r <= q,
                     block.label_col).value

\* _local_periods: the block's own columns, left out when a reader finds the same
\* columns under the keys of the shared timeline.
LastCol(periods, key) ==
    LET hits == {p \in DOMAIN periods : periods[p].key = key}
    IN  IF hits = {} THEN 0 ELSE periods[CHOOSE p \in hits : \A q \in hits : q <= p].col

local_periods(headers, shared) ==
    IF \A h \in DOMAIN headers : LastCol(shared, headers[h].key) = headers[h].col
    THEN <<>> ELSE headers

(***************************************************************************)
(* One row: _rows of _stream_one_block, context/assemble.py,               *)
(* context/series.py                                                       *)
(***************************************************************************)
NoMeasure == [unit |-> "", currency |-> "", scale |-> ""]

fill(base, extra) ==
    [unit |-> Or(base.unit, extra.unit), currency |-> Or(base.currency, extra.currency),
     scale |-> Or(base.scale, extra.scale)]

parse_text(text) == IF text \in DOMAIN MeasureOf THEN MeasureOf[text] ELSE NoMeasure

\* _combine_measure: the unit text, the label, then the formats; money named by a
\* text with no multiplier is in base units.
combine_measure(text, formatted) ==
    LET all == fill(text, formatted)
    IN  IF all.unit = "money" /\ all.scale = "" /\ text.currency # ""
        THEN [all EXCEPT !.scale = "unit"] ELSE all

percent_formatted(fmts) ==
    LET percents == Select(fmts, LAMBDA f : f = "percent")
    IN  percents # <<>> /\ 2 * Len(percents) >= Len(fmts)

FormatMeasure(fmts) ==
    FoldLeft(LAMBDA m, f : fill(m, parse_text(f)), NoMeasure, fmts)

\* _resolved_hints: the row's own unit names the unit, the caption its scale, and
\* a percent format turns a money caption into a rate.
hints_of(hinted, row_measure) ==
    [unit |-> Or(row_measure.unit, hinted.unit),
     currency |-> Or(hinted.currency, row_measure.currency),
     scale |-> Or(hinted.scale, row_measure.scale)]

Rate == [unit |-> "rate", currency |-> "", scale |-> ""]

resolved_hints(label, unit_text, unit_cell, fmts) ==
    LET first == combine_measure(fill(parse_text(unit_text), parse_text(label)), FormatMeasure(fmts))
    IN  IF first.unit = "rate" THEN hints_of(first, Rate)
        ELSE IF first.unit = "money" /\ percent_formatted(fmts) THEN hints_of(Rate, Rate)
        ELSE hints_of(first, combine_measure(fill(parse_text(unit_cell), parse_text(label)), NoMeasure))

SeriesKinds == {"fact", "flag", "helper"}

\* _series_numbers: a column that is not kept, and an empty cell of a row that has
\* no series, do not apply.
value_status(kept, kind, text) ==
    IF ~kept \/ (kind \notin SeriesKinds /\ text = "") THEN "not_applicable"
    ELSE IF text = "" THEN "empty"
    ELSE IF text \in DOMAIN NumberOf /\ NumberOf[text] = 0 THEN "zero_explicit"
    ELSE "cached"

\* normalize_value: None for a text, and for an amount that leaves the range.
normalize_value(text, factor) ==
    IF text \notin DOMAIN NumberOf \/ NumberOf[text] * factor > MaxFloat THEN <<>>
    ELSE <<NumberOf[text] * factor>>

\* normalize_series: residue far below the largest value is 0.
normalize_series(scaled) ==
    LET below(x) == \E k \in DOMAIN scaled : scaled[k] # <<>> /\ NoiseRatio * x < scaled[k][1]
    IN  [k \in DOMAIN scaled |->
            IF scaled[k] # <<>> /\ below(scaled[k][1]) THEN <<0>> ELSE scaled[k]]

\* One series of a row over the headers of one axis.  A selector row keeps only
\* the columns of role "value".
series_of(axis_id, headers, cells, switch, kind, factor) ==
    LET kept(h) == ~switch \/ headers[h].role = "value"
        text(h) == IF kept(h) THEN cells[h].value ELSE ""
        tpls == Select([h \in DOMAIN headers |-> IF kept(h) THEN cells[h].tpl ELSE ""],
                          LAMBDA t : t # "")
        top == IF tpls = <<>> THEN "" ELSE MostCommon(tpls)
    IN  [axis_id |-> axis_id,
         formula |-> top,
         exceptions |-> {headers[h].col : h \in {g \in DOMAIN headers :
                            kept(g) /\ cells[g].tpl \notin {"", top}}},
         values |-> [h \in DOMAIN headers |-> text(h)],
         statuses |-> [h \in DOMAIN headers |-> value_status(kept(h), kind, text(h))],
         normalized |-> normalize_series(
             [h \in DOMAIN headers |-> normalize_value(text(h), factor)])]

\* The running caption: a caption row starts one, the next section inside the
\* block ends it, the header caption stays for the block.
next_unit_Sticky(unit, row, header) ==
    IF row.label \in Captions THEN [text |-> row.label, body |-> TRUE] ELSE unit
next_unit(unit, row, header) ==
    IF row.label \in Captions THEN [text |-> row.label, body |-> TRUE]
    ELSE IF unit.body /\ row.kind = "abstract" THEN [text |-> header, body |-> FALSE]
    ELSE unit

unit_text(own, row, unit) ==
    Or(own, IF row.label \in Captions THEN "" ELSE unit.text)

label_path(row, parent) ==
    IF parent # "" /\ parent \notin Range(row.path) THEN Append(row.path, parent) ELSE row.path

(***************************************************************************)
(* Totals and warnings                                                     *)
(***************************************************************************)
NoStats == [formulas |-> 0, missing |-> 0, unparsed |-> 0, missing_values |-> 0]

\* One cell of _formula_stats.  A value that is missing where no value applies is
\* not reported.
count_formula(stats, c, not_applicable) ==
    IF c.call = "" THEN stats
    ELSE [formulas |-> stats.formulas + 1,
          missing |-> stats.missing + (IF c.missing THEN 1 ELSE 0),
          unparsed |-> stats.unparsed + (IF c.unparsed THEN 1 ELSE 0),
          missing_values |-> stats.missing_values +
              (IF c.missing /\ <<c.sheet, c.row, c.col>> \notin not_applicable THEN 1 ELSE 0)]

formula_stats(cells, not_applicable) ==
    FoldLeft(LAMBDA stats, c : count_formula(stats, c, not_applicable), NoStats, cells)

\* _period_warnings: a text is reported once per sheet.
period_warnings(cells) ==
    FoldLeft(LAMBDA out, c :
                IF c.value \in OddPeriods /\ <<"period", c.sheet, c.value>> \notin Range(out)
                THEN Append(out, <<"period", c.sheet, c.value>>) ELSE out,
             <<>>, cells)

has_content(c) == c.call # "" \/ c.value # ""

\* _span_list: neighbouring numbers of a sorted list as one span.
span_step(spans, n) ==
    IF spans # <<>> /\ n = Last(spans)[2] + 1
    THEN [spans EXCEPT ![Len(spans)] = <<@[1], n>>]
    ELSE Append(spans, <<n, n>>)

span_list(numbers) == FoldLeft(span_step, <<>>, SetToSortSeq(numbers, <))

Report(kind, sheet, spans) == IF spans = <<>> THEN <<>> ELSE <<<<kind, sheet, spans>>>>

hidden_warnings(sheet, cells) ==
    LET held == {c \in Range(cells) : c.sheet = sheet.name /\ has_content(c)}
    IN  (IF sheet.hidden THEN <<<<"hidden", sheet.name, <<>>>>>> ELSE <<>>)
        \o Report("rows", sheet.name, span_list(sheet.hidden_rows \cap {c.row : c \in held}))
        \o Report("cols", sheet.name, span_list(sheet.hidden_cols \cap {c.col : c \in held}))

\* _unknown_header_warnings: two period-like headers are a timeline that did not form.
unknown_header_warnings(block) ==
    LET unknown == Select(block.headers, LAMBDA h : h.role = "unknown")
        odd == Select(unknown, LAMBDA h : h.text \in OddPeriods)
        rest == Select(unknown, LAMBDA h : h.text \notin OddPeriods)
    IN  IF block.kind # "params" THEN <<>>
        ELSE (IF Len(odd) >= 2 THEN <<<<"no_axis", block.sheet, odd>>>> ELSE <<>>)
             \o Report("unknown", block.id, IF Len(odd) >= 2 THEN rest ELSE unknown)

(***************************************************************************)
(* Markdown: render/markdown.py                                            *)
(***************************************************************************)
\* _markdown_tables: one value table per referenced axis, one without an axis.
markdown_tables(axis_ids, known) ==
    LET referenced == Select(axis_ids, LAMBDA id : id \in known)
    IN  IF referenced = <<>> THEN <<"">> ELSE referenced

series_for(row, axis_id) ==
    LET mine == Select(row.series, LAMBDA s : s.axis_id = axis_id)
    IN  IF mine # <<>> THEN mine[1].values
        ELSE IF row.series # <<>> THEN row.series[1].values ELSE <<>>

row_line(row, axis_id) == <<"row", row.key, row.unit, series_for(row, axis_id)>>

Intro(id, count) == <<"intro", id, count>>
TableHead(axis_id) == <<"table", axis_id>>
RelationLines(relations) == IF relations = <<>> THEN <<>> ELSE <<<<"relations", relations>>>>

\* render_markdown of a document that has its rows.
block_section(block, known) ==
    LET tables == markdown_tables(block.axis_ids, known)
    IN  <<Intro(block.id, Len(block.rows))>>
        \o (IF block.rows = <<>> THEN <<>>
            ELSE FlattenSeq([t \in DOMAIN tables |->
                     <<TableHead(tables[t])>>
                     \o [r \in DOMAIN block.rows |-> row_line(block.rows[r], tables[t])]])
                 \o RelationLines(block.relations))

row_count(blocks) == FoldLeft(LAMBDA n, b : n + Len(b.rows), 0, blocks)

render_markdown(doc) ==
    [run |-> doc.run, count |-> row_count(doc.blocks),
     lines |-> FlattenSeq([b \in DOMAIN doc.blocks |-> block_section(doc.blocks[b], doc.known)])]

=============================================================================
