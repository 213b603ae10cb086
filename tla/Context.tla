------------------------------- MODULE Context -------------------------------
(***************************************************************************)
(* From the cells of a parsed workbook to context.json and context.md:     *)
(* the parser's order check, the layout stage's spill of the cells to one  *)
(* file per sheet, the sharing and linking of the sheets' axes, the row    *)
(* relations, and build_context, which streams the rows into a temporary   *)
(* file and a markdown sidecar and then swaps them in                      *)
(* (excel/ooxml.py, layout/stage.py, context/build.py,                     *)
(* render/markdown.py).                                                    *)
(*                                                                         *)
(* One job directory is built over and over.  A build may raise while it   *)
(* writes (the except clauses clean up) or be killed (nothing does), and   *)
(* the next build starts over whatever is on the disk.  The blocks and     *)
(* axes of each sheet are the input here; module Layout is about how they  *)
(* are found.  The cells of a book have distinct addresses.                *)
(***************************************************************************)
EXTENDS Observations

CONSTANTS
    Books,       \* the workbooks: [cells, sheets, names]
    BatchSize,   \* cells of a parquet batch (65536)
    WarnMax,     \* warnings a document keeps (50)
    ObsLimit,    \* observations of an answer (24)
    Builds(_),   \* bound: builds of the directory of a book
    Faults(_)    \* bound: exceptions and kills

ASSUME ContextAssumption ==
    /\ BatchSize \in Nat \ {0}
    /\ WarnMax \in Nat
    /\ ObsLimit \in Nat \ {0}
    /\ \A b \in Books : Builds(b) \in Nat \ {0} /\ Faults(b) \in Nat

\* What the parser and the layout of the single sheets hand over: lists, cells with
\* an address of their own (a malformed sheet that repeats an address is left out),
\* axes with an id of their own (the sheet is a part of it), and blocks that name
\* axes of their sheet.
IsList(s) == s \in Seq(Range(s))
BlockFields == {"id", "sheet", "kind", "axis_ids", "timeline_ids", "rows", "label_col",
                "header_row", "headers"}
WellFormed(sheet) ==
    /\ IsList(sheet.axes) /\ IsList(sheet.blocks) /\ IsList(sheet.plan)
    /\ \A x \in Range(sheet.axes) \cup Range(sheet.blocks) \cup Range(sheet.plan) :
          x.header_row \in Nat
    /\ \A a \in Range(sheet.axes) : IsList(a.periods) /\ a.sheet = sheet.name
    /\ \A j, k \in DOMAIN sheet.axes : sheet.axes[j].id = sheet.axes[k].id => j = k
    /\ \A b \in Range(sheet.blocks) :
          /\ DOMAIN b = BlockFields /\ b.sheet = sheet.name /\ IsList(b.axis_ids)
          /\ IsList(b.rows)
          /\ \A id \in Range(b.axis_ids) : \E a \in Range(sheet.axes) : a.id = id

Addressed(cells) ==
    /\ \A c \in Range(cells) : DOMAIN c = DOMAIN NoCell /\ c.row \in Nat \ {0}
    /\ \A c, d \in Range(cells) :
          (c.sheet = d.sheet /\ c.row = d.row /\ c.col = d.col) => c = d

ASSUME BooksAssumption ==
    \A b \in Books : /\ IsList(b.cells) /\ Addressed(b.cells)
                     /\ \A s \in Range(b.sheets) : WellFormed(s)
                     /\ \A s, t \in Range(b.sheets) :
                           \A a \in Range(s.axes), c \in Range(t.axes) : a.id = c.id => a = c

VARIABLES
    book,     \* the workbook
    pc,       \* the step the job is at
    at,       \* position in the loop of that step
    order,    \* _CellOrder: last place per sheet, sheets with a cell out of order
    spill,    \* _SheetSpill: names in first-seen order, parts per sheet
    share,    \* the tables of _share_repeated_axes for the current sheet
    layout,   \* [axes, blocks, done]: axes and blocks of the sheets shared so far
    buckets,  \* the buckets of _timeline_buckets
    rel,      \* formula_relations: cells to read, current bucket, patterns, relations
    prep,     \* what is read before the row loop
    unit,     \* running_unit and body_unit of the current block
    out,      \* the temporary context.json: blocks and rows written so far
    lines,    \* the row lines of the current block's tables
    na,       \* not_applicable
    built,    \* the document of this build, before it is swapped in
    disk,     \* the files of the context directory
    docs,     \* history: the document each build published
    answer,   \* the answer to GET observations, and the rows it asked for
    builds, faults, killed

vars == <<book, pc, at, order, spill, share, layout, buckets, rel, prep, unit, out,
          lines, na, built, disk, docs, answer, builds, faults, killed>>
inputs == <<order, spill, share, layout, buckets, rel>>
stream == <<unit, out, lines, na, built>>
history == <<docs, answer, builds, faults, killed>>

Nothing == [run |-> 0]

NoRel == [queue |-> <<>>, bucket |-> <<>>, patterns |-> <<>>, found |-> <<>>]
NoPrep == [switches |-> <<>>, header |-> <<>>, axes |-> <<>>, pairs |-> {}]
NoBody == [there |-> FALSE, lines |-> <<>>]
NoUnit == [text |-> "", body |-> FALSE]
NoAnswer == [keys |-> {}, found |-> [truncated |-> FALSE, observations |-> <<>>]]

\* The layout stage reads the parsed book, so its work is the same in every build;
\* a build starts at "switches".
Init ==
    /\ book \in Books
    /\ pc = "parse" /\ at = 1
    /\ order = [last |-> <<>>, warned |-> <<>>]
    /\ spill = [names |-> <<>>, parts |-> <<>>]
    /\ share = NoShare
    /\ layout = [axes |-> <<>>, blocks |-> <<>>, done |-> 0]
    /\ buckets = <<>> /\ rel = NoRel /\ prep = NoPrep /\ unit = NoUnit
    /\ out = <<>> /\ lines = <<>> /\ na = {} /\ built = Nothing
    /\ disk = [json |-> Nothing, tmp |-> {}, body |-> NoBody, rows |-> 0,
               md |-> Nothing, axis |-> 0]
    /\ docs = <<>> /\ answer = NoAnswer /\ builds = 0 /\ faults = 0 /\ killed = {}

(***************************************************************************)
(* Reading the cells                                                       *)
(***************************************************************************)
After(one, other) == one[1] > other[1] \/ (one[1] = other[1] /\ one[2] > other[2])

\* _CellOrder.see, one cell.
see(seen, c) ==
    [last |-> [name \in DOMAIN seen.last \cup {c.sheet} |->
                 IF name = c.sheet THEN <<c.row, c.col>> ELSE seen.last[name]],
     warned |-> IF /\ c.sheet \in DOMAIN seen.last
                   /\ ~After(<<c.row, c.col>>, seen.last[c.sheet])
                   /\ c.sheet \notin Range(seen.warned)
                THEN Append(seen.warned, c.sheet) ELSE seen.warned]

Parse ==
    /\ pc = "parse"
    /\ order' = FoldLeft(see, order, book.cells)
    /\ pc' = "spill"
    /\ UNCHANGED <<book, at, spill, share, layout, buckets, rel, prep, stream, disk, history>>

\* One part of a batch, appended to its sheet.
write_part(held, name, part) ==
    [names |-> IF name \in Range(held.names) THEN held.names ELSE Append(held.names, name),
     parts |-> [n \in DOMAIN held.parts \cup {name} |->
                  IF n # name THEN held.parts[n]
                  ELSE IF name \in DOMAIN held.parts THEN held.parts[name] \o part ELSE part]]

\* write_batch: the batch split by sheet, the sheets in first-seen order.
SheetsIn(cells) ==
    FoldLeft(LAMBDA seen, c : IF c.sheet \in Range(seen) THEN seen ELSE Append(seen, c.sheet),
             <<>>, cells)

write_batch(held, batch) ==
    FoldLeft(LAMBDA got, name : write_part(got, name, Select(batch, LAMBDA c : c.sheet = name)),
             held, SheetsIn(batch))

WriteBatch ==
    /\ pc = "spill"
    /\ at <= Len(book.cells)
    /\ \E batch \in {SubSeq(book.cells, at,
                            IF at + BatchSize - 1 < Len(book.cells)
                            THEN at + BatchSize - 1 ELSE Len(book.cells))} :
          /\ spill' = write_batch(spill, batch)
          /\ at' = at + Len(batch)
    /\ UNCHANGED <<book, pc, order, share, layout, buckets, rel, prep, stream, disk, history>>

\* The scan ends; the sheets are laid out in first-seen order.
EndScan ==
    /\ pc = "spill" /\ at > Len(book.cells)
    /\ pc' = "share" /\ at' = 1
    /\ UNCHANGED <<book, inputs, prep, stream, disk, history>>

(***************************************************************************)
(* Axes of a sheet, timelines of the workbook                              *)
(***************************************************************************)
SheetNamed(name) == Found({s \in Range(book.sheets) : s.name = name},
                          [name |-> name, axes |-> <<>>, blocks |-> <<>>, plan |-> <<>>])
ThisSheet == SheetNamed(spill.names[layout.done + 1])

\* The block that owns an axis: the first that names it.
OwnerRows(blocks, id) ==
    LET mine == Select(blocks, LAMBDA b : id \in Range(b.axis_ids))
    IN  IF mine = <<>> THEN <<>> ELSE FlagRows(mine[1])

ShareAxis ==
    /\ pc = "share" /\ layout.done < Len(spill.names)
    /\ at <= Len(ThisSheet.axes)
    /\ \E axis \in {ThisSheet.axes[at]}, cells \in {spill.parts[ThisSheet.name]} :
       \E print \in {flag_fingerprint(OwnerRows(ThisSheet.blocks, axis.id), axis.periods,
                                      axis.sheet, cells)} :
          share' = share_axis(share, axis, print,
                      First(share.kept, LAMBDA e : derived_axis(axis, e.axis, cells)),
                      First(share.kept, LAMBDA e : Painted(e, axis, print)),
                      First(share.kept, LAMBDA e : Matches(e, axis, print)))
    /\ at' = at + 1
    /\ UNCHANGED <<book, pc, order, spill, layout, buckets, rel, prep, stream, disk, history>>

\* selector_rows over cells of a sheet: all of them, with their labels, in the layout
\* stage; those that were read back in build_context.
SheetSwitches(cells) == selector_rows(cells, Candidates(cells, book.names))

\* The blocks of the sheet; they refer to the axes that were kept.
ShareBlocks ==
    /\ pc = "share" /\ layout.done < Len(spill.names)
    /\ at > Len(ThisSheet.axes)
    /\ \E blocks \in {blocks_for_sheet(ThisSheet, spill.parts[ThisSheet.name],
                                        SheetSwitches(spill.parts[ThisSheet.name]))} :
          layout' = [axes |-> layout.axes \o [k \in DOMAIN share.kept |-> share.kept[k].axis],
                     blocks |-> layout.blocks \o
                         [b \in DOMAIN blocks |->
                            [blocks[b] EXCEPT
                               !.axis_ids = mapped_ids(@, share.alias),
                               !.timeline_ids = mapped_ids(blocks[b].axis_ids, share.alias)]],
                     done |-> layout.done + 1]
    /\ share' = NoShare
    /\ at' = 1
    /\ UNCHANGED <<book, pc, order, spill, buckets, rel, prep, stream, disk, history>>

EndShare ==
    /\ pc = "share" /\ layout.done = Len(spill.names)
    /\ pc' = "link" /\ at' = 1
    /\ UNCHANGED <<book, inputs, prep, stream, disk, history>>

\* The flag rows of every timeline block that uses the axis.
AxisFlagRows(id) ==
    FlattenSeq([b \in DOMAIN layout.blocks |->
        IF layout.blocks[b].kind = "timeline" /\ id \in Range(layout.blocks[b].axis_ids)
        THEN FlagRows(layout.blocks[b]) ELSE <<>>])

\* _timeline_buckets, one axis of the workbook.  The flags are read from the flag
\* rows of the file alone (_read_flag_cells).
LinkAxis ==
    /\ pc = "link" /\ at <= Len(layout.axes)
    /\ \E axis \in {layout.axes[at]} :
       \E periods \in {SeriesPeriods(axis)} :
       \E member \in {[id |-> axis.id, place |-> at,
                       signature |-> workbook_timeline_signature(axis),
                       dates |-> timeline_dates(periods),
                       flags |-> flag_fingerprint(AxisFlagRows(axis.id), periods,
                                                  axis.sheet, book.cells)]} :
          buckets' = IF ~Linkable(axis) THEN buckets
                     ELSE place_member(buckets, member,
                             First(buckets, LAMBDA b : Admits(b, member)))
    /\ at' = at + 1
    /\ UNCHANGED <<book, pc, order, spill, share, layout, rel, prep, stream, disk, history>>

\* timeline_ids of the timeline blocks; then the cells the relations need.
Linked(blocks) ==
    [b \in DOMAIN blocks |->
        [blocks[b] EXCEPT !.timeline_ids = [k \in DOMAIN @ |-> canonical(buckets, @[k])]]]
AxisById(id) == CHOOSE a \in Range(layout.axes) : a.id = id
AxesOf(block) == [k \in DOMAIN block.axis_ids |-> AxisById(block.axis_ids[k])]
RelationCells(blocks) ==
    LET cols(b) == Range(relation_period_cols(blocks[b], AxesOf(blocks[b])))
        targets(name) == {b \in DOMAIN blocks : blocks[b].sheet = name /\ cols(b) # {}}
    IN  FlattenSeq([n \in DOMAIN spill.names |->
            Select(book.cells, LAMBDA c :
                /\ c.sheet = spill.names[n] /\ c.call # ""
                /\ \E b \in targets(c.sheet) : \E r \in Range(blocks[b].rows) : r.row = c.row
                /\ \E b \in targets(c.sheet) : c.col \in cols(b))])

WriteTimelines ==
    /\ pc = "link" /\ at > Len(layout.axes)
    /\ layout' = [layout EXCEPT !.blocks = Linked(layout.blocks)]
    /\ rel' = [NoRel EXCEPT !.queue = RelationCells(layout.blocks)]
    /\ pc' = "relate" /\ at' = 1
    /\ UNCHANGED <<book, order, spill, share, buckets, prep, stream, disk, history>>

(***************************************************************************)
(* Row relations: formula_relations                                        *)
(***************************************************************************)
\* flush: a row's cells are reduced to one pattern per block that has the row.
RowPatterns(bucket) ==
    FlattenSeq([b \in DOMAIN layout.blocks |->
        IF /\ bucket # <<>>
           /\ layout.blocks[b].sheet = bucket[1].sheet
           /\ \E r \in Range(layout.blocks[b].rows) : r.row = bucket[1].row
        THEN <<[key |-> KeyOf(bucket[1].sheet, bucket[1].row, layout.blocks[b].id),
                pattern |-> pattern_for_row(bucket,
                    relation_period_cols(layout.blocks[b], AxesOf(layout.blocks[b])))]>>
        ELSE <<>>])

\* A row starts when the sheet or the row number changes.
RelationCell ==
    /\ pc = "relate" /\ at <= Len(rel.queue)
    /\ \E c \in {rel.queue[at]} :
          rel' = IF /\ rel.bucket # <<>>
                    /\ <<c.sheet, c.row>> # <<rel.bucket[1].sheet, rel.bucket[1].row>>
                 THEN [rel EXCEPT !.patterns = @ \o RowPatterns(rel.bucket), !.bucket = <<c>>]
                 ELSE [rel EXCEPT !.bucket = Append(@, c)]
    /\ at' = at + 1
    /\ UNCHANGED <<book, pc, order, spill, share, layout, buckets, prep, stream, disk, history>>

\* The patterns by key; a row seen again replaces its pattern.
PatternOf(patterns, key) ==
    LET mine == Select(patterns, LAMBDA p : p.key = key)
    IN  IF mine = <<>> THEN NoShape ELSE Last(mine).pattern

RelationsOf(block, patterns) ==
    FlattenSeq([r \in DOMAIN block.rows |->
        RelationOf(layout.blocks, KeyOf(block.sheet, block.rows[r].row, block.id), block.sheet,
                   PatternOf(patterns, KeyOf(block.sheet, block.rows[r].row, block.id)))])

EndRelations ==
    /\ pc = "relate" /\ at > Len(rel.queue)
    /\ \E patterns \in {rel.patterns \o RowPatterns(rel.bucket)} :
          rel' = [rel EXCEPT !.bucket = <<>>, !.patterns = patterns,
                             !.found = FlattenSeq([b \in DOMAIN layout.blocks |->
                                           RelationsOf(layout.blocks[b], patterns)])]
    /\ pc' = "read" /\ at' = 1
    /\ UNCHANGED <<book, order, spill, share, layout, buckets, prep, stream, disk, history>>

(***************************************************************************)
(* build_context before the row loop                                       *)
(***************************************************************************)

ConsumedRows ==
    UNION {{<<b.sheet, r.row>> : r \in Range(b.rows)} : b \in Range(layout.blocks)}

ReadCells ==
    /\ pc = "read"
    /\ prep' = [switches |-> [name \in Range(spill.names) |->
                                SheetSwitches(switch_table(book.cells, name, book.names))],
                header |-> load_rows(book.cells, axis_cell_rows(layout.axes, layout.blocks)),
                axes |-> <<>>,
                pairs |-> row_adjacency(Select(book.cells, LAMBDA c : c.call # ""),
                                        ConsumedRows)]
    /\ pc' = "axes"
    /\ UNCHANGED <<book, at, inputs, stream, disk, history>>

\* An axis is published when a block refers to it and it has a series column.
ShownAxes == Select(layout.axes, LAMBDA a :
    /\ \E b \in Range(layout.blocks) : a.id \in Range(b.axis_ids)
    /\ SeriesPeriods(a) # <<>>)

\* The published axes from the cells that were loaded.
PublishedAxes(cells) ==
    [n \in DOMAIN ShownAxes |->
        annotate_axis(ShownAxes[n], timeline_of(layout.blocks, ShownAxes[n].id),
                      AxisFlagRows(ShownAxes[n].id),
                      flag_keys(AxisFlagRows(ShownAxes[n].id)),
                      SeriesPeriods(ShownAxes[n]), cells)]

BuildAxes ==
    /\ pc = "axes"
    /\ prep' = [prep EXCEPT !.axes = PublishedAxes(prep.header)]
    /\ pc' = "open"
    /\ UNCHANGED <<book, at, inputs, stream, disk, history>>

(***************************************************************************)
(* The row loop                                                            *)
(***************************************************************************)
\* The sidecar is opened for writing: what an earlier build left in it is gone.
open_body_Append(body) == [there |-> TRUE, lines |-> body.lines]
open_body(body) == [there |-> TRUE, lines |-> <<>>]

Open ==
    /\ pc = "open"
    /\ disk' = [disk EXCEPT !.body = open_body(@), !.tmp = @ \cup {builds + 1}]
    /\ builds' = builds + 1
    /\ out' = <<>> /\ na' = {} /\ lines' = <<>> /\ unit' = NoUnit /\ built' = Nothing
    /\ pc' = "block" /\ at' = 1
    /\ UNCHANGED <<book, inputs, prep, docs, answer, faults, killed>>

Block == layout.blocks[at]
KnownAxes == {layout.axes[a].id : a \in DOMAIN layout.axes}

\* _block_views: the headers of each axis of a block.  A period has no role.
Views_Totals(block) ==
    IF block.kind = "params"
    THEN <<[axis_id |-> block.id,
            headers |-> Select(block.headers, LAMBDA h : h.role \in ValueRoles)]>>
    ELSE [k \in DOMAIN block.axis_ids |->
            [axis_id |-> block.axis_ids[k],
             headers |-> [p \in DOMAIN AxisById(block.axis_ids[k]).periods |->
                 [col |-> AxisById(block.axis_ids[k]).periods[p].col,
                  key |-> AxisById(block.axis_ids[k]).periods[p].key,
                  role |-> ""]]]]
Views(block) ==
    IF block.kind = "params"
    THEN <<[axis_id |-> block.id,
            headers |-> Select(block.headers, LAMBDA h : h.role \in ValueRoles)]>>
    ELSE [k \in DOMAIN block.axis_ids |->
            [axis_id |-> block.axis_ids[k],
             headers |-> [p \in DOMAIN SeriesPeriods(AxisById(block.axis_ids[k])) |->
                 [col |-> SeriesPeriods(AxisById(block.axis_ids[k]))[p].col,
                  key |-> SeriesPeriods(AxisById(block.axis_ids[k]))[p].key,
                  role |-> ""]]]]

Published(id, axes) == CHOOSE a \in Range(axes) : a.id = id

PeriodsOf(block, views) ==
    IF block.kind = "params" THEN views[1].headers
    ELSE IF Len(views) # 1 THEN <<>>
    ELSE local_periods(views[1].headers,
                       Published(Published(block.axis_ids[1], prep.axes).timeline, prep.axes).periods)

HeaderRows(block) == {block.header_row} \cup {a.header_row : a \in Range(AxesOf(block))}

\* The skeleton of a block; a block without rows has its intro and nothing else.
StartBlock ==
    /\ pc = "block" /\ at <= Len(layout.blocks)
    /\ \E views \in {Views(Block)} :
          out' = Append(out, [id |-> Block.id, sheet |-> Block.sheet, kind |-> Block.kind,
                              axis_ids |-> IF Block.kind = "params" THEN <<>> ELSE Block.axis_ids,
                              periods |-> PeriodsOf(Block, views), views |-> views,
                              relations |-> relations_for_block(rel.found, Block.id),
                              rows |-> <<>>])
    /\ IF Len(Block.rows) = 0
       THEN /\ disk' = [disk EXCEPT !.body.lines = Append(@, Intro(Block.id, 0))]
            /\ at' = at + 1
            /\ UNCHANGED <<pc, unit, lines>>
       ELSE /\ unit' = [text |-> header_unit(Block, HeaderRows(Block), prep.header), body |-> FALSE]
            /\ lines' = [t \in DOMAIN markdown_tables(Last(out').axis_ids, KnownAxes) |-> <<>>]
            /\ disk' = [disk EXCEPT !.axis = @ + Len(lines')]
            /\ pc' = "rows"
            /\ UNCHANGED at
    /\ UNCHANGED <<book, inputs, prep, na, built, history>>

RowAt == Block.rows[Len(Last(out).rows) + 1]
LabelOf(rows, n) == LET hits == {r \in Range(rows) : r.row = n}
                    IN  IF hits = {} THEN "" ELSE (CHOOSE r \in hits : TRUE).label

HeaderCells(headers, row) ==
    [h \in DOMAIN headers |-> cell_at(book.cells, Block.sheet, row, headers[h].col)]

\* One row: its caption, hints, cells and series.  shown is the unit text it was
\* given, roled are its cells with a role.
BuildRow(row, roled, shown, cells) ==
    LET fmts == Select(FlattenSeq([v \in DOMAIN cells |->
                    [h \in DOMAIN cells[v] |-> cells[v][h].fmt]]), LAMBDA f : f # "")
        hints == resolved_hints(row.label, shown, unit_from_cell(roled), fmts)
    IN  [key |-> KeyOf(Block.sheet, row.row, Block.id),
         path |-> label_path(row, LabelOf(Block.rows, row.parent)),
         cells |-> roled, shown |-> shown, unit |-> hints.unit, scale |-> hints.scale,
         neighbors |-> formula_neighbors(prep.pairs, Block.sheet, row.row),
         series |-> [v \in DOMAIN cells |->
             series_of(Last(out).views[v].axis_id, Last(out).views[v].headers, cells[v],
                       row.row \in prep.switches[Block.sheet], row.kind, FactorOf[hints.scale])]]

NotApplicable(block, row) ==
    UNION {{<<block.sheet, row.key[2], block.views[v].headers[h].col>> :
               h \in {g \in DOMAIN row.series[v].statuses :
                         row.series[v].statuses[g] = "not_applicable"}} :
           v \in DOMAIN row.series}

WriteRow ==
    /\ pc = "rows" /\ Len(Last(out).rows) < Len(Block.rows)
    /\ \E row \in {RowAt} :
       \E roled \in {role_cells(row.cells, Block.sheet, row.row, book.cells)},
          now \in {next_unit(unit, row, header_unit(Block, HeaderRows(Block), prep.header))},
          cells \in {[v \in DOMAIN Last(out).views |->
                        HeaderCells(Last(out).views[v].headers, row.row)]} :
       \E line \in {BuildRow(row, roled, unit_text(own_unit(roled), row, now), cells)} :
          /\ unit' = now
          /\ out' = [out EXCEPT ![Len(out)].rows = Append(@, line)]
          /\ na' = na \cup NotApplicable(Last(out), line)
          /\ lines' = [t \in DOMAIN lines |-> Append(lines[t],
                          row_line(line, markdown_tables(Last(out).axis_ids, KnownAxes)[t]))]
    /\ UNCHANGED <<book, pc, at, inputs, prep, built, disk, history>>

\* The block's markdown: intro, one table per axis, relations; the row files go.
assemble(block, tables, held) ==
    <<Intro(block.id, Len(block.rows))>>
    \o FlattenSeq([t \in DOMAIN tables |-> <<TableHead(tables[t])>> \o held[t]])
    \o RelationLines(block.relations)

EndBlock ==
    /\ pc = "rows" /\ Len(Last(out).rows) = Len(Block.rows)
    /\ disk' = [disk EXCEPT !.axis = @ - Len(lines),
                            !.body.lines = @ \o assemble(Last(out),
                                markdown_tables(Last(out).axis_ids, KnownAxes), lines)]
    /\ lines' = <<>>
    /\ pc' = "block" /\ at' = at + 1
    /\ UNCHANGED <<book, inputs, prep, unit, out, na, built, history>>

(***************************************************************************)
(* The tail, the swap, the markdown                                        *)
(***************************************************************************)
\* The lines about malformed sheets come first, so the cut cannot drop them.
all_warnings_OrderLast(ordered, rest) == rest \o ordered
all_warnings(ordered, rest) == ordered \o rest

RestOfWarnings(stats) ==
    (IF stats.unparsed > 0 THEN <<<<"unparsed", stats.unparsed>>>> ELSE <<>>)
    \o FlattenSeq([a \in DOMAIN layout.axes |-> layout.axes[a].notes])
    \o period_warnings(book.cells)
    \o (IF stats.missing_values > 0 THEN <<<<"missing", stats.missing_values>>>> ELSE <<>>)
    \o FlattenSeq([s \in DOMAIN book.sheets |-> hidden_warnings(book.sheets[s], book.cells)])
    \o FlattenSeq([b \in DOMAIN layout.blocks |-> unknown_header_warnings(layout.blocks[b])])

OrderLines == [s \in DOMAIN order.warned |-> <<"order", order.warned[s]>>]

Finish ==
    /\ pc = "block" /\ at > Len(layout.blocks)
    /\ \E stats \in {formula_stats(book.cells, na)} :
       \E warnings \in {all_warnings(OrderLines, RestOfWarnings(stats))} :
          built' = [run |-> builds, blocks |-> out, known |-> KnownAxes, axes |-> prep.axes,
                    stats |-> stats,
                    warnings |-> SubSeq(warnings, 1, IF Len(warnings) < WarnMax
                                                     THEN Len(warnings) ELSE WarnMax)]
    /\ disk' = [disk EXCEPT !.rows = row_count(out)]
    /\ pc' = "swap"
    /\ UNCHANGED <<book, at, inputs, prep, unit, out, lines, na, history>>

Swap ==
    /\ pc = "swap"
    /\ disk' = [disk EXCEPT !.json = built, !.tmp = @ \ {builds}]
    /\ docs' = Append(docs, built)
    /\ pc' = "render"
    /\ UNCHANGED <<book, at, inputs, prep, stream, answer, builds, faults, killed>>

\* _publish_streamed_markdown: the header is prepended, the file swapped in.
PublishMarkdown ==
    /\ pc = "render"
    /\ disk' = [disk EXCEPT !.md = [run |-> built.run, count |-> disk.rows,
                                    lines |-> disk.body.lines]]
    /\ pc' = "clean"
    /\ UNCHANGED <<book, at, inputs, prep, stream, history>>

DropSidecars ==
    /\ pc = "clean"
    /\ disk' = [disk EXCEPT !.body = NoBody, !.rows = 0]
    /\ pc' = "done"
    /\ UNCHANGED <<book, at, inputs, prep, stream, history>>

(***************************************************************************)
(* GET observations                                                        *)
(***************************************************************************)
\* A reader asks for all rows or for one.
RowKeys(doc) == UNION {{r.key : r \in Range(b.rows)} : b \in Range(doc.blocks)}

GetObservations ==
    /\ pc = "done"
    /\ \E keys \in {RowKeys(disk.json)} \cup {{key} : key \in RowKeys(disk.json)} :
          answer' = [keys |-> keys,
                     found |-> build_observations(observations(disk.json, keys), ObsLimit)]
    /\ pc' = "served"
    /\ UNCHANGED <<book, at, inputs, prep, stream, disk, docs, builds, faults, killed>>

(***************************************************************************)
(* Failures                                                                *)
(***************************************************************************)
\* The except clauses: the temporary file, the row files and the sidecars go.
cleanup_KeepTemp(files, run) ==
    [files EXCEPT !.body = NoBody, !.rows = 0,
                  !.axis = @ - Len(lines)]
cleanup(files, run) ==
    [files EXCEPT !.tmp = @ \ {run}, !.body = NoBody, !.rows = 0,
                  !.axis = @ - Len(lines)]

\* An exception, while rows are written or while the markdown is: the second
\* leaves the sidecars to the next build.
Raise ==
    /\ pc \in {"block", "rows", "swap", "render"}
    /\ faults < Faults(book)
    /\ disk' = IF pc = "render" THEN disk ELSE cleanup(disk, builds)
    /\ faults' = faults + 1
    /\ pc' = "failed"
    /\ UNCHANGED <<book, at, inputs, prep, stream, docs, answer, builds, killed>>

Kill ==
    /\ pc \in {"block", "rows", "swap", "render", "clean"}
    /\ faults < Faults(book)
    /\ faults' = faults + 1
    /\ killed' = killed \cup {builds}
    /\ pc' = "failed"
    /\ UNCHANGED <<book, at, inputs, prep, stream, disk, docs, answer, builds>>

Rebuild ==
    /\ pc \in {"done", "served", "failed"}
    /\ builds < Builds(book)
    /\ pc' = "read"
    /\ UNCHANGED <<book, at, inputs, prep, stream, disk, history>>

Next ==
    \/ Parse \/ WriteBatch \/ EndScan
    \/ ShareAxis \/ ShareBlocks \/ EndShare
    \/ LinkAxis \/ WriteTimelines
    \/ RelationCell \/ EndRelations
    \/ ReadCells \/ BuildAxes
    \/ Open \/ StartBlock \/ WriteRow \/ EndBlock
    \/ Finish \/ Swap \/ PublishMarkdown \/ DropSidecars
    \/ GetObservations \/ Raise \/ Kill \/ Rebuild

Spec == Init /\ [][Next]_vars

(***************************************************************************)
(* Properties                                                              *)
(***************************************************************************)

\* The length of the list the loop of the current step walks.
LoopLen ==
    CASE pc \in {"parse", "spill"} -> Len(book.cells)
      [] pc = "share" -> IF layout.done < Len(spill.names) THEN Len(ThisSheet.axes) ELSE 0
      [] pc = "link" -> Len(layout.axes)
      [] pc = "relate" -> Len(rel.queue)
      [] OTHER -> Len(layout.blocks)

(* The state is well formed: a position stays within the list its loop     *)
(* walks, an axis is shared or kept but not both (_share_repeated_axes),   *)
(* and every file on the disk is of a build that was started.              *)
TypeOK ==
    /\ at \in 1..(LoopLen + 1)
    /\ Range(order.warned) \subseteq {c.sheet : c \in Range(book.cells)}
    /\ DOMAIN spill.parts = Range(spill.names)
    /\ layout.done \in 0..Len(spill.names)
    /\ {k.axis.id : k \in Range(share.kept)} \cap {k.id : k \in Range(share.alias)} = {}
    /\ {disk.json.run, disk.md.run} \subseteq 0..builds
    /\ disk.tmp \cup killed \subseteq 1..builds
    /\ disk.axis \in Nat
    /\ builds \in 0..Builds(book) /\ faults \in 0..Faults(book) /\ Len(docs) <= builds

(* The spill gives every sheet its cells in file order, and the sheets in  *)
(* the order the file first names them, also when a later batch returns to *)
(* a sheet (_SheetSpill.write_batch, _group_layout_cells).                 *)
SpillKeepsOrder ==
    pc \notin {"parse", "spill"} =>
        /\ spill.names = SheetsIn(book.cells)
        /\ \A name \in Range(spill.names) :
              spill.parts[name] = Select(book.cells, LAMBDA c : c.sheet = name)

PrintOf(axis) == flag_fingerprint(OwnerRows(ThisSheet.blocks, axis.id), axis.periods,
                                axis.sheet, spill.parts[ThisSheet.name])
Derived(axis) == \E k \in Range(share.kept) :
                    derived_axis(axis, k.axis, spill.parts[ThisSheet.name])

SheetShared ==
    pc = "share" /\ layout.done < Len(spill.names) /\ at > Len(ThisSheet.axes)

\* Two headers stand for one axis, and neither is computed from another header:
\* _derived_axis shares those without a look at the flags.
OneAxis(a, b) ==
    Mapped(share.alias, a.id) = Mapped(share.alias, b.id) /\ ~Derived(a) /\ ~Derived(b)

(* "If two sections put different flags on the same period, the axes are   *)
(* not merged" (docs/en/layout.md).  The code does merge them when one of  *)
(* the headers has a marker and another has not: a match by signature      *)
(* fills the flags of one table of _share_repeated_axes, and a header      *)
(* without a marker is looked up in the other.                             *)
SectionsAgree ==
    SheetShared => \A a, b \in Range(ThisSheet.axes) :
        OneAxis(a, b) => flags_compatible(PrintOf(a), PrintOf(b))

(* What is left of that rule: two headers of a sheet that both have        *)
(* markers, or both have none, share an axis only if the flag rows under   *)
(* them do not contradict each other, whatever headers without flags came  *)
(* between them and whichever table they were found through                *)
(* (_share_repeated_axes).                                                 *)
AlikeHeadersAgree ==
    SheetShared => \A a, b \in Range(ThisSheet.axes) :
        OneAxis(a, b) /\ (has_explicit_marker(a) <=> has_explicit_marker(b))
        => flags_compatible(PrintOf(a), PrintOf(b))

(* All axes linked to one published timeline agree on the dates and on the *)
(* flags they have, not only each with the one that opened the bucket      *)
(* (_timeline_buckets).                                                    *)
LinkedAgree ==
    pc = "relate" =>
        \A b \in Range(buckets) : \A m, n \in Range(b.members) :
            /\ m.signature = n.signature
            /\ dates_compatible(m.dates, n.dates)
            /\ flags_compatible(m.flags, n.flags)

(* Alike headers of one sheet that share an axis (_share_repeated_axes),   *)
(* and linked axes of the workbook (_timeline_buckets), do not contradict  *)
(* each other.  Headers of one sheet that are not alike may: SectionsAgree. *)
AlikeAxesAgree == AlikeHeadersAgree /\ LinkedAgree

WholeRow(key, cols) ==
    pattern_for_row(Select(rel.queue, LAMBDA c : c.sheet = key[1] /\ c.row = key[2]), cols)

(* A relation whose pattern was reduced from a part of the row's formulas, *)
(* because the sheet stores the row in pieces, is published with a warning *)
(* that names the sheet: the parser saw the disorder and the document's    *)
(* cut does not drop the line (_CellOrder, formula_relations, warnings     *)
(* [:50] of build_context).                                                *)
FragmentWarned ==
    pc = "done" =>
        \A b \in Range(layout.blocks) : \A r \in Range(b.rows) :
            PatternOf(rel.patterns, KeyOf(b.sheet, r.row, b.id))
                # WholeRow(<<b.sheet, r.row>>, relation_period_cols(b, AxesOf(b)))
            => <<"order", b.sheet>> \in Range(disk.json.warnings)

Expanded == {c \in Range(book.cells) : c.call # "" /\ ~IsNode(c)}

(* The neighbours of a published row are all the rows its formulas read    *)
(* and all the rows, published or not, whose formulas read it; only the    *)
(* large ranges are left to the list of ranges (row_adjacency with rows).  *)
NeighborsComplete ==
    pc = "axes" =>
        \A s \in ConsumedRows :
            {p[2] : p \in {q \in prep.pairs : q[1] = s}} =
                ((UNION {Targets(c) : c \in {d \in Expanded : <<d.sheet, d.row>> = s}})
                 \cup {<<c.sheet, c.row>> : c \in {d \in Expanded : s \in Targets(d)}})
                \ {s}

(* "When two such cells exist, a label such as Scenario Chosen keeps its   *)
(* row" (docs/en/layout.md), and the part of the file that is read back    *)
(* "does not change which rows selector_rows returns" (_switch_rows).  It  *)
(* does: the labels that break a tie are not read back, so that a row that *)
(* lost the tie in the layout is still treated as a selector in the        *)
(* document, where only the cells of its value columns count.              *)
SwitchesSame ==
    pc = "axes" => \A name \in Range(spill.names) :
                       prep.switches[name] = SheetSwitches(spill.parts[name])

(* What is left of that claim: in the part of the file that is read back   *)
(* the candidates are those of the whole sheet and no selector row of the  *)
(* sheet is missed; a row that lost the tie may be called a selector too   *)
(* (_switch_rows).                                                         *)
NoSwitchMissed ==
    pc = "axes" =>
        \A name \in Range(spill.names) :
            LET part == switch_table(book.cells, name, book.names)
            IN  /\ Candidates(part, book.names) = Candidates(spill.parts[name], book.names)
                /\ SheetSwitches(spill.parts[name]) \subseteq prep.switches[name]

(* The header rows and the flag rows are enough: the axes and the header   *)
(* captions read from them are those of the whole file (_axis_cell_rows).  *)
HeaderRowsSuffice ==
    pc = "open" =>
        /\ prep.axes = PublishedAxes(book.cells)
        /\ \A b \in Range(layout.blocks) :
              header_unit(b, HeaderRows(b), prep.header) = header_unit(b, HeaderRows(b), book.cells)

(* The parts of the file that are spilled, filtered or read back give the  *)
(* cells of each sheet (_SheetSpill), the row neighbours (row_adjacency)   *)
(* and the headers (_axis_cell_rows) that the whole file gives, and miss   *)
(* no selector row of it; they may call more rows selectors: SwitchesSame. *)
ReadBackSuffices ==
    SpillKeepsOrder /\ NeighborsComplete /\ NoSwitchMissed /\ HeaderRowsSuffice

(* Every flag row of an axis keeps a key of its own, however its label     *)
(* repeats: no flag of a period hides another (_flag_keys).                *)
FlagKeysDistinct ==
    pc = "open" =>
        \A a \in Range(layout.axes) : IsInjective(flag_keys(AxisFlagRows(a.id)))

ReadColumn(doc, block, key) ==
    LastCol(IF block.periods # <<>> THEN block.periods
            ELSE Published(Published(block.axis_ids[1], doc.axes).timeline, doc.axes).periods,
            key)

(* A reader finds the columns of a block with one axis: in its own list of *)
(* periods, or else under the period keys of the timeline its axis is      *)
(* linked to, although that one may be laid out elsewhere on another sheet *)
(* (_local_periods).                                                       *)
ColumnsFound ==
    pc = "done" => \A block \in Range(disk.json.blocks) :
        Len(block.axis_ids) = 1 =>
            \A p \in Range(SeriesPeriods(AxisById(block.axis_ids[1]))) :
                ReadColumn(disk.json, block, p.key) = p.col

\* The first text between the label and the periods that names a unit.
OwnUnit(block, row) ==
    LET cols == UNION {{p.col : p \in Range(a.periods)} : a \in Range(AxesOf(block))}
        units == {c \in Range(book.cells) :
                     /\ c.sheet = block.sheet /\ c.row = row /\ c.value \in DOMAIN MeasureOf
                     /\ c.col > block.label_col /\ \A col \in cols : c.col < col}
    IN  IF units = {} THEN ""
        ELSE (CHOOSE c \in units : \A d \in units : c.col <= d.col).value

(* The unit text of a timeline row is its own unit, else the nearest       *)
(* caption above it in the block with no section between, else the caption *)
(* beside the header; a caption row has none of them (_rows of             *)
(* _stream_one_block).                                                     *)
UnitScope ==
    pc = "swap" => \A b \in {n \in DOMAIN out : out[n].kind = "timeline"} :
                   \A r \in DOMAIN out[b].rows :
        LET rows == layout.blocks[b].rows
            own == OwnUnit(layout.blocks[b], rows[r].row)
            live == {c \in 1..(r - 1) :
                        /\ rows[c].label \in Captions
                        /\ \A d \in (c + 1)..r : rows[d].kind # "abstract"
                                                 \/ rows[d].label \in Captions}
        IN  out[b].rows[r].shown =
                IF own # "" THEN own
                ELSE IF rows[r].label \in Captions THEN ""
                ELSE IF live # {} THEN rows[CHOOSE c \in live : \A d \in live : d <= c].label
                ELSE header_unit(layout.blocks[b], HeaderRows(layout.blocks[b]), book.cells)

Formulas == {k \in DOMAIN book.cells : book.cells[k].call # ""}
DocNotApplicable(doc) ==
    UNION {UNION {NotApplicable(b, r) : r \in Range(b.rows)} : b \in Range(doc.blocks)}

(* The formula totals of a document fit its rows: a formula without a      *)
(* cached value is reported as missing unless the row that was written     *)
(* says its column does not apply (_finish, _formula_stats).               *)
StatsFitRows ==
    pc = "done" =>
        disk.json.stats =
            [formulas |-> Cardinality(Formulas),
             missing |-> Cardinality({k \in Formulas : book.cells[k].missing}),
             unparsed |-> Cardinality({k \in Formulas : book.cells[k].unparsed}),
             missing_values |-> Cardinality({k \in Formulas :
                 /\ book.cells[k].missing
                 /\ <<book.cells[k].sheet, book.cells[k].row, book.cells[k].col>>
                        \notin DocNotApplicable(disk.json)})]

(* The spans of a hidden-rows warning are the hidden rows that hold        *)
(* something, all of them and no other (_span_list).                       *)
HiddenExact ==
    pc = "done" =>
        \A w \in Range(disk.json.warnings) : w[1] = "rows" =>
            UNION {span[1]..span[2] : span \in Range(w[3])} =
                SheetNamed(w[2]).hidden_rows \cap
                    {c.row : c \in {d \in Range(book.cells) : d.sheet = w[2] /\ has_content(d)}}

(* What the document says of its own gaps is so: the order warnings, the   *)
(* hidden rows and the formula totals (build_context's _finish).           *)
ReportTrue == FragmentWarned /\ StatsFitRows /\ HiddenExact

(* context.md is always the rendering of a document that was published,    *)
(* and of the one in context.json once a build ends, although its lines    *)
(* were streamed beside the rows and an earlier build may have left its    *)
(* sidecar (MarkdownBody, AxisRows, render_markdown).                      *)
MarkdownSame ==
    /\ disk.md # Nothing =>
          \E d \in Range(docs) : d.run = disk.md.run /\ disk.md = render_markdown(d)
    /\ pc = "done" => disk.md.run = disk.json.run

AtSource(o) ==
    o.value = IF o.status = "not_applicable" THEN ""
              ELSE cell_at(book.cells, o.key[1], o.key[2], o.col).value
FullRow(key) ==
    \E b \in Range(disk.json.blocks) :
        /\ b.id = key[3] /\ b.kind = "params"
        /\ \E r \in Range(b.rows) :
              /\ r.key = key
              /\ {c.col : c \in Range(ValueCells(r))} = {h.col : h \in Range(b.periods)}

(* Every observation of a timeline row shows the value of the cell it      *)
(* cites, though the values travel without their columns and are joined    *)
(* again by position with the periods of the published axis; so does every *)
(* observation of a params row that has a cell in each value column of its *)
(* block (_timeline_row, _params_row).                                     *)
ObservedValues ==
    pc = "served" => \A n \in DOMAIN answer.found.observations :
        (\/ answer.found.observations[n].axis # ""
         \/ FullRow(answer.found.observations[n].key))
        => AtSource(answer.found.observations[n])

(* Who reads values through keys and positions, a reader of context.json   *)
(* (_local_periods) or GET observations (_timeline_row, _params_row), ends *)
(* at the cell the value came from.                                        *)
ReadersFind == ColumnsFound /\ ObservedValues

(* Every observation shows the cached value of the cell it cites           *)
(* (docs/en/architecture.md: one observation is the label, the cached      *)
(* value as a string and a derived cell citation).  A params row with a    *)
(* blank first value column breaks it (_params_row; run observed).         *)
ObservedAtSource ==
    pc = "served" => \A n \in DOMAIN answer.found.observations :
        AtSource(answer.found.observations[n])

(* The value columns of a params block have different keys, so that the    *)
(* observations of one row stay apart (_separate_value_keys).              *)
ValueKeysApart ==
    pc = "done" => \A b \in Range(disk.json.blocks) : b.kind = "params" =>
        \A h, g \in Range(Select(b.periods, LAMBDA p : p.role = "value")) :
            h.key = g.key => h = g

(* No two flags of an axis and no two value columns of a block share a key *)
(* (_flag_keys, _separate_value_keys).                                     *)
KeysDistinct == FlagKeysDistinct /\ ValueKeysApart

(* context.json is a whole document, the last one published, whatever      *)
(* build failed since; and only a killed build leaves a temporary file     *)
(* (_write_streamed_context).                                              *)
WholeDocument ==
    /\ disk.json = IF docs = <<>> THEN Nothing ELSE Last(docs)
    /\ \A d \in Range(docs) :
          /\ Len(d.blocks) = Len(layout.blocks)
          /\ \A b \in DOMAIN d.blocks : Len(d.blocks[b].rows) = Len(layout.blocks[b].rows)
    /\ pc \in {"done", "failed"} =>
          /\ disk.tmp \subseteq killed
          /\ killed = {} => disk.axis = 0
=============================================================================
