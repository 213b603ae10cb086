------------------------------ MODULE Timelines ------------------------------
(***************************************************************************)
(* Which axes of a workbook are the same timeline                          *)
(* (layout/timelines.py, layout/resolve.py).  On one sheet a later section *)
(* header that repeats an axis becomes an alias of the first one           *)
(* (_share_repeated_axes); over the workbook, axes with the same sequence  *)
(* of period keys are linked to one published timeline                     *)
(* (link_workbook_timelines).  In both places a flag row that contradicts  *)
(* the other axis keeps the two apart.                                     *)
(*                                                                         *)
(* The loops are given one iteration at a time, so that the machine that   *)
(* uses them (Context) keeps the tables of the loop in its own state.      *)
(*   axis   [id, sheet, grain, header_row, periods, notes]                 *)
(*   period [col, key, kind, variant, group, dates]; dates is "" for none  *)
(*   block  [id, sheet, kind, axis_ids, timeline_ids, rows, label_col,     *)
(*           header_row, headers]                                          *)
(*   row    [row, kind, label, parent, cells]; cells are [col, role]       *)
(* A cell value is a text; texts are compared and never taken apart.       *)
(***************************************************************************)
EXTENDS Integers, Sequences, FiniteSets, SequencesExt

CONSTANTS
    ShareMin      \* the least number of periods of a linked axis (3)

ASSUME ShareMinAssumption == ShareMin \in Nat \ {0}

\* The items of a sequence at the positions K, in order, and those that pass a
\* test: SelectSeq, with a definition the prover can open.
Picked(s, K) ==
    LET pick[n \in 0..Len(s)] ==
            IF n = 0 THEN <<>>
            ELSE IF n \in K THEN Append(pick[n - 1], s[n]) ELSE pick[n - 1]
    IN  pick[Len(s)]
Select(s, Test(_)) == Picked(s, {k \in DOMAIN s : Test(s[k])})

ShareGrains == {"model_year", "year"}

\* A value column of a timeline, not a total or a stub.
is_series_column(period) == period.kind = "period"

(* Cell access.  by_addr holds one cell per address: the last one in file  *)
(* order wins, as in every dict the code builds from the cells.            *)
NoCell == [sheet |-> "", row |-> 0, col |-> 0, call |-> "", args |-> <<>>,
           tpl |-> "", value |-> "", missing |-> TRUE, fmt |-> "",
           unparsed |-> FALSE]

cell_at(cells, sheet, row, col) ==
    LET hits == {k \in DOMAIN cells :
                    /\ cells[k].sheet = sheet
                    /\ cells[k].row = row
                    /\ cells[k].col = col}
    IN  IF hits = {} THEN NoCell ELSE cells[CHOOSE k \in hits : \A l \in hits : l <= k]

\* A flag cell is on when it shows 1.
flag_bit(cell) == cell.value = "1"

FlagRows(block) == Select(block.rows, LAMBDA r : r.kind = "flag")

(***************************************************************************)
(* One sheet: _share_repeated_axes                                         *)
(***************************************************************************)
\* The flags a block's rows put on the periods of an axis.
flag_fingerprint(rows, periods, sheet, cells) ==
    [k \in DOMAIN rows |->
        [label |-> rows[k].label,
         bits |-> [p \in DOMAIN periods |->
                     flag_bit(cell_at(cells, sheet, rows[k].row, periods[p].col))]]]

flags_compatible(left, right) == left = <<>> \/ right = <<>> \/ left = right

axis_signature(axis) ==
    <<axis.grain, [p \in DOMAIN axis.periods |->
        <<axis.periods[p].col, axis.periods[p].key, axis.periods[p].kind,
          axis.periods[p].variant, axis.periods[p].group>>]>>

column_signature(axis) ==
    <<axis.grain, [p \in DOMAIN axis.periods |->
        <<axis.periods[p].col, axis.periods[p].key>>]>>

has_explicit_marker(axis) == \E p \in DOMAIN axis.periods : axis.periods[p].variant # ""

\* The header cells of axis compute from the ruler of other (`=YEAR(M7)`).
derived_axis(axis, other, cells) ==
    LET common == {p \in DOMAIN axis.periods : \E q \in DOMAIN other.periods :
                      other.periods[q].col = axis.periods[p].col}
        computed == {p \in common : \E a \in Range(cell_at(cells, axis.sheet,
                         axis.header_row, axis.periods[p].col).args) :
                         /\ a.row = other.header_row
                         /\ a.col = axis.periods[p].col}
    IN  /\ axis.header_row > other.header_row
        /\ Cardinality(common) >= 2
        /\ 10 * Cardinality(common) >= 8 * Len(axis.periods)
        /\ \A p \in common : \E q \in DOMAIN other.periods :
              /\ other.periods[q].col = axis.periods[p].col
              /\ other.periods[q].key = axis.periods[p].key
        /\ 10 * Cardinality(computed) >= 8 * Cardinality(common)

\* The tables of the loop.  An entry of kept is [axis, print, cols]: the axis,
\* its fingerprint in `buckets` and the copy of it in `by_columns`.
NoShare == [kept |-> <<>>, alias |-> <<>>]

\* _remember_flags fills an empty fingerprint, in both tables.
remember_flags(entry, print) ==
    [entry EXCEPT !.print = IF @ = <<>> THEN print ELSE @,
                  !.cols = IF @ = <<>> THEN print ELSE @]

\* The match by signature fills the fingerprint of its own table alone.
fill_match(entry, print) ==
    [entry EXCEPT !.print = IF @ = <<>> THEN print ELSE @]

Painted(entry, axis, print) ==
    /\ ~has_explicit_marker(axis)
    /\ has_explicit_marker(entry.axis)
    /\ column_signature(entry.axis) = column_signature(axis)
    /\ flags_compatible(entry.cols, print)

Matches(entry, axis, print) ==
    /\ axis_signature(entry.axis) = axis_signature(axis)
    /\ flags_compatible(entry.print, print)

First(kept, Holds(_)) ==
    LET hits == {k \in DOMAIN kept : Holds(kept[k])}
    IN  IF hits = {} THEN 0 ELSE CHOOSE k \in hits : \A l \in hits : k <= l

AliasOf(axis, entry) == <<[id |-> axis.id, of |-> entry.axis.id]>>

\* One axis of the sheet: an alias of a derived, painted or matching axis that
\* was kept, or kept itself.  d, p and m are the positions found, 0 for none.
share_axis_Kept(share, axis, print, d, p, m) ==
    [kept |-> Append(share.kept, [axis |-> axis, print |-> print, cols |-> print]),
     alias |-> IF m > 0 THEN share.alias \o AliasOf(axis, share.kept[m]) ELSE share.alias]
share_axis(share, axis, print, d, p, m) ==
    IF d > 0
    THEN [share EXCEPT !.alias = @ \o AliasOf(axis, share.kept[d])]
    ELSE IF p > 0
    THEN [kept |-> [share.kept EXCEPT ![p] = remember_flags(@, print)],
          alias |-> share.alias \o AliasOf(axis, share.kept[p])]
    ELSE IF m > 0
    THEN [kept |-> [share.kept EXCEPT ![m] = fill_match(@, print)],
          alias |-> share.alias \o AliasOf(axis, share.kept[m])]
    ELSE [share EXCEPT !.kept = Append(@, [axis |-> axis, print |-> print, cols |-> print])]

Mapped(alias, id) ==
    IF \E k \in DOMAIN alias : alias[k].id = id
    THEN alias[CHOOSE k \in DOMAIN alias : alias[k].id = id].of
    ELSE id

\* axis_ids after sharing: mapped, each id once.
mapped_ids(ids, alias) ==
    FoldLeft(LAMBDA seen, id : IF Mapped(alias, id) \in Range(seen) THEN seen
                               ELSE Append(seen, Mapped(alias, id)),
             <<>>, ids)

(***************************************************************************)
(* The workbook: link_workbook_timelines                                   *)
(***************************************************************************)
SeriesPeriods(axis) == Select(axis.periods, is_series_column)

workbook_timeline_signature(axis) ==
    <<axis.grain, [p \in DOMAIN SeriesPeriods(axis) |->
        <<SeriesPeriods(axis)[p].key, SeriesPeriods(axis)[p].kind,
          SeriesPeriods(axis)[p].variant, SeriesPeriods(axis)[p].group>>]>>

Linkable(axis) == axis.grain \in ShareGrains /\ Len(SeriesPeriods(axis)) >= ShareMin

\* None when no period has a date.
timeline_dates(periods) ==
    IF \E p \in DOMAIN periods : periods[p].dates # ""
    THEN [p \in DOMAIN periods |-> periods[p].dates]
    ELSE <<>>

dates_compatible(left, right) == left = <<>> \/ right = <<>> \/ left = right

\* _timeline_rank, largest first: dates, then flag rows, then the first sheet and axis.
Outranks(one, other) ==
    LET dated(m) == IF m.dates = <<>> THEN 0 ELSE 1
    IN  \/ dated(one) > dated(other)
        \/ dated(one) = dated(other) /\ Len(one.flags) > Len(other.flags)
        \/ /\ dated(one) = dated(other)
           /\ Len(one.flags) = Len(other.flags)
           /\ one.place <= other.place

\* A bucket that takes a member fills the dates and the flags it does not know yet.
fill_bucket_DatesOnly(bucket, member) ==
    [bucket EXCEPT !.members = Append(@, member),
                   !.dates = IF @ = <<>> THEN member.dates ELSE @]
fill_bucket(bucket, member) ==
    [bucket EXCEPT !.members = Append(@, member),
                   !.dates = IF @ = <<>> THEN member.dates ELSE @,
                   !.flags = IF @ = <<>> THEN member.flags ELSE @]

\* One member of _timeline_buckets; k is the first bucket that admits it, 0 for none.
place_member(buckets, member, k) ==
    IF k = 0
    THEN Append(buckets, [signature |-> member.signature, dates |-> member.dates,
                          flags |-> member.flags, members |-> <<member>>])
    ELSE [buckets EXCEPT ![k] = fill_bucket(@, member)]

Admits(bucket, member) ==
    /\ bucket.signature = member.signature
    /\ dates_compatible(bucket.dates, member.dates)
    /\ flags_compatible(bucket.flags, member.flags)

\* The published timeline of an axis: the best member of its bucket.
canonical(buckets, id) ==
    LET mine == {k \in DOMAIN buckets : \E m \in Range(buckets[k].members) : m.id = id}
    IN  IF mine = {} THEN id
        ELSE LET all == Range(buckets[CHOOSE k \in mine : TRUE].members)
             IN  (CHOOSE m \in all : \A n \in all : Outranks(m, n)).id
=============================================================================
