-------------------------------- MODULE Axes --------------------------------
(***************************************************************************)
(* Time axes of a sheet (layout/axes.py, layout/totals.py).                *)
(*                                                                         *)
(* A header is a composed column: col, key and variant.  A period of an    *)
(* axis adds the tag that sets a repeated key apart ("2024@plan"), the     *)
(* year banner over it (group, 0 for none) and its kind.  An axis has the  *)
(* rows of its band, its grain and its periods from left to right.         *)
(***************************************************************************)
EXTENDS Rows

-----------------------------------------------------------------------------
(* Header bands.                                                           *)

\* The columns of a band whose cells name a period.
band_calendar_cols(rows, band) ==
  {c \in DOMAIN rows[1].cells :
     \E r \in band : rows[r].cells[c].atom # {}}

\* A 0/1 row under the dates is a timing flag, not another header line.
is_flag_bits_row(row, cols) ==
  /\ \A c \in Texts(row) \cap cols : /\ is_number(TextAt(row, c))
                                     /\ parse_int(TextAt(row, c)) \in {0, 1}
  /\ Cardinality(Texts(row) \cap cols) >= 2

\* A layer the band already has starts the next band, unless it names bounds.
Repeats(row, layers, new) ==
  /\ layers \cap new \cap {"year", "date"} # {}
  /\ is_starter_row(row)
  /\ "bounds" \notin layers \cup new

\* Row j looked at by an open band w: skipped, the row that ends it, or one of it.
TakeRow(w, j, row, new, cols) ==
  IF is_empty_row(row) \/ is_counter_row(row) THEN w
  ELSE IF \/ is_data_row(row) \/ is_flag_bits_row(row, cols)
          \/ new = {} \/ Repeats(row, w.layers, new)
    THEN [w EXCEPT !.end = j]
  ELSE [w EXCEPT !.band = @ \cup {j}, !.layers = @ \cup new]

\* The band that starts at a row, and the row that ends it.
BandFrom(rows, start) ==
  LET Step(w, j) ==
        IF w.end <= Len(rows) THEN w
        ELSE TakeRow(w, j, rows[j], row_layers(rows[j]), band_calendar_cols(rows, w.band))
  IN FoldLeft(Step,
              [band |-> {start}, layers |-> row_layers(rows[start]), end |-> Len(rows) + 1],
              [i \in 1..(Len(rows) - start) |-> start + i])

\* Mutant: the row that ends a band is taken into it.
AddBand_Inclusive(s, b) == [bands |-> Append(s.bands, b.band \cup {b.end}), next |-> b.end]

AddBand(s, b) == [bands |-> Append(s.bands, b.band), next |-> b.end]

header_bands(rows) ==
  FoldLeft(LAMBDA s, i : IF i < s.next \/ ~is_starter_row(rows[i]) THEN s
                         ELSE AddBand(s, BandFrom(rows, i)),
           [bands |-> <<>>, next |-> 1], [i \in DOMAIN rows |-> i]).bands

-----------------------------------------------------------------------------
(* The columns of a band.                                                  *)

band_prefers_end(rows, band) ==
  /\ \E r \in band : is_start_period_label(row_label(rows[r]))
  /\ \E r \in band : is_end_period_label(row_label(rows[r]))

\* Atoms of a column from the top row of the band down.
column_atoms(rows, band, col) ==
  LET used == {r \in band : ~(/\ band_prefers_end(rows, band)
                              /\ is_start_period_label(row_label(rows[r])))}
      quarter == \E r \in band : is_quarter_label(row_label(rows[r]))
      month == \E r \in band : is_month_label(row_label(rows[r]))
      Atoms(r) == classify_atom(rows[r].cells[col], quarter, month)
      found == SetToSortSeq({r \in used : Atoms(r) # {}}, <)
  IN [i \in DOMAIN found |-> CHOOSE a \in Atoms(found[i]) : TRUE]

\* A column with no start cell is skipped in a band with start and end rows.
HasStart(rows, band, col) ==
  band_prefers_end(rows, band) =>
    \E r \in band : /\ is_start_period_label(row_label(rows[r]))
                    /\ TextAt(rows[r], col) # <<>>

-----------------------------------------------------------------------------
(* Runs of columns.                                                        *)

\* A column is hidden when a visible row still has a hidden cell in it.
inferred_hidden_columns(rows) ==
  {c \in DOMAIN rows[1].cells :
     \E r \in DOMAIN rows : ~RowHidden(rows[r]) /\ TextAt(rows[r], c) # <<>> /\ rows[r].cells[c].hid}

\* Adjacent columns, or a gap filled only by hidden columns.
cols_connected(left, right, hidden) ==
  right > left /\ \A c \in (left + 1)..(right - 1) : c \in hidden

\* The next period of the same grain.
period_continues(a, b) ==
  LET p == period_position(a)
      q == period_position(b)
  IN \/ {a.g, b.g} = {"year", "half"} /\ b.y = a.y + 1
     \/ /\ a.g = b.g /\ p.grain = q.grain
        /\ q.at - p.at \in IF a.g = "day" THEN {1, 7, 14} ELSE {1}

header_key_class(k) ==
  CASE k.g = "year" -> "year"
    [] k.g \in {"month", "day"} -> "date"
    [] k.g = "ord" -> "relative"
    [] OTHER -> "other"

RunContinues(run) ==
  \A i \in 1..(Len(run) - 1) : period_continues(run[i].key, run[i + 1].key)

split_header_runs(headers, hidden) ==
  LET Breaks(run, item) ==
        LET prev == Last(run)
            gapped == item.col - prev.col > 1
            hiddenOnly == \A i \in DOMAIN run : run[i].col \in hidden
            continues == /\ period_continues(prev.key, item.key)
                         /\ hiddenOnly => RunContinues(run)
            gap == /\ gapped
                   /\ \/ ~cols_connected(prev.col, item.col, hidden)
                      \/ hiddenOnly /\ ~continues
            classes == {header_key_class(prev.key), header_key_class(item.key)}
        IN gap \/ (Cardinality(classes) = 2 /\ "other" \notin classes)
      Add(runs, item) ==
        IF runs = <<>> \/ Breaks(Last(runs), item)
          THEN runs \o <<<<item>>>>
          ELSE Front(runs) \o <<Last(runs) \o <<item>>>>
  IN SelectSeq(FoldLeft(Add, <<>>, headers), LAMBDA run : Len(run) >= 2)

\* Mutant: the grain is applied although it merges columns.
grained_Always(run) ==
  LET grain == infer_grain([i \in DOMAIN run |-> run[i].key]) IN
    [i \in DOMAIN run |-> [run[i] EXCEPT !.key = apply_grain(@, grain)]]

\* The grain is applied to a run only where it keeps the columns apart.
grained(run) ==
  LET grain == infer_grain([i \in DOMAIN run |-> run[i].key])
      keys == [i \in DOMAIN run |-> apply_grain(run[i].key, grain)]
  IN IF grain \in {"week", "biweek"} \/ Cardinality(Range(keys)) < Len(keys)
       THEN run
       ELSE [i \in DOMAIN run |-> [run[i] EXCEPT !.key = keys[i]]]

\* A year banner over a finer header is that period's group, not a second key.
banner_group(key, year) ==
  IF key.g \notin {"ord", "total"} /\ key.y = year /\ key.g # "year" THEN year ELSE 0

\* A repeated key is tagged with its column's marker when the markers differ.
disambiguate_period_keys(ps) ==
  LET Same(i) == {j \in DOMAIN ps : ps[j].key = ps[i].key}
      Markers(i) == {ps[j].variant : j \in Same(i)}
  IN [i \in DOMAIN ps |->
        IF Cardinality(Same(i)) > 1 /\ Cardinality(Markers(i)) > 1
          THEN [ps[i] EXCEPT !.tag = ps[i].variant] ELSE ps[i]]

-----------------------------------------------------------------------------
(* Total columns.                                                          *)

TotalKey == [g |-> "total", y |-> 0, n |-> 0, d |-> 0]

\* The body of a band ends where the next band starts.
next_band_row(bands, last, n) ==
  LET later == {Min(bands[i]) : i \in DOMAIN bands} \cap (last + 1)..n IN
    IF later = {} THEN n + 1 ELSE Min(later)

\* The sum of the numbers in the period columns, when there are two of them.
period_sum(row, cols) ==
  IF Cardinality(Numbers(row) \cap cols) < 2 THEN {}
  ELSE {FoldFunction(+, 0, [c \in Numbers(row) \cap cols |-> parse_int(TextAt(row, c))])}

AtLeastShare(part, whole) == 10 * Cardinality(part) >= 6 * Cardinality(whole)

\* A total column is the sum of the period columns; the word is only a hint.
confirms(rows, body, col, cols, hinted) ==
  LET formulas == {r \in body : rows[r].cells[col].f # "none"}
      sums == {r \in body : rows[r].cells[col].f = "sum"}
      compared == {r \in body \ sums : is_number(TextAt(rows[r], col))
                                       /\ period_sum(rows[r], cols) # {}}
      agree == {r \in compared : parse_int(TextAt(rows[r], col)) \in period_sum(rows[r], cols)}
  IN \/ formulas # {} /\ AtLeastShare(sums, formulas)
     \/ hinted /\ sums \cup agree # {}
     \/ Cardinality(compared) >= 2 /\ AtLeastShare(agree, compared)

apply_total_columns(ps, rows, band, body) ==
  LET cols == {ps[i].col : i \in DOMAIN ps}
      Hinted(c) == \E r \in band : LabelHas(TextAt(rows[r], c), {"total"})
      near == ((Min(cols) - 2)..(Max(cols) + 2)) \cup {c \in DOMAIN rows[1].cells : Hinted(c)}
      added == {c \in (near \cap DOMAIN rows[1].cells) \ cols :
                  /\ Hinted(c) \/ (c > Min(cols) /\ \E r \in body : rows[r].cells[c].f = "sum")
                  /\ confirms(rows, body, c, cols, Hinted(c))}
      Total(c) == [col |-> c, key |-> TotalKey, tag |-> <<>>, variant |-> <<>>,
                   group |-> 0, kind |-> "total", hidden |-> FALSE]
  IN SortSeq(ps \o SetToSeq({Total(c) : c \in added}), LAMBDA a, b : a.col < b.col)

-----------------------------------------------------------------------------
(* Axes of one band, and the ordinal axes.                                 *)

axis_cols(axis) == {axis.periods[i].col : i \in DOMAIN axis.periods}
period_count(axis) ==
  Cardinality({i \in DOMAIN axis.periods : axis.periods[i].kind # "total"})

PeriodOf(h, group, hidden) ==
  [col |-> h.col, key |-> h.key, tag |-> <<>>, variant |-> h.variant,
   group |-> group, kind |-> "period", hidden |-> h.col \in hidden]

\* The year over a column: the first row of the band that is a year banner there.
BannerYear(rows, band, col) ==
  LET over == {r \in band : col \in DOMAIN year_banner_by_column(rows[r])} IN
    IF over = {} THEN 0 ELSE year_banner_by_column(rows[Min(over)])[col]

axes_from_band(rows, bands, band, headers, hidden) ==
  LET runs == split_header_runs(headers, hidden)
      body == (Max(band) + 1)..(next_band_row(bands, Max(band), Len(rows)) - 1)
      Drafted(run) == LET hs == grained(run) IN
        [i \in DOMAIN hs |->
           PeriodOf(hs[i], banner_group(hs[i].key, BannerYear(rows, band, hs[i].col)), hidden)]
      AxisOf(run) ==
        [band |-> band,
         grain |-> infer_grain([i \in DOMAIN run |-> run[i].key]),
         periods |-> disambiguate_period_keys(
                       apply_total_columns(Drafted(run), rows, band, body))]
  IN [i \in DOMAIN runs |-> AxisOf(runs[i])]

RelativeMin == 3             \* _UNLABELED_RELATIVE_MIN is 8, with a formula timeline

\* The longest run of consecutive integers, the first of them; it starts at 0 or 1.
\* The numbers of the model are integers: the reset at a fraction has no case here.
relative_run(row, hidden) ==
  LET cols == SetToSortSeq({c \in Numbers(row) : HitAt(row, c) = {}}, <)
      Value(i) == parse_int(TextAt(row, cols[i]))
      Joined(i) == /\ Value(i) = Value(i - 1) + 1
                   /\ cols_connected(cols[i - 1], cols[i], hidden)
      runs == {r \in (DOMAIN cols) \X (DOMAIN cols) :
                 r[1] <= r[2] /\ \A i \in (r[1] + 1)..r[2] : Joined(i)}
      best == CHOOSE r \in runs :
                \A s \in runs : \/ s[2] - s[1] < r[2] - r[1]
                                \/ s[2] - s[1] = r[2] - r[1] /\ r[1] <= s[1]
      label == row_label(row)
  IN IF \/ ~is_relative_label(label) \/ LabelHas(label, {"flag"}) \/ runs = {} THEN <<>>
     ELSE IF best[2] - best[1] + 1 < RelativeMin \/ Value(best[1]) \notin {0, 1} THEN <<>>
     ELSE [i \in 1..(best[2] - best[1] + 1) |->
             [col |-> cols[best[1] + i - 1], key |-> OrdKey(label[1].g, Value(best[1] + i - 1)),
              variant |-> <<>>]]

axis_from_relative(r, run, hidden) ==
  [band |-> {r},
   grain |-> infer_grain([i \in DOMAIN run |-> run[i].key]),
   periods |-> [i \in DOMAIN run |-> PeriodOf(run[i], 0, hidden)]]

-----------------------------------------------------------------------------
(* Which axes stay.                                                        *)

same_timeline(a, b) ==
  /\ a # {} /\ b # {}
  /\ \/ a = b
     \/ /\ Min(a) - Min(b) \in -1..1
        /\ Max(a) - Max(b) \in -1..1
     \/ 10 * Cardinality(a \cap b) >= 8 * Cardinality(a \cup b)

SeriesKeys(axis) ==
  LET s == SelectSeq(axis.periods, LAMBDA p : p.kind # "total") IN [i \in DOMAIN s |-> s[i].key]
repeated_year_axis(axis) ==
  LET keys == SeriesKeys(axis) IN
    /\ Len(keys) >= 2 /\ Cardinality(Range(keys)) < Len(keys)
    /\ \A i \in DOMAIN axis.periods :
         axis.periods[i].kind # "total" => axis.periods[i].key.g = "year" /\ axis.periods[i].tag = <<>>

TotalYear == -1      \* the banner's own total column, whose key is the word
\* The banner's year over a period, and the year its own key says; 0 for none.
YearOver(banner, p) ==
  LET at == {i \in DOMAIN banner.periods : banner.periods[i].col = p.col} IN
    IF at = {} THEN 0
    ELSE IF banner.periods[Max(at)].kind = "total" THEN TotalYear
    ELSE banner.periods[Max(at)].key.y
OwnYear(p) == IF is_calendar_key(p.key) THEN p.key.y ELSE 0

Contradicts(banner, p) ==
  YearOver(banner, p) # 0 /\ OwnYear(p) # 0 /\ OwnYear(p) # YearOver(banner, p)
\* Mutant: the period's own year is not compared.
Applies_Any(banner, p) == YearOver(banner, p) # 0 /\ p.group = 0

Applies(banner, p) ==
  YearOver(banner, p) # 0 /\ ~Contradicts(banner, p) /\ p.group = 0

WithBanner(axis, banner) ==
  LET Under(p) == IF Applies(banner, p) THEN [p EXCEPT !.group = YearOver(banner, p)] ELSE p IN
    [axis EXCEPT !.periods = [i \in DOMAIN axis.periods |-> Under(axis.periods[i])]]

\* A banner is used up by an axis that took a year from it, or that it contradicts
\* wherever the two can be compared.
Consumes(axis, banner) ==
  LET ps == Range(axis.periods)
      compared == {p \in ps : YearOver(banner, p) # 0 /\ OwnYear(p) # 0}
  IN /\ same_timeline(axis_cols(axis), axis_cols(banner))
     /\ \/ \E p \in ps : Applies(banner, p)
        \/ compared # {} /\ \A p \in compared : Contradicts(banner, p)

InSheetOrder(a, b) ==
  \/ Min(a.band) < Min(b.band)
  \/ Min(a.band) = Min(b.band) /\ Min(axis_cols(a)) < Min(axis_cols(b))

\* A repeated year row over a finer axis is that axis's group, not a timeline.
\* Without such a row the candidates keep the order they were found in.
fold_year_banners(axes) ==
  LET banners == SelectSeq(axes, repeated_year_axis)
      kept == SelectSeq(axes, LAMBDA a : ~repeated_year_axis(a))
      Over(axis, n) == FoldLeft(LAMBDA a, b : IF same_timeline(axis_cols(a), axis_cols(b))
                                               THEN WithBanner(a, b) ELSE a,
                                axis, SubSeq(banners, 1, n))
      left == {i \in DOMAIN banners :
                 \A j \in DOMAIN kept : ~Consumes(Over(kept[j], i - 1), banners[i])}
  IN IF banners = <<>> THEN axes
     ELSE SortSeq([j \in DOMAIN kept |-> Over(kept[j], Len(banners))]
                    \o [i \in 1..Cardinality(left) |-> banners[SetToSortSeq(left, <)[i]]],
                  InSheetOrder)

comparable_width(a, b) ==
  a > 0 /\ b > 0 /\ 4 * (IF a < b THEN a ELSE b) >= 3 * (IF a < b THEN b ELSE a)

\* Axes beside the widest one stay when they are tables of their own.
keep_dominant(axes) ==
  LET widest == {i \in DOMAIN axes : \A j \in DOMAIN axes :
                   period_count(axes[j]) <= period_count(axes[i])}
      primary == axes[Min(widest)]
      pcols == axis_cols(primary)
      Keeps(a) ==
        LET cols == axis_cols(a)
            width == period_count(a)
        IN \/ a = primary
           \/ Max(cols) < Min(pcols) /\ width >= 3
           \/ /\ Max(cols) >= Min(pcols)
              /\ \/ same_timeline(cols, pcols)
                 \/ Max(a.band) # Max(primary.band) /\ width >= 3
                 \/ cols \cap pcols = {} /\ (width >= 3 \/ comparable_width(width, period_count(primary)))
  IN IF axes = <<>> THEN <<>> ELSE SortSeq(SelectSeq(axes, Keeps), InSheetOrder)

=============================================================================
