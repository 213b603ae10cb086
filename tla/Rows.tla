-------------------------------- MODULE Rows --------------------------------
(***************************************************************************)
(* What a sheet row is: header, counter, data or label (layout/rows.py,    *)
(* layout/detect.py).                                                      *)
(*                                                                         *)
(* A row is a record: cells, one per column, and the label's indent and    *)
(* outline level.  A cell is a record: text (a token sequence of module    *)
(* Periods, empty for a blank cell), f (the formula behind it: "none",     *)
(* "sum" for the SUM of the row's period columns, "other"), hid, and, once *)
(* read, hit (classify_header) and atom (the atom the cell has by itself). *)
(* What the regular expressions of rows.py find in a label is the label's  *)
(* word: "article", "check", "units", "total", "flag", "start", "end",     *)
(* "index".                                                                *)
(***************************************************************************)
EXTENDS Periods

Cell(text) == [text |-> text, f |-> "none", hid |-> FALSE, hit |-> {}, atom |-> {}]
Row(cells) == [cells |-> cells, indent |-> 0, level |-> 0]

Texts(row) == {c \in DOMAIN row.cells : row.cells[c].text # <<>>}
TextAt(row, c) == row.cells[c].text
HitAt(row, c) == row.cells[c].hit

\* The period a cell names, kept with the cell as the matcher's cache keeps it.
ReadCell(cell) ==
  [cell EXCEPT !.hit = classify_header(cell.text), !.atom = own_atom(cell.text)]
classify_atom(cell, allowQuarter, allowMonth) ==
  IF cell.atom # {} THEN cell.atom ELSE label_atom(cell.text, allowQuarter, allowMonth)

\* parse_int and parse_number of a cell's text: a bare year is a number too.
is_number(text) == Len(text) = 1 /\ text[1].t \in {"year", "num"} /\ text[1].sfx = <<>>
parse_int(text) == IF text[1].t = "year" THEN text[1].y ELSE text[1].n
Numbers(row) == {c \in Texts(row) : is_number(TextAt(row, c))}

LabelHas(text, words) == \E i \in DOMAIN text : text[i].t \in words
LabelNames(text, grains) == \E i \in DOMAIN text : text[i].t = "word" /\ text[i].g \in grains
is_quarter_label(text) == LabelNames(text, {"Q"})
is_month_label(text) == LabelNames(text, {"M"})
is_start_period_label(text) == LabelHas(text, {"start"})
is_end_period_label(text) == LabelHas(text, {"end"})
is_relative_label(text) ==
  text # <<>> /\ text[1].t = "word" /\ text[1].g \in {"Y", "Q", "M", "P"}
is_unit_text(text) == LabelHas(text, {"units"})

-----------------------------------------------------------------------------
\* The first visible text of a row that is neither a number nor a period.
row_label(row) ==
  LET at == {c \in Texts(row) : /\ ~row.cells[c].hid
                                /\ ~is_number(TextAt(row, c))
                                /\ row.cells[c].atom = {}}
  IN IF at = {} THEN <<>> ELSE TextAt(row, Min(at))

is_empty_row(row) == Texts(row) = {}

is_bare_year_text(text) == is_number(text) /\ text[1].t = "year"

RowHidden(row) == \A c \in Texts(row) : row.cells[c].hid
\* Bare years on the row, hidden columns left out; another number empties it.
bare_year_values(row) ==
  LET seen == {c \in Texts(row) : ~row.cells[c].hid \/ RowHidden(row)}
      cols == SetToSortSeq({c \in seen : is_bare_year_text(TextAt(row, c))}, <)
  IN IF \E c \in seen : is_number(TextAt(row, c)) /\ ~is_bare_year_text(TextAt(row, c))
       THEN <<>>
       ELSE [i \in DOMAIN cols |-> [col |-> cols[i], y |-> TextAt(row, cols[i])[1].y]]

\* Non-decreasing years; a positive step, when there is one, stays constant.
year_run_is_header(run) ==
  LET steps == {run[i + 1].y - run[i].y : i \in 1..(Len(run) - 1)} IN
    /\ Len(run) >= 2
    /\ \A s \in steps : s >= 0
    /\ Cardinality(steps \ {0}) <= 1
bare_years_are_header(row) == year_run_is_header(bare_year_values(row))

\* The year over each column, when the row is a year banner; else no column.
year_banner_by_column(row) ==
  LET run == bare_year_values(row) IN
    IF ~year_run_is_header(run) THEN <<>>
    ELSE [c \in {run[i].col : i \in DOMAIN run} |-> TextAt(row, c)[1].y]

word_residual(hit) == hit.variant # <<>> /\ hit.variant # Mark

year_layer(row) ==
  LET hits == [c \in Texts(row) |-> HitAt(row, c)]
      years == {c \in DOMAIN hits : /\ \E h \in hits[c] : h.key.g = "year"
                                    /\ ~is_bare_year_text(TextAt(row, c))}
      words == {c \in years : \E h \in hits[c] : word_residual(h)}
  IN \/ years \ words # {}
     \/ Cardinality(words) >= 2
     \/ bare_years_are_header(row)

row_layers(row) ==
  LET label == row_label(row)
      atoms == [c \in Texts(row) |-> classify_atom(row.cells[c],
                                       is_quarter_label(label), is_month_label(label))]
      With(P(_)) == Cardinality({c \in Texts(row) : \E a \in atoms[c] : P(a)})
  IN {l \in {"bounds", "date", "year", "quarter", "half", "month"} :
        CASE l = "bounds" -> is_start_period_label(label) \/ is_end_period_label(label)
          [] l = "date" -> With(LAMBDA a : a.d # 0) >= 1
          [] l = "year" -> year_layer(row)
          [] l = "quarter" -> With(LAMBDA a : a.q # 0) >= 2
          [] l = "half" -> With(LAMBDA a : a.h # 0) >= 2
          [] l = "month" -> With(LAMBDA a : a.m # 0 /\ a.d = 0) >= 2}

is_starter_row(row) ==
  LET calendar == {c \in Texts(row) : HitAt(row, c) # {}} IN
    /\ Cardinality(calendar) >= 2
    /\ \/ \E c \in calendar : ~is_bare_year_text(TextAt(row, c))
       \/ bare_years_are_header(row)

\* The integers of a row from left to right, years left out.
Counts(row) ==
  LET cols == SetToSortSeq({c \in Numbers(row) : HitAt(row, c) = {}}, <) IN
    [i \in DOMAIN cols |-> parse_int(TextAt(row, cols[i]))]
is_counter_row(row) ==
  /\ row_label(row) = <<>> \/ LabelHas(row_label(row), {"index"})
  /\ Len(Counts(row)) >= 2
  /\ Counts(row) = [i \in 1..Len(Counts(row)) |-> i]

is_data_row(row) ==
  LET plain == {c \in Texts(row) : HitAt(row, c) = {}} IN
    /\ ~is_starter_row(row) /\ row_layers(row) = {} /\ ~is_counter_row(row)
    /\ plain \cap Numbers(row) # {}
    /\ plain \ Numbers(row) # {}

\* A period in the label column is not a row name; a word beside a date is.
is_column_header_text(row, c) ==
  \E h \in HitAt(row, c) : ~word_residual(h)

\* A text banner in the period columns, with no date and no values.
is_banner_gap(row, cols) ==
  /\ cols # {} /\ row_layers(row) = {} /\ ~is_data_row(row)
  /\ \A c \in DOMAIN row.cells : row.cells[c].f = "none"
  /\ Numbers(row) = {}
  /\ Texts(row) \cap cols # {}
  /\ \A c \in Texts(row) \cap cols : ~is_column_header_text(row, c)

is_label_only_row(row, cols) ==
  /\ \A c \in DOMAIN row.cells : row.cells[c].f = "none"
  /\ Texts(row) \cap (cols \cup Numbers(row)) = {}
  /\ \E c \in Texts(row) : c < Min(cols)

-----------------------------------------------------------------------------
(* The label columns of a block and the label of a row.                    *)

Names(row, reveal) ==
  {c \in Texts(row) : /\ reveal \/ ~row.cells[c].hid
                      /\ ~is_number(TextAt(row, c))
                      /\ ~is_column_header_text(row, c)}

\* The columns left of the axis where the rows' first texts stand, up to the one
\* most rows use.
label_span(rows, body, header, cols) ==
  LET first == [r \in body \ header |-> {c \in Names(rows[r], FALSE) : c < Min(cols)}]
      used == {Min(first[r]) : r \in {x \in DOMAIN first : first[x] # {}}}
      Uses(c) == Cardinality({r \in DOMAIN first : first[r] # {} /\ Min(first[r]) = c})
      primary == CHOOSE c \in used :
                   \A d \in used : Uses(d) < Uses(c) \/ (Uses(d) = Uses(c) /\ c <= d)
      visible == UNION {{c \in DOMAIN rows[r].cells :
                           TextAt(rows[r], c) # <<>> /\ ~rows[r].cells[c].hid} : r \in body}
  IN IF used = {} THEN {IF visible = {} THEN 1 ELSE Min(visible)}
     ELSE {c \in used : c <= primary}

\* The label's column: in the span, or else the first text left of the axis.
label_at(row, span, cols, reveal) ==
  LET spanned == Names(row, reveal) \cap span
      left == {c \in Names(row, reveal) : c < Min(cols)}
  IN IF spanned # {} THEN Min(spanned) ELSE IF left # {} THEN Min(left) ELSE 0

\* The position of the label in the span, and its own indent.
label_indent(row, span, col) ==
  row.indent + (IF col \in span THEN Cardinality({c \in span : c < col}) ELSE 0)

\* A sequence 0, 1, 2.. or 1, 2.. in the period columns.
is_index_values(row, cols) ==
  LET at == SetToSortSeq(Numbers(row) \cap cols, <)
      nums == [i \in DOMAIN at |-> parse_int(TextAt(row, at[i]))]
  IN /\ Len(nums) >= 2
     /\ nums[1] \in {0, 1}
     /\ nums = [i \in 1..Len(nums) |-> nums[1] + i - 1]
     /\ \/ LabelHas(row_label(row), {"index"})
        \/ \A c \in cols \cap DOMAIN row.cells : row.cells[c].f = "none"

row_kind(row, cols, label) ==
  LET inside == cols \cap DOMAIN row.cells
      formula == \E c \in inside : row.cells[c].f # "none"
      values == {parse_int(TextAt(row, c)) : c \in Numbers(row) \cap cols}
      text == (Texts(row) \cap cols) \ Numbers(row) # {}
      binary == values \subseteq {0, 1}
      flagLabel == LabelHas(label, {"flag"})
  IN IF LabelHas(label, {"check", "spare"}) THEN "helper"
     ELSE IF is_index_values(row, cols) THEN "index"
     ELSE IF ~formula /\ values = {} THEN IF flagLabel /\ text THEN "flag" ELSE "abstract"
     ELSE IF flagLabel /\ binary THEN "flag"
     ELSE IF binary /\ values = {0, 1} THEN "flag"
     ELSE "fact"

\* A number between the label and the ruler is a point fact.
has_scalar_value(row, span, cols) ==
  \E c \in Numbers(row) : c > Max(span) /\ c < Min(cols) /\ row.cells[c].f # "sum"

\* A formula beside the label that shows no period, or a dash in place of a value:
\* a list item with no values.
is_blank_data_row(row, labelCol, cols) ==
  \E c \in DOMAIN row.cells \ {labelCol} :
    \/ row.cells[c].f # "none" /\ row.cells[c].atom = {}
    \/ c \in cols /\ LabelHas(TextAt(row, c), {"dash"})

=============================================================================
