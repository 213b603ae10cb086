------------------------------ MODULE Periods ------------------------------
(***************************************************************************)
(* Reading a column header as a period (layout/periods.py).                *)
(*                                                                         *)
(* A header is a sequence of tokens, the words of the cell's text; a token *)
(* says what the regular expressions of the code can tell of the word.     *)
(* A period key is a record, grain g with the year and the number inside   *)
(* the year, instead of the text "2025Q1"; a key of an ordinal axis (Y3)   *)
(* has grain "ord" and the letter in field d.  An optional result is a set *)
(* of at most one element.                                                 *)
(*                                                                         *)
(* The operators have no state; module Layout applies them.                *)
(***************************************************************************)
EXTENDS Integers, Sequences, FiniteSets, Folds, FiniteSetsExt, SequencesExt

Digits == {"year", "part", "partyear", "num", "date", "number"}
Mark == <<"E">>

Year(y) == [t |-> "year", g |-> "-", y |-> y, n |-> 0, d |-> 0, sfx |-> <<>>]
YearE(y) == [Year(y) EXCEPT !.sfx = Mark]
Part(g, n) == [Year(0) EXCEPT !.t = "part", !.g = g, !.n = n]
Word(g) == [Year(0) EXCEPT !.t = "word", !.g = g]
Num(n) == [Year(0) EXCEPT !.t = "num", !.n = n]
Roman(n) == [Year(0) EXCEPT !.t = "roman", !.n = n]
Month(n) == [Year(0) EXCEPT !.t = "month", !.n = n]
Date(y, m, d) == [Year(y) EXCEPT !.t = "date", !.n = m, !.d = d]
Plain(t) == [Year(0) EXCEPT !.t = t]    \* "fy", "mark", "blocked" and label words
CalendarWord(t) == t.t = "word" /\ t.g \in {"Q", "H", "Y"}

YearKey(y) == [g |-> "year", y |-> y, n |-> 0, d |-> 0]
PartKey(g, y, n) ==
  [g |-> IF g = "Q" THEN "quarter" ELSE "half", y |-> y, n |-> n, d |-> 0]
MonthKey(y, m) == [g |-> "month", y |-> y, n |-> m, d |-> 0]
DayKey(y, m, d) == [g |-> "day", y |-> y, n |-> m, d |-> d]
OrdKey(letter, n) == [g |-> "ord", y |-> 0, n |-> n, d |-> letter]

\* A key of the calendar: a year, half, quarter, month or day.
is_calendar_key(k) == k.g \in {"year", "half", "quarter", "month", "day"}

-----------------------------------------------------------------------------
(* Dates.                                                                  *)

Leap(y) == y % 4 = 0 /\ (y % 100 # 0 \/ y % 400 = 0)
DaysIn(y, m) ==
  CASE m \in {4, 6, 9, 11} -> 30
    [] m = 2 -> IF Leap(y) THEN 29 ELSE 28
    [] OTHER -> 31
DaysBefore == <<0, 31, 59, 90, 120, 151, 181, 212, 243, 273, 304, 334>>

\* date(y, m, d).toordinal().
ToOrdinal(y, m, d) ==
  LET p == y - 1 IN
    365 * p + p \div 4 - p \div 100 + p \div 400 + DaysBefore[m]
      + (IF m > 2 /\ Leap(y) THEN 1 ELSE 0) + d

\* The first month of the period a key names.
FirstMonth(k) ==
  CASE k.g = "half" -> IF k.n = 1 THEN 1 ELSE 7
    [] k.g \in {"month", "day"} -> k.n
    [] k.g = "quarter" -> (k.n - 1) * 3 + 1
    [] OTHER -> 1
FirstDay(k) == IF k.g = "day" THEN k.d ELSE 1

\* The key as a date: the first day of its period, months counted from year 0.
key_as_date(k) == ToOrdinal(k.y, FirstMonth(k), FirstDay(k))
MonthIndex(k) == k.y * 12 + FirstMonth(k)

\* Grain and absolute index of a key: two grains share no index.
calendar_position(k) ==
  [grain |-> k.g,
   at |-> CASE k.g = "year" -> k.y
            [] k.g = "half" -> k.y * 2 + k.n
            [] k.g = "quarter" -> k.y * 4 + k.n
            [] k.g = "month" -> k.y * 12 + k.n
            [] k.g = "day" -> ToOrdinal(k.y, k.n, k.d)]
ordinal_position(k) == [grain |-> k.d, at |-> k.n]
period_position(k) ==
  IF k.g = "ord" THEN ordinal_position(k) ELSE calendar_position(k)

-----------------------------------------------------------------------------
(* Normalising a header.  Two digits with only a space between them are    *)
(* one number, unless the left one ends a short date; a lone suffix letter *)
(* after a year is glued to it.                                            *)

EndsInDigit(t) == t.t \in {"year", "part", "partyear", "num", "number"} /\ t.sfx = <<>>
StartsWithDigit(t) == t.t \in {"year", "num", "date"}
YearsIn(t) ==
  CASE t.t \in {"year", "partyear", "date"} -> 1
    [] t.t = "number" -> t.n
    [] OTHER -> 0

JoinDigits(a, b) ==
  IF a.t = "part" /\ b.t = "year"
    THEN [a EXCEPT !.t = "partyear", !.y = b.y, !.sfx = b.sfx]
    ELSE [Plain("number") EXCEPT !.n = YearsIn(a) + YearsIn(b)]

normalize_header(h) ==
  LET Add(s, t) ==
        IF s = <<>> THEN <<t>>
        ELSE IF EndsInDigit(Last(s)) /\ StartsWithDigit(t)
          THEN Front(s) \o <<JoinDigits(Last(s), t)>>
        ELSE IF t.t = "mark" /\ Last(s).t \in {"year", "partyear", "date"} /\ Last(s).sfx = <<>>
          THEN Front(s) \o <<[Last(s) EXCEPT !.sfx = Mark]>>
        ELSE s \o <<t>>
  IN FoldLeft(Add, <<>>, h)

-----------------------------------------------------------------------------
(* One string that is exactly one date, quarter, half or year.             *)

Hit(key, variant) == [key |-> key, variant |-> variant]
IsWord(t, g) == t.t = "word" /\ t.g = g
Top(g) == IF g = "Q" THEN 4 ELSE 2

ymd_hit(t) ==
  IF t.d \in 1..DaysIn(t.y, t.n) THEN {Hit(DayKey(t.y, t.n, t.d), t.sfx)} ELSE {}

\* "I quarter", "quarter I", "1 half".
WordPart(a, b) ==
  {[g |-> w.g, n |-> m.n] : <<w, m>> \in
     {p \in {<<a, b>>, <<b, a>>} :
        /\ p[1].t = "word" /\ p[1].g \in {"Q", "H"}
        /\ p[2].t \in {"num", "roman"} /\ p[2].n \in 1..Top(p[1].g)}}

\* The optional year at the end of a quarter or half: a year, a year and its word.
PartYear(s) ==
  IF s = <<>> THEN {[y |-> 0, sfx |-> <<>>]}
  ELSE IF /\ s[1].t = "year"
          /\ Len(s) = 1 \/ (Len(s) = 2 /\ IsWord(s[2], "Y") /\ s[1].sfx = <<>>)
    THEN {[y |-> s[1].y, sfx |-> s[1].sfx]}
  ELSE {}

\* Quarter or half: its grain and number, its year or 0, a marker suffix.
part_of_year(w) ==
  LET bodies ==
        UNION {{[g |-> w[1].g, n |-> w[1].n, rest |-> Tail(w)] :
                  x \in {1} \cap (IF w[1].t = "part" THEN {1} ELSE {})},
               IF Len(w) > 1
                 THEN {[g |-> b.g, n |-> b.n, rest |-> SubSeq(w, 3, Len(w))] :
                         b \in WordPart(w[1], w[2])}
                 ELSE {}}
      yearFirst == Len(w) = 2 /\ w[1].t = "year" /\ w[1].sfx = <<>> /\ w[2].t = "part"
      code == w[1].t = "partyear"
              /\ (Len(w) = 1 \/ (Len(w) = 2 /\ IsWord(w[2], "Y") /\ w[1].sfx = <<>>))
  IN IF w = <<>> THEN {}
     ELSE IF yearFirst THEN {[g |-> w[2].g, n |-> w[2].n, y |-> w[1].y, sfx |-> <<>>]}
     ELSE IF code THEN {[g |-> w[1].g, n |-> w[1].n, y |-> w[1].y, sfx |-> w[1].sfx]}
     ELSE UNION {{[g |-> b.g, n |-> b.n, y |-> p.y, sfx |-> p.sfx] : p \in PartYear(b.rest)} :
                   b \in bodies}

month_hit(w) ==
  IF Len(w) = 2 /\ w[1].t = "month" /\ w[2].t = "year"
    THEN {Hit(MonthKey(w[2].y, w[1].n), w[2].sfx)} ELSE {}

\* "2025", "2025E", "FY 2025", "2025 year".
year_hit(w) ==
  LET v == IF w[1].t = "fy" THEN Tail(w) ELSE w IN
    IF /\ v # <<>> /\ v[1].t = "year"
       /\ Len(v) = 1 \/ (Len(v) = 2 /\ IsWord(v[2], "Y") /\ v[1].sfx = <<>>)
      THEN {Hit(YearKey(v[1].y), v[1].sfx)} ELSE {}

match_calendar(w) ==
  IF w = <<>> THEN {}
  ELSE IF Len(w) = 1 /\ w[1].t = "date" THEN ymd_hit(w[1])
  ELSE IF month_hit(w) # {} THEN month_hit(w)
  ELSE LET part == {p \in part_of_year(w) : p.y # 0} IN
       IF part # {} THEN {Hit(PartKey(p.g, p.y, p.n), p.sfx) : p \in part}
       ELSE year_hit(w)

-----------------------------------------------------------------------------
(* A date with a short residual around it.                                 *)

HasDigit(t) == t.t \in Digits
can_sit_in_calendar(t) ==
  HasDigit(t) \/ CalendarWord(t) \/ t.t \in {"month", "fy", "roman"}

MaxResidual == 3      \* words of a residual; its 24 characters are not counted
LongHeader == 4       \* a header of more words is over 40 characters
WordsOf(s) == [i \in DOMAIN s |-> s[i].t]

\* A short leftover: no digit, no word that collides with a calendar word.
residual_ok(s, variant) ==
  /\ Len(s) + Len(variant) <= MaxResidual
  /\ \A i \in DOMAIN s : ~HasDigit(s[i]) /\ ~CalendarWord(s[i]) /\ s[i].t # "blocked"

with_residual(hit, residual) ==
  IF residual # <<>> /\ ~residual_ok(residual, hit.variant) THEN {}
  ELSE {Hit(hit.key, hit.variant \o WordsOf(residual))}

\* Too many words that cannot sit in a date: refused before any matching.
prose_blocks_calendar(h) ==
  Cardinality({i \in DOMAIN h : ~can_sit_in_calendar(h[i])}) > MaxResidual

Outside(h, s, e) == SubSeq(h, 1, s - 1) \o SubSeq(h, e, Len(h))

\* The spans one_calendar finds from token i on.  A window stays inside a run of
\* usable tokens and keeps the rightmost digit of the run.
calendar_spans(h) ==
  LET n == Len(h)
      RunEnd(i) == Min({j \in i..(n + 1) : j = n + 1 \/ ~can_sit_in_calendar(h[j])})
      from[i \in 1..(n + 1)] ==
        IF i = n + 1 THEN <<>>
        ELSE IF ~can_sit_in_calendar(h[i]) THEN from[i + 1]
        ELSE LET digits == {j \in i..(RunEnd(i) - 1) : HasDigit(h[j])}
                 ends == {e \in (Max(digits) + 1)..RunEnd(i) :
                            match_calendar(SubSeq(h, i, e - 1)) # {}}
             IN IF digits = {} THEN from[RunEnd(i)]
                ELSE IF ends = {} THEN from[i + 1]
                ELSE <<[s |-> i, e |-> Max(ends)]>> \o from[Max(ends)]
  IN from[1]

SpanHit(h, span) == CHOOSE x \in match_calendar(SubSeq(h, span.s, span.e - 1)) : TRUE

one_calendar(h) ==
  IF (\A i \in DOMAIN h : can_sit_in_calendar(h[i])) /\ match_calendar(h) # {}
    THEN match_calendar(h)
    ELSE LET spans == calendar_spans(h) IN
         IF Len(spans) # 1 THEN {}
         ELSE with_residual(SpanHit(h, spans[1]), Outside(h, spans[1].s, spans[1].e))

\* Every window from every token, the longest first, as many_dates scans.
all_spans(h) ==
  LET n == Len(h)
      from[i \in 1..(n + 1)] ==
        IF i = n + 1 THEN <<>>
        ELSE LET ends == {e \in (i + 1)..(n + 1) : match_calendar(SubSeq(h, i, e - 1)) # {}}
             IN IF ends = {} THEN from[i + 1]
                ELSE <<[s |-> i, e |-> Max(ends)]>> \o from[Max(ends)]
  IN from[1]

\* A comparison header: more than one date, so it is not a period key.
many_dates(h) ==
  /\ match_calendar(h) = {}
  /\ \/ Cardinality({i \in DOMAIN h : h[i].t = "date" /\ ymd_hit(h[i]) # {}}) > 1
     \/ Len(all_spans(h)) > 1
     \/ FoldLeft(LAMBDA s, t : s + YearsIn(t), 0, h) > 1

classify_header(text) ==
  LET h == normalize_header(text) IN
    IF h = <<>> \/ (Len(h) > LongHeader /\ prose_blocks_calendar(h)) THEN {}
    ELSE one_calendar(h)

-----------------------------------------------------------------------------
(* Atoms of one cell of a header band, and the period of a column.         *)

NoAtom == [kind |-> "full", y |-> 0, q |-> 0, h |-> 0, m |-> 0, d |-> 0,
           variant |-> <<>>, key |-> {}]

FullAtom(hit) ==
  LET k == hit.key IN
    [kind |-> "full", y |-> k.y,
     q |-> IF k.g = "quarter" THEN k.n ELSE 0,
     h |-> IF k.g = "half" THEN k.n ELSE 0,
     m |-> IF k.g \in {"month", "day"} THEN k.n ELSE 0,
     d |-> IF k.g = "day" THEN k.d ELSE 0,
     variant |-> hit.variant, key |-> {k}]

PartAtom(p, variant) ==
  [NoAtom EXCEPT !.kind = "part", !.variant = variant,
                 !.q = IF p.g = "Q" THEN p.n ELSE 0,
                 !.h = IF p.g = "H" THEN p.n ELSE 0]

\* A quarter or half with no year: the year comes from a row above.
part_token(w) == {PartAtom(p, <<>>) : p \in {x \in part_of_year(w) : x.y = 0}}

\* The longest window that is such a part, the leftmost of them, with the words
\* around it as its marker.
part_with_residual(h) ==
  LET fits == {w \in (1..Len(h)) \X (2..(Len(h) + 1)) :
                 /\ w[1] < w[2]
                 /\ part_token(SubSeq(h, w[1], w[2] - 1)) # {}
                 /\ Outside(h, w[1], w[2]) # <<>>
                 /\ residual_ok(Outside(h, w[1], w[2]), <<>>)}
      best == CHOOSE w \in fits :
                \A v \in fits : \/ v[2] - v[1] < w[2] - w[1]
                                \/ v[2] - v[1] = w[2] - w[1] /\ w[1] <= v[1]
  IN IF Len(h) < 2 \/ fits = {} THEN {}
     ELSE {[a EXCEPT !.variant = WordsOf(Outside(h, best[1], best[2]))] :
             a \in part_token(SubSeq(h, best[1], best[2] - 1))}

\* What a cell says by itself, whatever its row's label allows.
own_atom(text) ==
  LET h == normalize_header(text)
      hit == classify_header(text)
  IN IF h = <<>> THEN {}
     ELSE IF hit # {} THEN {FullAtom(x) : x \in hit}
     ELSE IF part_token(h) # {} THEN part_token(h)
     ELSE part_with_residual(h)

\* A bare number is a quarter or a month under a label that says so.
label_atom(text, allowQuarter, allowMonth) ==
  LET h == normalize_header(text)
      num == Len(h) = 1 /\ h[1].t = "num"
  IN IF allowQuarter /\ num /\ h[1].n \in 1..4
       THEN {[NoAtom EXCEPT !.kind = "part", !.q = h[1].n]}
     ELSE IF allowMonth /\ num /\ h[1].n \in 1..12
       THEN {[NoAtom EXCEPT !.kind = "month_num", !.m = h[1].n]}
     ELSE {}

\* The first atom of a sequence with property P decides.
FirstIn(s, f) ==
  LET at == {i \in DOMAIN s : s[i][f] # 0} IN IF at = {} THEN 0 ELSE s[Min(at)][f]
compose_mark(atoms) ==
  LET at == {i \in DOMAIN atoms : atoms[i].variant # <<>>} IN
    IF at = {} THEN <<>> ELSE atoms[Min(at)].variant

\* Mutant: the month is asked for before the quarter.
compose_period_MonthFirst(atoms, hint) ==
  LET years == {atoms[i].y : i \in DOMAIN atoms} \ {0}
      year == IF years = {} THEN hint ELSE CHOOSE y \in years : TRUE
      days == {i \in DOMAIN atoms : atoms[i].d # 0}
      months == SelectSeq(atoms, LAMBDA a : a.d = 0)
      fulls == {i \in DOMAIN atoms : atoms[i].key # {}}
      Keyed(k) == {Hit(k, compose_mark(atoms))}
  IN IF atoms = <<>> \/ Cardinality(years) > 1 THEN {}
     ELSE IF days # {}
       THEN LET a == atoms[Min(days)] IN Keyed(DayKey(a.y, a.m, a.d))
     ELSE IF year # 0 /\ FirstIn(months, "m") # 0
       THEN Keyed(MonthKey(year, FirstIn(months, "m")))
     ELSE IF year # 0 /\ FirstIn(atoms, "q") # 0
       THEN Keyed(PartKey("Q", year, FirstIn(atoms, "q")))
     ELSE IF year # 0 /\ FirstIn(atoms, "h") # 0
       THEN Keyed(PartKey("H", year, FirstIn(atoms, "h")))
     ELSE IF fulls # {} THEN Keyed(CHOOSE k \in atoms[Min(fulls)].key : TRUE)
     ELSE IF year # 0 THEN Keyed(YearKey(year))
     ELSE {}

compose_period(atoms, hint) ==
  LET years == {atoms[i].y : i \in DOMAIN atoms} \ {0}
      year == IF years = {} THEN hint ELSE CHOOSE y \in years : TRUE
      days == {i \in DOMAIN atoms : atoms[i].d # 0}
      months == SelectSeq(atoms, LAMBDA a : a.d = 0)
      fulls == {i \in DOMAIN atoms : atoms[i].key # {}}
      Keyed(k) == {Hit(k, compose_mark(atoms))}
  IN IF atoms = <<>> \/ Cardinality(years) > 1 THEN {}
     ELSE IF days # {}
       THEN LET a == atoms[Min(days)] IN Keyed(DayKey(a.y, a.m, a.d))
     ELSE IF year # 0 /\ FirstIn(atoms, "q") # 0
       THEN Keyed(PartKey("Q", year, FirstIn(atoms, "q")))
     ELSE IF year # 0 /\ FirstIn(atoms, "h") # 0
       THEN Keyed(PartKey("H", year, FirstIn(atoms, "h")))
     ELSE IF year # 0 /\ FirstIn(months, "m") # 0
       THEN Keyed(MonthKey(year, FirstIn(months, "m")))
     ELSE IF fulls # {} THEN Keyed(CHOOSE k \in atoms[Min(fulls)].key : TRUE)
     ELSE IF year # 0 THEN Keyed(YearKey(year))
     ELSE {}

-----------------------------------------------------------------------------
(* The grain of an axis.                                                   *)

RelativeGrain(letter) ==
  CASE letter = "Y" -> "model_year" [] letter = "Q" -> "model_quarter"
    [] letter = "M" -> "model_month" [] letter = "P" -> "model_period"

relative_grain(keys) ==
  LET grains == {RelativeGrain(keys[i].d) : i \in DOMAIN keys} IN
    IF Cardinality(grains) = 1 THEN CHOOSE g \in grains : TRUE ELSE "model_period"

\* sorted(s)[len(s) // 2].
Median(s) == SortSeq(s, <)[(Len(s) \div 2) + 1]

\* Positive differences between neighbours of a sequence of numbers.
Steps(s) ==
  SelectSeq([i \in 1..(Len(s) - 1) |-> s[i + 1] - s[i]], LAMBDA x : x > 0)

GrainOfMonths(steps, quarters) ==
  LET med == Median(steps) IN
    IF Max(Range(steps)) - Min(Range(steps)) > 1 THEN "none"
    ELSE IF med <= 1 THEN "month"
    ELSE IF med \in 2..4 THEN "quarter"
    ELSE IF med \in 5..7 /\ ~quarters THEN "half_year"
    ELSE IF med \in 11..13 THEN "year"
    ELSE "none"

infer_grain(keys) ==
  LET calendar == SelectSeq(keys, is_calendar_key)
      All(g) == \A i \in DOMAIN calendar : calendar[i].g = g
      ordered == SortSeq(calendar, LAMBDA a, b : key_as_date(a) < key_as_date(b))
      days == Steps([i \in DOMAIN ordered |-> key_as_date(ordered[i])])
      months == Steps([i \in DOMAIN ordered |-> MonthIndex(ordered[i])])
  IN IF keys # <<>> /\ \A i \in DOMAIN keys : keys[i].g = "ord" THEN relative_grain(keys)
     ELSE IF Len(calendar) < 2 THEN "none"
     ELSE IF All("half") THEN "half_year"
     ELSE IF days # <<>> /\ Median(days) \in 5..9 THEN "week"
     ELSE IF days # <<>> /\ Median(days) \in 13..17 THEN "biweek"
     ELSE IF days # <<>> /\ Median(days) \in 25..35 THEN "month"
     ELSE IF months # <<>> THEN GrainOfMonths(months, All("quarter"))
     ELSE IF All("quarter") THEN "quarter"
     ELSE IF All("month") THEN "month"
     ELSE IF All("year") THEN "year"
     ELSE "none"

apply_grain(k, grain) ==
  IF ~is_calendar_key(k) THEN k
  ELSE CASE grain = "year" -> YearKey(k.y)
         [] grain = "quarter" /\ k.g \in {"month", "day"} ->
              PartKey("Q", k.y, (k.n - 1) \div 3 + 1)
         [] grain = "month" /\ k.g = "day" -> MonthKey(k.y, k.n)
         [] grain = "half_year" /\ k.g = "quarter" ->
              PartKey("H", k.y, IF k.n <= 2 THEN 1 ELSE 2)
         [] grain = "half_year" /\ k.g \in {"month", "day"} ->
              PartKey("H", k.y, IF k.n <= 6 THEN 1 ELSE 2)
         [] OTHER -> k

=============================================================================
