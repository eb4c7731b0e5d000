------------------------------- MODULE Widgets -------------------------------
(***************************************************************************)
(* What the terminal user interface computes from a key (crates/pty-tui):  *)
(* text fields and areas, scrolling lists, the fuzzy match, wrapping, the  *)
(* calendar, trees and tables.  Each is a function of a state and a key,   *)
(* as in the source; positions count from 0.  A character is a string of   *)
(* one letter, a text a sequence of them, a key a record with the name,    *)
(* the text it types ("" for none) and its modifiers.  Styles and borders  *)
(* are left out.                                                           *)
(***************************************************************************)
EXTENDS Integers, Sequences, FiniteSets, SequencesExt, FiniteSetsExt

Key(name) == [name |-> name, ch |-> "", ctrl |-> FALSE, alt |-> FALSE]
Typed(c) == [name |-> c, ch |-> c, ctrl |-> FALSE, alt |-> FALSE]
Ctrl(c) == [name |-> c, ch |-> "", ctrl |-> TRUE, alt |-> FALSE]
Alt(name, c) == [name |-> name, ch |-> c, ctrl |-> FALSE, alt |-> TRUE]
(* No index, no score. *)
None == -1

SatSub(a, b) == IF a > b THEN a - b ELSE 0
Least(a, b) == IF a < b THEN a ELSE b
Clamp(n, lo, hi) == IF n < lo THEN lo ELSE IF n > hi THEN hi ELSE n
(* chars[from..to], both clamped. *)
Slice(s, from, to) == SubSeq(s, from + 1, Least(to, Len(s)))
Position(s, P(_)) ==
  LET hits == {i \in DOMAIN s : P(s[i])} IN IF hits = {} THEN None ELSE Min(hits) - 1

----------------------------------------------------------------------------
(* line_edit.rs *)

IsWordChar(c) == c \notin {"-", "/", ".", " "}
(* Back over separators, then over one word. *)
PrevWordBoundary(text, pos) ==
  LET p == Least(pos, Len(text))
      ends == {i \in 1..p : IsWordChar(text[i])}
      e == IF ends = {} THEN 0 ELSE Max(ends)
      breaks == {i \in 1..e : ~IsWordChar(text[i])}
  IN  IF breaks = {} THEN 0 ELSE Max(breaks)
NextWordBoundary(text, pos) ==
  LET p == Least(pos, Len(text))
      starts == {i \in (p + 1)..Len(text) : IsWordChar(text[i])}
      s == IF starts = {} THEN Len(text) ELSE Min(starts)
      breaks == {i \in s..Len(text) : ~IsWordChar(text[i])}
  IN  IF starts = {} THEN Len(text) ELSE IF breaks = {} THEN Len(text) ELSE Min(breaks) - 1

EmptyField == [text |-> <<>>, cursor |-> 0]
Field(text) == [text |-> text, cursor |-> Len(text)]
(* Whether a key types its text. *)
Types(key) == key.ch # "" /\ ~key.ctrl /\ ~key.alt
NoField == [text |-> <<>>, cursor |-> None]
(* apply_text_key: the new field, NoField for a key that is not editing. *)
ApplyTextKey(f, key) ==
  LET t == f.text
      c == Least(f.cursor, Len(t))
      at(n) == [text |-> t, cursor |-> n]
      cut(from, to) == [text |-> Slice(t, 0, from) \o Slice(t, to, Len(t)), cursor |-> from]
      name == key.name
  IN  CASE name = "backspace" -> IF c = 0 THEN f ELSE cut(c - 1, c)
        [] name = "delete" -> IF c >= Len(t) THEN f ELSE cut(c, c + 1)
        [] name = "left" /\ key.alt -> at(PrevWordBoundary(t, c))
        [] name = "left" /\ ~key.alt -> IF c = 0 THEN f ELSE at(c - 1)
        [] name = "right" /\ key.alt -> at(NextWordBoundary(t, c))
        [] name = "right" /\ ~key.alt -> IF c >= Len(t) THEN f ELSE at(c + 1)
        [] key.alt /\ key.ch = "b" -> at(PrevWordBoundary(t, c))
        [] key.alt /\ key.ch = "f" -> at(NextWordBoundary(t, c))
        [] name = "home" \/ (name = "a" /\ key.ctrl) -> at(0)
        [] name = "end" \/ (name = "e" /\ key.ctrl) -> at(Len(t))
        [] name = "u" /\ key.ctrl -> cut(0, c)
        [] name = "w" /\ key.ctrl -> cut(PrevWordBoundary(t, c), c)
        [] name = "k" /\ key.ctrl -> cut(c, Len(t))
        [] Types(key) -> [text |-> Slice(t, 0, c) \o <<key.ch>> \o Slice(t, c, Len(t)), cursor |-> c + 1]
        [] OTHER -> NoField

----------------------------------------------------------------------------
(* scroll.rs *)

NewRegion(total, viewport) == [offset |-> 0, selected |-> 0, total |-> total, viewport |-> viewport]
(* Mutant: the row below the viewport counts as visible. *)
EnsureVisibleLate(r) ==
  LET o == IF r.selected < r.offset THEN r.selected
           ELSE IF r.selected > r.offset + r.viewport THEN r.selected + 1 - r.viewport
           ELSE r.offset
  IN  [r EXCEPT !.offset = Least(o, SatSub(r.total, r.viewport))]
EnsureVisible(r) ==
  LET o == IF r.selected < r.offset THEN r.selected
           ELSE IF r.selected >= r.offset + r.viewport THEN r.selected + 1 - r.viewport
           ELSE r.offset
  IN  [r EXCEPT !.offset = Least(o, SatSub(r.total, r.viewport))]
UpdateRegion(r, total, viewport) ==
  EnsureVisible([r EXCEPT !.total = total, !.viewport = viewport,
                          !.selected = Least(@, SatSub(total, 1))])
Select(r, n) == EnsureVisible([r EXCEPT !.selected = n])
ScrollUp(r) == IF r.selected = 0 THEN r ELSE Select(r, r.selected - 1)
ScrollDown(r) == IF r.selected + 1 >= r.total THEN r ELSE Select(r, r.selected + 1)
PageUp(r) == Select(r, SatSub(r.selected, r.viewport))
PageDown(r) == Select(r, Least(r.selected + r.viewport, SatSub(r.total, 1)))
ToTop(r) == Select(r, 0)
ToBottom(r) == Select(r, SatSub(r.total, 1))
VisibleSlice(r, items) == Slice(items, Least(r.offset, Len(items)), r.offset + r.viewport)
(* GroupedLayout::new: a header before every group, a spacer between them, *)
(* and the offset that brings the selected item into view. *)
GroupRows(groups, headers) ==
  LET group(acc, g) ==
        acc \o (IF headers THEN (IF acc = <<>> THEN <<>> ELSE <<"spacer">>) \o <<"header">> ELSE <<>>)
            \o [i \in 1..groups[g] |-> "item"]
  IN  FoldLeft(group, <<>>, [g \in DOMAIN groups |-> g])
ItemRow(rows, index) ==
  LET items == {i \in DOMAIN rows : rows[i] = "item"}
      hit == {i \in items : Cardinality({j \in items : j < i}) = index}
  IN  IF hit = {} THEN 0 ELSE (CHOOSE i \in hit : TRUE) - 1
GroupedOffset(r, rows) ==
  LET at == ItemRow(rows, r.selected)
  IN  IF at >= r.viewport THEN at + 2 - r.viewport ELSE 0

----------------------------------------------------------------------------
(* fuzzy.rs *)

IsBoundary(t, pos) == pos = 0 \/ t[pos] \in {"-", "_", "/", " ", "."}
(* can_match: what is left of the query is in what is left of the target. *)
CanMatch(q, qi, t, ti) ==
  FoldLeft(LAMBDA k, c : IF k < Len(q) /\ c = q[k + 1] THEN k + 1 ELSE k, qi, Slice(t, ti, Len(t))) >= Len(q)
(* A letter found among the places here, better among the good ones. *)
PutLetter(acc, here, good) ==
  IF ~acc.ok \/ here = {} THEN [acc EXCEPT !.ok = FALSE]
  ELSE LET hit == Min(IF good # {} THEN good ELSE here)
       IN  [ok |-> TRUE, ti |-> hit + 1, at |-> Append(acc.at, hit)]
PlaceLetter(acc, q, t, qi, here) ==
  PutLetter(acc, here, {a \in here : IsBoundary(t, a) /\ CanMatch(q, qi, t, a + 1)})
(* match_prefer_boundaries: each letter at the first boundary that leaves *)
(* room for the rest, else at its next place. *)
MatchPreferBoundaries(q, t) ==
  FoldLeft(LAMBDA acc, qi : PlaceLetter(acc, q, t, qi, {a \in acc.ti..(Len(t) - 1) : t[a + 1] = q[qi]}),
           [ok |-> TRUE, ti |-> 0, at |-> <<>>], [i \in DOMAIN q |-> i])
(* match_greedy: each letter at its first place. *)
MatchGreedy(q, t) ==
  FoldLeft(LAMBDA acc, i : IF Len(acc) < Len(q) /\ t[i] = q[Len(acc) + 1] THEN Append(acc, i - 1) ELSE acc,
           <<>>, [i \in DOMAIN t |-> i])
(* find_best_match, of a query that is in the target. *)
BetterOf(best, greedy) == IF best.ok THEN best.at ELSE greedy
FindBestMatch(q, t) == BetterOf(MatchPreferBoundaries(q, t), MatchGreedy(q, t))
RunBonus(p) ==
  FoldLeft(LAMBDA acc, i : IF i > 1 /\ p[i] = p[i - 1] + 1
                           THEN [run |-> acc.run + 1, sum |-> acc.sum + 2 * (acc.run + 1)]
                           ELSE [acc EXCEPT !.run = 0],
           [run |-> 0, sum |-> 0], [i \in DOMAIN p |-> i]).sum
Score(q, t, p) ==
  RunBonus(p) + 3 * Cardinality({i \in DOMAIN p : IsBoundary(t, p[i])})
    + (IF p # <<>> /\ p[1] = 0 THEN 5 ELSE 0) + SatSub(10, Len(t) - Len(q))
(* fuzzy_match: the score, None when the query is not in the target. *)
FuzzyMatch(q, t) ==
  IF q = <<>> THEN 1
  ELSE IF Len(q) > Len(t) \/ ~CanMatch(q, 0, t, 0) THEN None
  ELSE Score(q, t, FindBestMatch(q, t))

----------------------------------------------------------------------------
(* text.rs: a character of Wide takes two cells. *)

Wide == {"W"}
CharWidth(c) == IF c \in Wide THEN 2 ELSE 1
TextWidth(t) == FoldLeft(LAMBDA w, c : w + CharWidth(c), 0, t)
(* The text cut to fit, with a mark for what is missing. *)
Truncate(t, max) ==
  IF TextWidth(t) <= max THEN t
  ELSE IF max <= 1 THEN Slice(t, 0, max)
  ELSE LET fits == {n \in 0..Len(t) : \A k \in 1..n : TextWidth(Slice(t, 0, k)) + 1 <= max}
       IN  Slice(t, 0, Max(fits)) \o <<"~">>
(* One line of wrap_text from pos: where it ends. *)
LineEnd(t, pos, max) ==
  LET fits == {n \in pos..Len(t) : TextWidth(Slice(t, pos, n)) <= max}
      end == Max(fits)
      breaks == {b \in (pos + 1)..end : (b < end /\ t[b + 1] = " ") \/ t[b] \in Wide}
  IN  IF end >= Len(t) THEN Len(t)
      ELSE IF breaks # {} THEN Max(breaks)
      ELSE IF end = pos THEN pos + 1 ELSE end
WrapText(t, max) ==
  LET turn(acc, i) ==
        IF acc.pos >= Len(t) THEN acc
        ELSE LET e == LineEnd(t, acc.pos, max)
             IN  [pos |-> e, lines |-> Append(acc.lines, Slice(t, acc.pos, e))]
  IN  IF max = 0 \/ t = <<>> THEN <<t>>
      ELSE FoldLeft(turn, [pos |-> 0, lines |-> <<>>], t).lines

----------------------------------------------------------------------------
(* text_area.rs *)

NewArea(lines) == [lines |-> lines, row |-> 0, col |-> 0]
(* The lines with those from .. to replaced. *)
Splice(lines, from, to, new) == Slice(lines, 0, from) \o new \o Slice(lines, to, Len(lines))
CursorAt(a, row, col) == [a EXCEPT !.row = row, !.col = col]
LineOf(a, row) == a.lines[row + 1]
(* Left and right step over the line's end; with alt, by words. *)
AreaLeft(a, col, word) ==
  IF col > 0 THEN CursorAt(a, a.row, IF word THEN PrevWordBoundary(LineOf(a, a.row), col) ELSE col - 1)
  ELSE IF a.row > 0 THEN CursorAt(a, a.row - 1, Len(LineOf(a, a.row - 1))) ELSE a
AreaRight(a, col, word) ==
  LET cur == LineOf(a, a.row)
  IN  IF col < Len(cur) THEN CursorAt(a, a.row, IF word THEN NextWordBoundary(cur, col) ELSE col + 1)
      ELSE IF a.row + 1 < Len(a.lines) THEN CursorAt(a, a.row + 1, 0) ELSE a
AreaBackspace(a, col) ==
  LET cur == LineOf(a, a.row)
  IN  IF col > 0 THEN [a EXCEPT !.lines[a.row + 1] = Slice(cur, 0, col - 1) \o Slice(cur, col, Len(cur)), !.col = col - 1]
      ELSE IF a.row = 0 THEN a
      ELSE LET prev == LineOf(a, a.row - 1)
           IN  [lines |-> Splice(a.lines, a.row - 1, a.row + 1, <<prev \o cur>>), row |-> a.row - 1, col |-> Len(prev)]
AreaDelete(a, col) ==
  LET cur == LineOf(a, a.row)
  IN  IF col < Len(cur) THEN [a EXCEPT !.lines[a.row + 1] = Slice(cur, 0, col) \o Slice(cur, col + 1, Len(cur)), !.col = col]
      ELSE IF a.row + 1 >= Len(a.lines) THEN a
      ELSE [a EXCEPT !.lines = Splice(a.lines, a.row, a.row + 2, <<cur \o LineOf(a, a.row + 1)>>), !.col = col]
AreaReturn(a, col) ==
  LET cur == LineOf(a, a.row)
  IN  [lines |-> Splice(a.lines, a.row, a.row + 1, <<Slice(cur, 0, col), Slice(cur, col, Len(cur))>>),
       row |-> a.row + 1, col |-> 0]
AreaUp(a, col) == IF a.row = 0 THEN a ELSE CursorAt(a, a.row - 1, Least(col, Len(LineOf(a, a.row - 1))))
AreaDown(a, col) == IF a.row + 1 >= Len(a.lines) THEN a ELSE CursorAt(a, a.row + 1, Least(col, Len(LineOf(a, a.row + 1))))
NoArea == [lines |-> <<>>, row |-> None, col |-> None]
(* apply_text_area_key: NoArea for the keys the host keeps. *)
ApplyTextAreaKey(a, key) ==
  LET name == key.name
      cur == LineOf(a, a.row)
      col == Least(a.col, Len(cur))
  IN  CASE name \in {"tab", "backtab", "escape"} \/ (name = "return" /\ key.ctrl) -> NoArea
        [] name = "return" -> AreaReturn(a, col)
        [] name = "backspace" -> AreaBackspace(a, col)
        [] name = "delete" -> AreaDelete(a, col)
        [] name = "left" -> AreaLeft(a, col, key.alt)
        [] name = "right" -> AreaRight(a, col, key.alt)
        [] key.alt /\ key.ch = "b" -> CursorAt(a, a.row, PrevWordBoundary(cur, col))
        [] key.alt /\ key.ch = "f" -> CursorAt(a, a.row, NextWordBoundary(cur, col))
        [] name = "up" -> AreaUp(a, col)
        [] name = "down" -> AreaDown(a, col)
        [] name = "home" \/ (name = "a" /\ key.ctrl) -> CursorAt(a, a.row, 0)
        [] name = "end" \/ (name = "e" /\ key.ctrl) -> CursorAt(a, a.row, Len(cur))
        [] Types(key) -> [a EXCEPT !.lines[a.row + 1] = Slice(cur, 0, col) \o <<key.ch>> \o Slice(cur, col, Len(cur)),
                                   !.col = col + 1]
        [] OTHER -> NoArea

----------------------------------------------------------------------------
(* virtual_list.rs: nothing is selected in an empty list. *)

NewVirtual(total, viewport) ==
  [total |-> total, selected |-> IF total > 0 THEN 0 ELSE None, offset |-> 0, viewport |-> viewport]
ClampVirtual(v) ==
  LET sel == Least(IF v.selected = None THEN 0 ELSE v.selected, v.total - 1)
      o == Least(v.offset, SatSub(v.total, v.viewport))
      o2 == IF sel < o THEN sel ELSE o
  IN  IF v.total = 0 THEN [v EXCEPT !.selected = None, !.offset = 0]
      ELSE [v EXCEPT !.selected = sel,
                     !.offset = IF sel >= o2 + v.viewport THEN sel + 1 - v.viewport ELSE o2]
VirtualWindow(v) == LET c == ClampVirtual(v) IN <<c.offset, Least(c.total, c.offset + c.viewport)>>
MoveBy(v, delta) ==
  LET target == Clamp((IF v.selected = None THEN 0 ELSE v.selected) + delta, 0, v.total - 1)
  IN  IF v.total = 0 \/ target = v.selected THEN v ELSE ClampVirtual([v EXCEPT !.selected = target])
ToStart(v) == ClampVirtual([v EXCEPT !.selected = 0])
ToEnd(v) == ClampVirtual([v EXCEPT !.selected = SatSub(v.total, 1)])
WithTotal(v, total) == ClampVirtual([v EXCEPT !.total = total])
HandleVirtualKey(v, key) ==
  CASE key.name = "up" -> MoveBy(v, -1)
    [] key.name = "down" -> MoveBy(v, 1)
    [] key.name = "pageup" -> MoveBy(v, 0 - v.viewport)
    [] key.name = "pagedown" -> MoveBy(v, v.viewport)
    [] key.name = "home" -> ToStart(v)
    [] key.name = "end" -> ToEnd(v)
    [] OTHER -> v
(* A press on a row of the window selects and activates the item drawn *)
(* there; a row below the list does nothing. *)
PressVirtual(v, y) == IF y + v.offset >= v.total THEN v ELSE ClampVirtual([v EXCEPT !.selected = y + v.offset])
HandleVirtualMouse(v, action, y) ==
  CASE action = "scrollup" -> MoveBy(v, -3)
    [] action = "scrolldown" -> MoveBy(v, 3)
    [] action = "press" -> PressVirtual(v, y)
    [] OTHER -> v

(* stream_view.rs: lines counted from the newest; 0 follows the stream. *)
StreamUp(back, delta, total, viewport) == Least(back + delta, SatSub(total, viewport))
StreamWindow(back, total, viewport) ==
  IF total = 0 \/ viewport = 0 THEN <<0, 0>>
  ELSE LET end == SatSub(total, back) IN <<SatSub(end, viewport), end>>
HandleStreamKey(back, key, total, viewport) ==
  CASE key.name = "up" -> StreamUp(back, 1, total, viewport)
    [] key.name = "down" -> SatSub(back, 1)
    [] key.name = "pageup" -> StreamUp(back, viewport, total, viewport)
    [] key.name = "pagedown" -> SatSub(back, viewport)
    [] key.name = "end" -> 0
    [] key.name = "home" -> StreamUp(back, total, total, viewport)
    [] OTHER -> back
HandleStreamMouse(back, action, total, viewport) ==
  CASE action = "scrollup" -> StreamUp(back, 3, total, viewport)
    [] action = "scrolldown" -> SatSub(back, 3)
    [] OTHER -> back

----------------------------------------------------------------------------
(* tree.rs: kids gives the children of a node. *)

FlattenTree(nodes, kids, depth, expanded) ==
  LET Below(rows, list, d) == FlattenSeq([i \in DOMAIN list |-> rows[list[i], d]])
      rows[n \in DOMAIN kids, d \in Nat] ==
        LET open == kids[n] # <<>> /\ n \in expanded
        IN  <<[id |-> n, depth |-> d, has |-> kids[n] # <<>>, open |-> open]>>
              \o (IF open THEN Below(rows, kids[n], d + 1) ELSE <<>>)
  IN  Below(rows, nodes, depth)
ToggleExpanded(s, id) ==
  [s EXCEPT !.expanded = IF id \in @ THEN @ \ {id} ELSE @ \union {id}]
RowOf(rows, id) == Position(rows, LAMBDA r : r.id = id)
MoveSelection(s, rows, delta) ==
  LET at == RowOf(rows, s.selected)
  IN  IF rows = <<>> THEN s
      ELSE [s EXCEPT !.selected = rows[(IF at = None THEN 0 ELSE Clamp(at + delta, 0, Len(rows) - 1)) + 1].id]
HandleTreeKey(s, rows, key) ==
  LET at == RowOf(rows, s.selected)
      row == IF at = None THEN rows[1] ELSE rows[at + 1]
  IN  CASE key.name = "up" -> MoveSelection(s, rows, -1)
        [] key.name = "down" -> MoveSelection(s, rows, 1)
        [] at # None /\ key.name = "right" /\ row.has /\ ~row.open -> ToggleExpanded(s, s.selected)
        [] at # None /\ key.name = "left" /\ row.has /\ row.open -> ToggleExpanded(s, s.selected)
        [] at # None /\ key.name = "return" /\ row.has -> ToggleExpanded(s, s.selected)
        [] OTHER -> s

----------------------------------------------------------------------------
(* table.rs: rows are records of numbers, one field a column. *)

TablePage == 10
SortRows(rows, column, desc) ==
  LET before(i, j) == \/ (IF desc THEN rows[j][column] < rows[i][column] ELSE rows[i][column] < rows[j][column])
                      \/ rows[i][column] = rows[j][column] /\ i < j
      order == SetToSortSeq(DOMAIN rows, before)
  IN  [i \in DOMAIN rows |-> rows[order[i]]]
(* A digit sorts by that column, again reverses it. *)
SortKey(s, column) ==
  IF s.column = column THEN [s EXCEPT !.desc = ~@] ELSE [s EXCEPT !.column = column, !.desc = FALSE]
HandleTableKey(s, count, columns, key) ==
  LET move(n) == [s EXCEPT !.selected = Clamp(n, 0, SatSub(count, 1))]
  IN  CASE key.name = "up" -> move(s.selected - 1)
        [] key.name = "down" -> move(s.selected + 1)
        [] key.name = "pageup" -> move(s.selected - TablePage)
        [] key.name = "pagedown" -> move(s.selected + TablePage)
        [] key.name = "home" -> move(0)
        [] key.name = "end" -> move(count - 1)
        [] key.name \in DOMAIN columns /\ Types(key) -> SortKey(s, columns[key.name])
        [] OTHER -> s

----------------------------------------------------------------------------
(* date_picker.rs: months count from 0. *)

(* Days since 1970-01-01; years are not negative here. *)
DaysFromCivil(y0, m, d) ==
  LET y == IF m <= 2 THEN y0 - 1 ELSE y0
      yoe == y % 400
      doy == (153 * ((m + 9) % 12) + 2) \div 5 + d - 1
  IN  (y \div 400) * 146097 + yoe * 365 + yoe \div 4 - yoe \div 100 + doy - 719468
CivilFromDays(days) ==
  LET z == days + 719468
      doe == z % 146097
      yoe == (doe - doe \div 1460 + doe \div 36524 - doe \div 146096) \div 365
      doy == doe - (365 * yoe + yoe \div 4 - yoe \div 100)
      mp == (5 * doy + 2) \div 153
      m == IF mp < 10 THEN mp + 3 ELSE mp - 9
      y == yoe + (z \div 146097) * 400
  IN  [year |-> IF m <= 2 THEN y + 1 ELSE y, month |-> m - 1, day |-> doy - (153 * mp + 2) \div 5 + 1]
NormMonth(y, m) == LET t == y * 12 + m IN <<t \div 12, t % 12>>
DaysInMonth(y, m) ==
  LET n == NormMonth(y, m + 1) IN DaysFromCivil(n[1], n[2] + 1, 1) - DaysFromCivil(y, m + 1, 1)
DayOfWeek(d) == (DaysFromCivil(d.year, d.month + 1, d.day) + 4) % 7
ShiftDay(d, delta) == CivilFromDays(DaysFromCivil(d.year, d.month + 1, d.day) + delta)
(* Mutant: the day of the old month stays. *)
ShiftMonthUnclamped(d, delta) ==
  LET n == NormMonth(d.year, d.month + delta) IN [year |-> n[1], month |-> n[2], day |-> d.day]
ShiftMonth(d, delta) ==
  LET n == NormMonth(d.year, d.month + delta)
  IN  [year |-> n[1], month |-> n[2], day |-> Clamp(d.day, 1, DaysInMonth(n[1], n[2]))]
HandleDatePickerKey(d, key) ==
  CASE key.name = "up" -> ShiftDay(d, -7)
    [] key.name = "down" -> ShiftDay(d, 7)
    [] key.name = "left" -> ShiftDay(d, -1)
    [] key.name = "right" -> ShiftDay(d, 1)
    [] key.name = "[" -> ShiftMonth(d, -1)
    [] key.name = "]" -> ShiftMonth(d, 1)
    [] OTHER -> d
(* calendar_draw: the row and the column of a day. *)
CalendarCell(d, day) ==
  LET n == DayOfWeek([d EXCEPT !.day = 1]) + day - 1 IN <<1 + n \div 7, n % 7>>

----------------------------------------------------------------------------
(* command_palette.rs: commands with a label each, ranked by the query. *)

FilterCommands(commands, query) ==
  LET score == [i \in DOMAIN commands |-> FuzzyMatch(query, commands[i])]
      before(i, j) == score[i] > score[j] \/ (score[i] = score[j] /\ i < j)
  IN  SetToSortSeq({i \in DOMAIN commands : score[i] # None}, before)
HandlePaletteKey(p, commands, key) ==
  LET n == Len(FilterCommands(commands, p.query.text))
      q == ApplyTextKey(p.query, key)
  IN  CASE key.name = "up" -> [p EXCEPT !.selected = SatSub(@, 1)]
        [] key.name = "down" -> [p EXCEPT !.selected = Least(@ + 1, SatSub(n, 1))]
        [] key.name \in {"escape", "return"} \/ q = NoField -> p
        [] OTHER -> [query |-> q, selected |-> 0]

(* select.rs: the answer is the index a return picked. *)
HandleSelectKey(s, count, key) ==
  CASE ~s.open -> IF key.name \in {"return", "down"} THEN [s EXCEPT !.open = TRUE] ELSE s
    [] s.open /\ key.name = "up" -> [s EXCEPT !.index = SatSub(@, 1)]
    [] s.open /\ key.name = "down" -> [s EXCEPT !.index = Least(@ + 1, SatSub(count, 1))]
    [] s.open /\ key.name \in {"return", "escape"} -> [s EXCEPT !.open = FALSE]
    [] OTHER -> s

(* form.rs: fields in a fixed order, one of them focused. *)
FormWalk(f, delta) == [f EXCEPT !.focused = (f.focused + delta) % Len(f.values)]
HandleFormKey(f, key) ==
  LET edited == ApplyTextKey(f.values[f.focused + 1], key)
  IN  CASE key.name = "tab" -> FormWalk(f, 1)
        [] key.name = "backtab" -> FormWalk(f, -1)
        [] key.name \in {"escape", "return"} \/ edited = NoField -> f
        [] OTHER -> [f EXCEPT !.values[f.focused + 1] = edited]
FormAction(f, key) ==
  CASE key.name = "escape" -> "cancel"
    [] key.name = "return" -> IF f.focused + 1 = Len(f.values) THEN "submit" ELSE "activate"
    [] key.name \in {"tab", "backtab"} -> "moved"
    [] OTHER -> IF ApplyTextKey(f.values[f.focused + 1], key) = NoField THEN "none" ELSE "edited"

(* tabs.rs: the tabs may have changed since one was made active. *)
TabStep(active, tabs, delta) ==
  LET at == Position(tabs, LAMBDA t : t = active)
  IN  IF at = None THEN active ELSE tabs[((at + delta) % Len(tabs)) + 1]
HandleTabsKey(active, tabs, key) ==
  CASE key.name = "tab" /\ key.ctrl -> TabStep(active, tabs, 1)
    [] key.name = "backtab" /\ key.ctrl -> TabStep(active, tabs, -1)
    [] OTHER -> active

(* confirm.rs *)
HandleConfirmKey(focused, key) ==
  IF key.name \in {"left", "right", "tab", "backtab"} THEN IF focused = "yes" THEN "no" ELSE "yes" ELSE focused
ConfirmAnswer(focused, key) ==
  CASE key.name = "return" -> focused
    [] key.name = "escape" \/ key.ch \in {"n", "N"} -> "no"
    [] key.ch \in {"y", "Y"} -> "yes"
    [] OTHER -> "pending"

(* toast.rs *)
PushToast(q, id, expires) == Append(q, [id |-> id, expires |-> expires])
PruneExpired(q, now) == SelectSeq(q, LAMBDA t : t.expires > now)
Dismiss(q, id) == SelectSeq(q, LAMBDA t : t.id # id)

----------------------------------------------------------------------------
(* focus.rs: scopes with a serial, the innermost last. *)

PushScope(stack, serial, id) == Append(stack, [serial |-> serial, id |-> id])
(* Mutant: a guard removes every scope with its id. *)
RemoveByGuardId(stack, serial) ==
  SelectSeq(stack, LAMBDA e : \A x \in ToSet(stack) : x.serial = serial => e.id # x.id)
RemoveSerial(stack, serial) == SelectSeq(stack, LAMBDA e : e.serial # serial)
RemoveId(stack, id) == SelectSeq(stack, LAMBDA e : e.id # id)
(* current: the innermost active scope's id. *)
CurrentScope(stack, active) ==
  LET hits == {i \in DOMAIN stack : stack[i].serial \in active}
  IN  IF hits = {} THEN "" ELSE stack[Max(hits)].id

(* command_registry.rs: scopes in the order they came, each with a batch. *)
ScopeAt(scopes, id) == Position(scopes, LAMBDA s : s.id = id)
Without(scopes, id) == SelectSeq(scopes, LAMBDA s : s.id # id)
UseScope(scopes, id, batch) ==
  LET at == ScopeAt(scopes, id)
  IN  IF batch = <<>> THEN Without(scopes, id)
      ELSE IF at = None THEN Append(scopes, [id |-> id, batch |-> batch])
      ELSE [scopes EXCEPT ![at + 1].batch = batch]
RegisterGlobal(scopes, cmd) ==
  LET at == ScopeAt(scopes, "global")
  IN  IF at = None THEN Append(scopes, [id |-> "global", batch |-> <<cmd>>])
      ELSE [scopes EXCEPT ![at + 1].batch = Append(@, cmd)]
RemoveGlobal(scopes, name) ==
  LET at == ScopeAt(scopes, "global")
      left == SelectSeq(scopes[at + 1].batch, LAMBDA c : c.name # name)
  IN  IF at = None THEN scopes
      ELSE IF left = <<>> THEN Without(scopes, "global")
      ELSE [scopes EXCEPT ![at + 1].batch = left]

(* pane.rs: a selection made at one scroll offset, drawn at another. *)
SelectionContains(sel, row, col, offset) ==
  LET r == row - (offset - sel.offset)
      a == <<sel.r1, sel.c1>>
      b == <<sel.r2, sel.c2>>
      before(p, q) == p[1] < q[1] \/ (p[1] = q[1] /\ p[2] <= q[2])
      lo == IF before(a, b) THEN a ELSE b
      hi == IF before(a, b) THEN b ELSE a
  IN  before(lo, <<r, col>>) /\ before(<<r, col>>, hi)
EffectiveCursorRow(row, offset, height) == IF row + offset \in 0..(height - 1) THEN row + offset ELSE None
InnerSize(n, chrome) == IF chrome THEN SatSub(n, 2) ELSE n
=============================================================================
