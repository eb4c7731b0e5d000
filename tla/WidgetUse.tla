----------------------------- MODULE WidgetUse -----------------------------
(***************************************************************************)
(* Widgets in use: keys and presses arrive while the host changes what is  *)
(* behind them - lists grow and shrink, terminals are resized, branches    *)
(* and scopes come and go.                                                 *)
(***************************************************************************)
EXTENDS Widgets

CONSTANTS
  Kinds,      \* the widgets of this instance
  MaxItems,   \* bound: rows of a list, lines of an area
  MaxText,    \* bound: letters of a text
  MaxTickets,  \* bound: registrations
  Years       \* the years the calendar is walked in

VARIABLES
  kind,   \* the widget
  w,      \* its state
  past    \* what the host did to it

uvars == <<kind, w, past>>

Letters == {"a", "-", "W"}
Texts == UNION {[1..n -> {"a", " ", "W"}] : n \in 0..MaxText}
Queries == UNION {[1..n -> {"a", "b"}] : n \in 0..2}
Targets == UNION {[1..n -> {"a", "b", "-"}] : n \in 0..MaxText}
Kids == [n \in {"r", "s", "x", "y", "z"} |->
           CASE n = "r" -> <<"x", "y">> [] n = "x" -> <<"z">> [] OTHER -> <<>>]
Roots == <<"r", "s">>
Rows == <<[n |-> 2, k |-> 1, at |-> 1], [n |-> 1, k |-> 1, at |-> 2], [n |-> 2, k |-> 0, at |-> 3]>>
Commands == <<<<"a", "b">>, <<"b", "-", "a">>, <<"-">>>>
Moves == {Key(n) : n \in {"up", "down", "pageup", "pagedown", "home", "end", "left", "right", "return"}}

UseInit ==
  /\ kind \in Kinds
  /\ past = <<>>
  /\ w \in CASE kind = "region" -> {NewRegion(2, 1)}
             [] kind = "virtual" -> {NewVirtual(n, 2) : n \in {0, 3}}
             [] kind = "stream" -> {[back |-> 0, total |-> 2]}
             [] kind = "area" -> {NewArea(<<<<>>>>), NewArea(<<<<"a">>, <<"W", "-", "a">>>>)}
             [] kind = "tree" -> {[selected |-> "", expanded |-> {}]}
             [] kind = "table" -> {[selected |-> 0, column |-> "n", desc |-> FALSE, count |-> 3]}
             [] kind = "date" -> {[year |-> y, month |-> m, day |-> 31] : y \in Years, m \in {0, 11}}
             [] kind = "palette" -> {[query |-> EmptyField, selected |-> 0]}
             [] kind = "form" -> {[values |-> <<EmptyField, Field(<<"a">>)>>, focused |-> 0]}
             [] kind = "focus" -> {<<>>}
             [] kind = "commands" -> {<<>>}

(* A key goes to the widget that has the focus. *)
RegionKey ==
  /\ kind = "region"
  /\ w' \in {ScrollUp(w), ScrollDown(w), PageUp(w), PageDown(w), ToTop(w), ToBottom(w)}
  /\ UNCHANGED <<kind, past>>
RegionUpdate ==
  /\ kind = "region"
  /\ \E total \in 0..MaxItems, viewport \in 1..3 : w' = UpdateRegion(w, total, viewport)
  /\ UNCHANGED <<kind, past>>
VirtualKey ==
  /\ kind = "virtual"
  /\ \E k \in Moves : w' = HandleVirtualKey(w, k)
  /\ past' = <<>> /\ UNCHANGED kind
(* A press at row y of the window drawn last: past is what was drawn there.*)
VirtualMouse ==
  /\ kind = "virtual"
  /\ \E y \in 0..(w.viewport - 1), act \in {"scrollup", "scrolldown", "press"} :
       LET drawn == VirtualWindow(w)[1] + y
       IN  /\ w' = HandleVirtualMouse(w, act, y)
           /\ past' = IF act = "press" /\ drawn < VirtualWindow(w)[2] THEN <<drawn>> ELSE <<>>
  /\ UNCHANGED kind
VirtualTotal ==
  /\ kind = "virtual"
  /\ \E n \in 0..MaxItems : w' = WithTotal(w, n)
  /\ past' = <<>> /\ UNCHANGED kind
StreamKey ==
  /\ kind = "stream"
  /\ w' \in {[w EXCEPT !.back = HandleStreamKey(w.back, k, w.total, 2)] : k \in Moves}
              \union {[w EXCEPT !.back = HandleStreamMouse(w.back, a, w.total, 2)] : a \in {"scrollup", "scrolldown"}}
  /\ UNCHANGED <<kind, past>>
StreamGrows == kind = "stream" /\ w.total < MaxItems /\ w' = [w EXCEPT !.total = @ + 1] /\ UNCHANGED <<kind, past>>
AreaLetters(a) == FoldLeft(LAMBDA n, l : n + Len(l), 0, a.lines)
AreaKeys == {Key(n) : n \in {"backspace", "delete", "left", "right", "return", "up", "down", "home", "end"}}
              \union {Typed(c) : c \in Letters}
              \union {Alt("left", ""), Alt("right", ""), Alt("b", "b"), Alt("f", "f")}
AreaKey ==
  /\ kind = "area"
  /\ \E k \in AreaKeys :
       LET a == ApplyTextAreaKey(w, k)
       IN  /\ a # NoArea /\ AreaLetters(a) <= MaxText /\ Len(a.lines) <= 3
           /\ w' = a
  /\ UNCHANGED <<kind, past>>
TreeKey ==
  /\ kind = "tree"
  /\ \E k \in Moves : w' = HandleTreeKey(w, FlattenTree(Roots, Kids, 0, w.expanded), k)
  /\ UNCHANGED <<kind, past>>
TableKey ==
  /\ kind = "table"
  /\ \E k \in Moves \union {Typed("1"), Typed("2")} :
       w' = HandleTableKey(w, w.count, [d \in {"1", "2"} |-> IF d = "1" THEN "n" ELSE "k"], k)
  /\ UNCHANGED <<kind, past>>
DateKey ==
  /\ kind = "date"
  /\ \E k \in Moves \union {Key("["), Key("]")} :
       LET d == HandleDatePickerKey(w, k) IN d.year \in Years /\ w' = d
  /\ UNCHANGED <<kind, past>>
PaletteKey ==
  /\ kind = "palette"
  /\ \E k \in Moves \union {Typed("a"), Typed("b"), Key("backspace"), Ctrl("w")} :
       LET p == HandlePaletteKey(w, Commands, k) IN Len(p.query.text) <= 2 /\ w' = p
  /\ UNCHANGED <<kind, past>>
FormKey ==
  /\ kind = "form"
  /\ \E k \in Moves \union {Key("tab"), Key("backtab"), Typed("a"), Key("backspace"), Ctrl("u"), Ctrl("k")} :
       LET f == HandleFormKey(w, k)
       IN  /\ \A i \in DOMAIN f.values : Len(f.values[i].text) <= MaxText
           /\ w' = f /\ past' = <<FormAction(w, k), w>>
  /\ UNCHANGED kind
(* Scopes pushed, and disposed by their guards in any order; past is which *)
(* serials are out. *)
PushHost ==
  /\ kind = "focus" /\ Len(past) < MaxTickets
  /\ \E id \in {"list", "dialog"} : w' = PushScope(w, Len(past) + 1, id)
  /\ past' = Append(past, "live") /\ UNCHANGED kind
Dispose ==
  /\ kind = "focus"
  /\ \E n \in DOMAIN past :
       /\ past[n] = "live"
       /\ w' = RemoveSerial(w, n) /\ past' = [past EXCEPT ![n] = "disposed"]
  /\ UNCHANGED kind
RemoveScopes ==
  /\ kind = "focus"
  /\ \E id \in {"list", "dialog"} :
       /\ w' = RemoveId(w, id)
       /\ past' = [n \in DOMAIN past |->
                     IF \E e \in ToSet(w) : e.serial = n /\ e.id = id THEN "disposed" ELSE past[n]]
  /\ UNCHANGED kind
(* Commands registered, each stamped with the registration that brought *)
(* it, and disposed; past is what every disposer removes and whether it *)
(* ran. *)
Register ==
  /\ kind = "commands" /\ Len(past) < MaxTickets
  /\ LET n == Len(past) + 1
     IN  \/ \E name \in {"p", "q"} :
              /\ w' = RegisterGlobal(w, [name |-> name, by |-> n])
              /\ past' = Append(past, [scope |-> "global", name |-> name, done |-> FALSE])
         \/ \E id \in {"view", "edit"}, names \in {<<>>, <<"p">>} :
              /\ w' = UseScope(w, id, [i \in DOMAIN names |-> [name |-> names[i], by |-> n]])
              /\ past' = Append(past, [scope |-> id, name |-> "", done |-> FALSE])
  /\ UNCHANGED kind
Unregister ==
  /\ kind = "commands"
  /\ \E n \in DOMAIN past :
       /\ ~past[n].done
       /\ past' = [past EXCEPT ![n].done = TRUE]
       /\ w' = IF past[n].scope = "global" THEN RemoveGlobal(w, past[n].name) ELSE Without(w, past[n].scope)
  /\ UNCHANGED kind

UseNext ==
  \/ RegionKey \/ RegionUpdate \/ VirtualKey \/ VirtualMouse \/ VirtualTotal \/ StreamKey \/ StreamGrows
  \/ AreaKey \/ TreeKey \/ TableKey \/ DateKey \/ PaletteKey \/ FormKey
  \/ PushHost \/ Dispose \/ RemoveScopes \/ Register \/ Unregister
UseSpec == UseInit /\ [][UseNext]_uvars

----------------------------------------------------------------------------
(* What is selected can be seen and acted on: it is a row of the list and *)
(* inside the window drawn, however the list and the terminal changed in *)
(* between; a press activates the row that was drawn under it; a tree's *)
(* selection is never hidden in a closed branch; a palette's return finds *)
(* a command whenever one is listed (scroll.rs, virtual_list.rs, tree.rs, *)
(* table.rs, command_palette.rs). *)
SelectionIsOnScreen ==
  CASE kind = "region" ->
         w.total > 0 => w.selected < w.total /\ w.selected \in w.offset..(w.offset + w.viewport - 1)
    [] kind = "virtual" ->
         LET win == VirtualWindow(w)
         IN  /\ (w.total = 0) <=> (w.selected = None)
             /\ w.total > 0 => w.selected \in win[1]..(win[2] - 1)
             /\ w.offset = win[1]
             /\ past # <<>> => w.selected = past[1]
    [] kind = "stream" ->
         LET win == StreamWindow(w.back, w.total, 2) IN win[2] - win[1] = Least(w.total, 2)
    [] kind = "tree" -> w.selected = "" \/ RowOf(FlattenTree(Roots, Kids, 0, w.expanded), w.selected) # None
    [] kind = "table" -> w.selected < w.count
    [] kind = "palette" ->
         LET n == Len(FilterCommands(Commands, w.query.text)) IN n > 0 => w.selected < n
    [] OTHER -> TRUE

(* A text of lines, and the place of the cursor in it. *)
Flat(a) ==
  LET before == Slice(a.lines, 0, a.row)
      join(ls) == FoldLeft(LAMBDA t, l : t \o l \o <<"nl">>, <<>>, ls)
      text == join(a.lines)
  IN  [text |-> Slice(text, 0, Len(text) - 1), cursor |-> Len(join(before)) + a.col]
FlatKey(f, k) ==
  LET name == IF k.name = "return" THEN Typed("nl") ELSE k IN ApplyTextKey(f, name)
(* An area of lines edits like one text with line ends in it, for every *)
(* key that does not speak of lines or words (text_area.rs against *)
(* line_edit.rs). *)
AreaIsOneText ==
  kind = "area" =>
    \A k \in {Key("backspace"), Key("delete"), Key("left"), Key("right"), Key("return"), Typed("a")} :
      Flat(ApplyTextAreaKey(w, k)) = FlatKey(Flat(w), k)

IsLeap(y) == y % 4 = 0 /\ (y % 100 # 0 \/ y % 400 = 0)
MonthLength(y, m) == IF m = 1 THEN (IF IsLeap(y) THEN 29 ELSE 28) ELSE IF m \in {3, 5, 8, 10} THEN 30 ELSE 31
(* A date is a date of the Gregorian calendar, the day after it is the *)
(* next weekday and the one before that again itself, and the calendar *)
(* draws it in that weekday's column (date_picker.rs). *)
DatesAreDates ==
  kind = "date" =>
    /\ w.month \in 0..11 /\ w.day \in 1..MonthLength(w.year, w.month)
    /\ DaysInMonth(w.year, w.month) = MonthLength(w.year, w.month)
    /\ ShiftDay(ShiftDay(w, 1), -1) = w
    /\ DayOfWeek(ShiftDay(w, 1)) = (DayOfWeek(w) + 1) % 7
    /\ CalendarCell(w, w.day)[2] = DayOfWeek(w) /\ CalendarCell(w, w.day)[1] <= 6

(* A table shows every row once, in order, equal rows as they came. *)
RowsAreSorted ==
  kind = "table" =>
    LET s == SortRows(Rows, w.column, w.desc)
    IN  /\ ToSet(s) = ToSet(Rows)
        /\ \A i, j \in DOMAIN s : i < j =>
             \/ s[i][w.column] = s[j][w.column] /\ s[i].at < s[j].at
             \/ IF w.desc THEN s[i][w.column] > s[j][w.column] ELSE s[i][w.column] < s[j][w.column]

(* The letters a match is scored by are those of the query, in the order *)
(* of the query, at places of the target; a query that is not in the *)
(* target has no score (fuzzy.rs).  Wrapping and truncating keep the text: *)
(* the lines put together are the text and none is wider than asked, but *)
(* for one character wider than the line (text.rs). *)
TextsAreKept ==
  kind = "region" /\ w = NewRegion(2, 1) =>
    /\ \A q \in Queries \ {<<>>}, t \in Targets :
         LET in == \E f \in [1..Len(q) -> 1..Len(t)] :
                     \A i \in DOMAIN q : t[f[i]] = q[i] /\ (i > 1 => f[i] > f[i - 1])
         IN  /\ (FuzzyMatch(q, t) # None) <=> in
             /\ in => LET p == FindBestMatch(q, t)
                      IN  /\ Len(p) = Len(q)
                          /\ \A i \in DOMAIN q : t[p[i] + 1] = q[i] /\ (i > 1 => p[i] > p[i - 1])
    /\ \A t \in Texts, max \in 1..3 :
         LET lines == WrapText(t, max)
         IN  /\ FlattenSeq(lines) = t
             /\ \A i \in DOMAIN lines : TextWidth(lines[i]) <= max \/ Len(lines[i]) = 1
             /\ max > 1 => TextWidth(Truncate(t, max)) <= max

(* What the widgets compute is what they stand for: an area is one text, a *)
(* date a date, a table in order, and no text is lost. *)
WidgetsComputeRight == AreaIsOneText /\ DatesAreDates /\ RowsAreSorted /\ TextsAreKept

(* A form edits the focused field only, submits from the last one only, *)
(* and every field can be reached (form.rs). *)
FormEditsFocused ==
  kind = "form" /\ past # <<>> =>
    /\ \A i \in DOMAIN w.values : w.values[i] # past[2].values[i] => i = past[2].focused + 1 /\ past[1] = "edited"
    /\ w.focused \in 0..(Len(w.values) - 1)
    /\ past[1] = "submit" => past[2].focused = Len(w.values) - 1

(* Disposing removes what was registered and nothing that is still held: a *)
(* scope is on the stack exactly while nobody removed it, in the order *)
(* they came (focus.rs); what a disposer ran for is no longer listed *)
(* (command_registry.rs). *)
DisposalIsExact ==
  /\ kind = "focus" =>
       /\ {e.serial : e \in ToSet(w)} = {n \in DOMAIN past : past[n] = "live"}
       /\ \A i, j \in DOMAIN w : i < j => w[i].serial < w[j].serial
  /\ kind = "commands" =>
       \A s \in ToSet(w) : s.batch # <<>> /\ \A c \in ToSet(s.batch) : ~past[c.by].done

(* Violated: a disposer removes what it registered (command_registry.rs, *)
(* "disposers remove what they registered") - and not a batch that *)
(* replaced it, or another's command of the same name. *)
DisposersRemoveOwn ==
  [][\A n \in DOMAIN past : kind = "commands" /\ ~past[n].done /\ past'[n].done =>
       {c.by : c \in UNION {ToSet(s.batch) : s \in ToSet(w)}} \ {n}
         = {c.by : c \in UNION {ToSet(s.batch) : s \in ToSet(w')}} \ {n}]_uvars
=============================================================================
