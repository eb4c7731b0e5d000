---------------------------- MODULE ScreenReplay ----------------------------
(***************************************************************************)
(* What a replay says of the rows, the backgrounds and the pictures of a   *)
(* screen (crates/pty-terminal/src/serialize.rs, graphics.rs), and what a  *)
(* terminal that parses it ends up showing; then the history above the     *)
(* screen and its pages.  libghostty's formatter is external: it writes    *)
(* the rows up to the last one that has text.                              *)
(***************************************************************************)
EXTENDS Integers, Sequences, FiniteSets, SequencesExt, FiniteSetsExt

CONSTANTS
  Height, Cols,  \* the terminal's rows and columns
  MaxRows,       \* bound: rows of the buffer, history included
  CellHeight,    \* pixels of a cell
  Placements     \* [row, rows, y, h]: direct placements; h in pixels

VARIABLES
  buf,      \* the rows, oldest first: each a sequence of cells
  tiles,    \* [row -> [col -> cell]]: the placeholder cells of the active area
  pic       \* a direct placement

bvars == <<buf, tiles, pic>>

Cells == {"x", "a", "b", "."}      \* text, two backgrounds, nothing
Blank == [x \in 1..Cols |-> "."]
HasText(row) == \E x \in 1..Cols : row[x] = "x"
BaseY == Len(buf) - Height
ActiveRow(y) == buf[BaseY + y]

----------------------------------------------------------------------------
(* The background fix-ups of scan_rows. *)

(* Mutant: a run is extended over a cell that has no background. *)
AddCellGreedy(runs, x, bg) ==
  IF runs # <<>> /\ Last(runs).bg = bg
  THEN [runs EXCEPT ![Len(runs)].len = x - Last(runs).x + 1]
  ELSE Append(runs, [x |-> x, len |-> 1, bg |-> bg])
(* One cell more: a run grows while the background stays the same. *)
AddCell(runs, x, bg) ==
  IF runs # <<>> /\ Last(runs).x + Last(runs).len = x /\ Last(runs).bg = bg
  THEN [runs EXCEPT ![Len(runs)].len = @ + 1]
  ELSE Append(runs, [x |-> x, len |-> 1, bg |-> bg])
RowRuns(row) ==
  FoldLeft(LAMBDA runs, x : IF row[x] \in {"a", "b"} THEN AddCell(runs, x, row[x]) ELSE runs,
           <<>>, [x \in 1..Cols |-> x])
ScanActive ==
  [fixups |-> [y \in 1..Height |-> IF HasText(ActiveRow(y)) THEN <<>> ELSE RowRuns(ActiveRow(y))],
   last |-> Max({y \in 1..Height : HasText(ActiveRow(y))} \union {0})]
LastTextRow ==
  LET a == ScanActive.last
  IN  IF a > 0 THEN BaseY + a ELSE Max({y \in 1..BaseY : HasText(buf[y])} \union {0})

(* Mutant: the rows of the screen are padded too. *)
PaddingFull == Len(buf) - LastTextRow + 1
(* vt's padding, when the history is replayed. *)
Padding == Max({Len(buf) - Max({LastTextRow, Height}), 0})

(* A terminal that parses the body and the padding has so many rows. *)
ParsedRows == Max({Height, Max({LastTextRow, 1}) + Padding})

----------------------------------------------------------------------------
(* Placeholder cells: the row and column of the picture a cell shows, both *)
(* written ("full"), or left out and taken from the cell to its left *)
(* ("short").  The child drew the picture with its corner at <<1, 1>> of *)
(* the area, or higher and to the left of it. *)

Tile == {"full", "short", "none"}
Corner == <<0, -1>>
Truth(y, x) == [row |-> y - Corner[1], col |-> x - Corner[2]]
NoTile == [row |-> -1, col |-> -1]
(* placeholder_cell. *)
PlaceholderCell(y, x, left) ==
  CASE tiles[y][x] = "none" -> NoTile
    [] tiles[y][x] = "full" -> Truth(y, x)
    [] left # NoTile -> [row |-> left.row, col |-> left.col + 1]
    [] OTHER -> [row |-> 0, col |-> 0]
RowTiles(y) ==
  FoldLeft(LAMBDA acc, x : Append(acc, PlaceholderCell(y, x, IF x = 1 THEN NoTile ELSE acc[x - 1])),
           <<>>, [x \in 1..Cols |-> x])

(* struct Accum, and how a cell joins it. *)
NewAccum(y, x, c) == [row |-> y, col |-> x, last_row |-> y, last_col |-> x, cell_row |-> c.row, cell_col |-> c.col]
(* Mutant: a later row that starts further left moves the box alone. *)
JoinBoxOnly(a, y, x, c) ==
  [a EXCEPT !.last_row = Max({@, y}), !.last_col = Max({@, x}), !.row = Min({@, y}), !.col = Min({@, x})]
Join(a, y, x, c) ==
  LET col == Min({a.col, x})
      row == Min({a.row, y})
  IN  [a EXCEPT !.last_row = Max({@, y}), !.last_col = Max({@, x}), !.row = row, !.col = col,
                !.cell_col = IF x < a.col THEN c.col ELSE @,
                !.cell_row = IF y = row /\ x = col THEN c.row ELSE @]
NoAccum == [row |-> 0]
ScanPlaceholders ==
  LET cells == [i \in 1..(Height * Cols) |-> <<((i - 1) \div Cols) + 1, ((i - 1) % Cols) + 1>>]
      rows == [y \in 1..Height |-> RowTiles(y)]
      step(a, p) == LET c == rows[p[1]][p[2]]
                    IN  IF c = NoTile THEN a
                        ELSE IF a = NoAccum THEN NewAccum(p[1], p[2], c) ELSE Join(a, p[1], p[2], c)
  IN  FoldLeft(step, NoAccum, cells)
OriginOf(a) == <<a.row - a.cell_row, a.col - a.cell_col>>

----------------------------------------------------------------------------
(* Direct placements: clip_top and the replay's test of what still shows. *)

ClipTop(p, rows) ==
  IF rows = 0 THEN p
  ELSE LET cut == Min({rows * CellHeight, p.h})
       IN  [p EXCEPT !.y = @ + cut, !.h = @ - cut, !.rows = @ - rows]
(* Mutant: the picture is anchored at the top and not cut. *)
ReplayPlacementWhole(p) ==
  LET clipped == Max({0 - p.row, 0})
  IN  IF p.row >= Height \/ clipped >= p.rows THEN <<>>
      ELSE <<[p EXCEPT !.row = Max({p.row, 0})]>>
ReplayPlacement(p) ==
  LET clipped == Max({0 - p.row, 0})
  IN  IF p.row >= Height \/ clipped >= p.rows THEN <<>>
      ELSE <<[ClipTop(p, clipped) EXCEPT !.row = Max({p.row, 0})]>>
(* The pixel line of the picture at the top of row v of the screen, or -1. *)
Band(ps, v) ==
  IF ps = <<>> THEN -1
  ELSE LET p == ps[1]
       IN  IF v \in p.row..(p.row + p.rows - 1) THEN p.y + (v - p.row) * CellHeight ELSE -1

----------------------------------------------------------------------------
(* The child prints: a new row scrolls the oldest active one into the *)
(* history; a row of the screen is drawn over; a picture is placed. *)
NewRow(row) == Len(buf) < MaxRows /\ buf' = Append(buf, row) /\ UNCHANGED <<tiles, pic>>
Redraw(y, x, c) == buf' = [buf EXCEPT ![BaseY + y][x] = c] /\ UNCHANGED <<tiles, pic>>
PutTile(y, x, t) == tiles' = [tiles EXCEPT ![y][x] = t] /\ UNCHANGED <<buf, pic>>
Place(p) == pic' = p /\ UNCHANGED <<buf, tiles>>

NoTiles == [y \in 1..Height |-> [x \in 1..Cols |-> "none"]]
NoPic == [row |-> 0, rows |-> 0, y |-> 0, h |-> 0]
Fresh == [y \in 1..Height |-> Blank]
ScreenInit == buf = Fresh /\ tiles = NoTiles /\ pic = NoPic
ScreenNext ==
  \/ \E row \in [1..Cols -> Cells] : tiles = NoTiles /\ pic = NoPic /\ NewRow(row)
  \/ \E y \in 1..Height, x \in 1..Cols, c \in Cells : tiles = NoTiles /\ pic = NoPic /\ Redraw(y, x, c)
  \/ \E y \in 1..Height, x \in 1..Cols, t \in Tile : buf = Fresh /\ pic = NoPic /\ PutTile(y, x, t)
  \/ \E p \in Placements : buf = Fresh /\ tiles = NoTiles /\ Place(p)
ScreenSpec == ScreenInit /\ [][ScreenNext]_bvars

----------------------------------------------------------------------------
(* When the text reaches the bottom of the screen's height, or there is no *)
(* history, the terminal that parses the replay has as many rows as the *)
(* source, so the absolute cursor position that follows names the same *)
(* row (vt); and the backgrounds the formatter drops come back cell by *)
(* cell (scan_rows). *)
ReplayLinesUp ==
  /\ LastTextRow >= Height \/ Len(buf) = Height => ParsedRows = Len(buf)
  /\ \A y \in 1..Height :
       ~HasText(ActiveRow(y)) =>
         LET runs == ScanActive.fixups[y]
         IN  \A x \in 1..Cols :
               {runs[i].bg : i \in {k \in 1..Len(runs) : x \in runs[k].x..(runs[k].x + runs[k].len - 1)}}
                 = {ActiveRow(y)[x]} \ {"."}

(* "Pad the missing rows so the client's buffer has as many rows as ours." *)
(* (vt, serialize.rs.) *)
ReplayKeepsRows == ParsedRows = Len(buf)

(* The corner of a picture drawn with placeholders is found wherever parts *)
(* of it were drawn over, as long as each cell that leaves its place out *)
(* has its neighbour (scan_placeholders); a picture whose top has scrolled *)
(* away is replayed with the same line at every row of the screen, when it *)
(* is shown at its own size (clip_top). *)
PicturesStayInPlace ==
  /\ (\A y \in 1..Height, x \in 1..Cols :
        tiles[y][x] = "short" => x > 1 /\ tiles[y][x - 1] # "none") =>
       LET a == ScanPlaceholders IN a = NoAccum \/ OriginOf(a) = Corner
  /\ pic.h = pic.rows * CellHeight =>
       \A v \in 0..(Height - 1) : Band(ReplayPlacement(pic), v) = Band(<<pic>>, v)
----------------------------------------------------------------------------
(* Paging back through a session's history (crates/pty-terminal/src/ *)
(* history.rs): a page is answered with a cursor, the row it stands on *)
(* being tracked by libghostty while new rows are printed and old ones *)
(* pruned between two requests.  Rows are numbered as they are printed. *)

CONSTANTS
  MAX_CURSORS,
  Readers,
  Limits,      \* HistoryRequest::limit
  MaxPrinted,  \* bound: rows printed
  MaxSerial,   \* bound: cursors handed out
  MaxTick      \* bound: the clock; a cursor lives CURSOR_LEASE = 1

ASSUME HistoryAssumption == Limits \subseteq Nat  \* a usize

VARIABLES
  oldest, printed,  \* the retained history: oldest .. printed - 1
  alternate,        \* the alternate screen is shown
  boundaries,       \* History::boundaries: serial -> Boundary
  serial, now,
  reader            \* [Readers -> where it stands]

yvars == <<oldest, printed, alternate, boundaries, serial, now, reader>>
term == <<oldest, printed, alternate>>

Retained == printed - oldest
NoCursor == 0
Idle == [state |-> "idle", cursor |-> NoCursor, from |-> 0, low |-> 0]
(* A tracked reference has no value once its row is gone. *)
HasValue(b) == b.anchor >= oldest
Live == [s \in {t \in DOMAIN boundaries : boundaries[t].expires > now /\ HasValue(boundaries[t])}
           |-> boundaries[s]]

----------------------------------------------------------------------------
Gap == [kind |-> "CursorGap"]
(* Mutant: rows pruned under the reader are not counted. *)
SpanForgetful(bs, cursor, limit) ==
  IF cursor = NoCursor
  THEN [end |-> Retained, pruned |-> 0, start |-> Max({Retained - limit, 0})]
  ELSE LET end == bs[cursor].anchor - oldest
       IN  [end |-> end, pruned |-> 0, start |-> Max({end - limit, 0})]
Span(bs, cursor, limit) ==
  IF cursor = NoCursor
  THEN [end |-> Retained, pruned |-> 0, start |-> Max({Retained - limit, 0})]
  ELSE LET end == bs[cursor].anchor - oldest
       IN  [end |-> end, pruned |-> Max({bs[cursor].owed - end, 0}), start |-> Max({end - limit, 0})]
(* The oldest cursor makes room for a new one. *)
Evicted(bs) ==
  IF Cardinality(DOMAIN bs) < MAX_CURSORS THEN bs
  ELSE [s \in DOMAIN bs \ {Min(DOMAIN bs)} |-> bs[s]]
AddBoundary(bs, sp) ==
  LET kept == Evicted(bs)
      b == [anchor |-> oldest + sp.start, owed |-> sp.start + sp.pruned, expires |-> now + 1]
  IN  [s \in DOMAIN kept \union {serial + 1} |-> IF s = serial + 1 THEN b ELSE kept[s]]
(* History::page: the answer, and the cursor table after it. *)
Page(cursor, limit) ==
  CASE limit = 0 -> [kind |-> "InvalidRequest"]
    [] limit > 0 /\ alternate -> [kind |-> "AlternateScreen"]
    [] OTHER ->
         IF cursor # NoCursor /\ cursor \notin DOMAIN Live THEN Gap
         ELSE LET sp == Span(Live, cursor, limit)
              IN  IF sp.start = 0 /\ sp.pruned > 0 THEN Gap
                  ELSE [kind |-> "Page", sp |-> sp, last |-> sp.start = 0]

Reads(r, limit) ==
  LET a == Page(reader[r].cursor, limit)
      first == reader[r].state = "idle"
  IN  /\ reader[r].state \in {"idle", "reading"} /\ serial < MaxSerial
      /\ reader' = [reader EXCEPT ![r] =
           CASE a.kind = "CursorGap" -> [@ EXCEPT !.state = "gap"]
             [] a.kind = "Page" ->
                  [state |-> IF a.last THEN "done" ELSE "reading",
                   cursor |-> IF a.last THEN NoCursor ELSE serial + 1,
                   from |-> IF first THEN oldest ELSE @.from,
                   low |-> oldest + a.sp.start]
             [] OTHER -> @]
      /\ boundaries' = IF a.kind \in {"InvalidRequest", "AlternateScreen"} THEN boundaries
                       ELSE IF a.kind = "Page" /\ ~a.last THEN AddBoundary(Live, a.sp) ELSE Live
      /\ serial' = IF a.kind = "Page" /\ ~a.last THEN serial + 1 ELSE serial
      /\ UNCHANGED <<term, now>>
StartsOver(r) ==
  /\ reader[r].state \in {"gap", "done"}
  /\ reader' = [reader EXCEPT ![r] = Idle]
  /\ UNCHANGED <<term, boundaries, serial, now>>

----------------------------------------------------------------------------
(* The child prints, libghostty prunes its oldest page, and what makes *)
(* every cursor void: a reset, ED 3, a resize (History::invalidate). *)
Prints ==
  /\ printed < MaxPrinted
  /\ printed' = printed + 1
  /\ UNCHANGED <<oldest, alternate, boundaries, serial, now, reader>>
Prunes ==
  /\ Retained > 0
  /\ oldest' = oldest + 1
  /\ UNCHANGED <<printed, alternate, boundaries, serial, now, reader>>
Invalidates ==
  /\ oldest' = printed
  /\ boundaries' = <<>>
  /\ UNCHANGED <<printed, alternate, serial, now, reader>>
Switches == alternate' = ~alternate /\ UNCHANGED <<oldest, printed, boundaries, serial, now, reader>>
Ticks == now < MaxTick /\ now' = now + 1 /\ UNCHANGED <<term, boundaries, serial, reader>>

HistoryInit ==
  /\ oldest = 0 /\ printed = 0 /\ alternate = FALSE
  /\ boundaries = <<>> /\ serial = 0 /\ now = 0
  /\ reader = [r \in Readers |-> Idle]
HistoryNext ==
  \/ \E r \in Readers : (\E l \in Limits : Reads(r, l)) \/ StartsOver(r)
  \/ Prints \/ Prunes \/ Invalidates \/ Switches \/ Ticks
HistorySpec == HistoryInit /\ [][HistoryNext]_yvars

----------------------------------------------------------------------------
(* Paging back never skips a row without saying so: each page ends where *)
(* the one before it began, and a reader that is told there is nothing *)
(* older has every row that was retained when it began, although rows were *)
(* printed and pruned in between (History::page, owed and pruned). *)
PagingSkipsNothing ==
  \A r \in Readers :
    /\ reader[r].state = "reading" /\ reader[r].cursor \in DOMAIN boundaries =>
         boundaries[reader[r].cursor].anchor = reader[r].low
    /\ reader[r].state = "done" => reader[r].low = reader[r].from
=============================================================================
