------------------------------- MODULE Picker -------------------------------
(***************************************************************************)
(* pty with no command: the picker (crates/pty/src/interactive) and the    *)
(* loop it runs in (crates/pty-tui/src/app.rs).  A reader thread polls the *)
(* terminal and sends keys through a channel; the loop draws, receives and *)
(* dispatches.  To attach, the picker pauses the reader, lends the         *)
(* terminal to an attach client in the same process, and resumes.  Other   *)
(* processes start and end sessions meanwhile.                             *)
(***************************************************************************)
EXTENDS Integers, Sequences, FiniteSets, SequencesExt
W == INSTANCE Widgets

CONSTANTS
  Names,       \* sessions other processes start and end
  NewName,       \* the session the create row starts
  Keys,        \* what the user types
  Viewports,   \* the list heights the terminal can have
  MaxKeys,     \* bound: keys typed
  MaxChanges   \* bound: changes other processes make

VARIABLES
  world,     \* the registry: [names -> status]
  all,       \* Picker::all: the registry as last read
  shown,     \* Picker::shown: names in order, then the create row
  filter, region, notice,
  theme, saved,  \* the theme shown and the one in the theme file
  ui,        \* where the loop is
  target,    \* the session being attached
  dirty, exit, term, height,
  reader, paused, stop,  \* the reader thread and what it shares
  input,     \* keys in the terminal's input queue
  channel,   \* AppEvents
  frame,     \* the rows last drawn, and the one marked
  aim,       \* the row the user's last key left selected
  allowed,   \* ghost: reads still to come from a reader told to pause while it read
  typed, changes

loopvars == <<ui, target, dirty, exit, term, height>>
listvars == <<all, shown, filter, region, notice, aim>>
readvars == <<reader, paused, stop, channel>>
pvars == <<world, listvars, theme, saved, loopvars, readvars, input, frame, allowed, typed, changes>>

Sessions == Names \union {NewName}
Create == "+"
NThemes == 2
(* The terminal: which modes this process has switched on. *)
Own == [alt |-> TRUE, raw |-> TRUE, mouse |-> TRUE, paste |-> TRUE, kitty |-> 1]
Given == [alt |-> FALSE, raw |-> FALSE, mouse |-> FALSE, paste |-> FALSE, kitty |-> 0]
EnterTerminal(t) == [alt |-> TRUE, raw |-> TRUE, mouse |-> TRUE, paste |-> TRUE, kitty |-> t.kitty + 1]
LeaveTerminal(t) == [alt |-> FALSE, raw |-> FALSE, mouse |-> FALSE, paste |-> FALSE, kitty |-> t.kitty - 1]

----------------------------------------------------------------------------
(* row::score: running sessions first, then matches in a name, then in the *)
(* command or directory; -1 leaves the row out.  Only the first of Names *)
(* matches by name. *)
RUNNING_BONUS == 4
NAME_BONUS == 2
ByName(n) == n = "a"
Score(status, n, query) ==
  LET running == IF status = "running" THEN RUNNING_BONUS ELSE 0
  IN  CASE query = "" -> running
        [] query = "f" -> running + 1 + (IF ByName(n) THEN NAME_BONUS ELSE 0)
        [] OTHER -> -1
Rank(n) == CASE n = "a" -> 1 [] n = "b" -> 2 [] OTHER -> 3
Before(reg, query, m, n) ==
  \/ Score(reg[m], m, query) > Score(reg[n], n, query)
  \/ Score(reg[m], m, query) = Score(reg[n], n, query) /\ Rank(m) < Rank(n)
RebuildRows(reg, query) ==
  Append(SetToSortSeq({n \in DOMAIN reg : reg[n] # "absent" /\ Score(reg[n], n, query) >= 0},
                      LAMBDA m, n : Before(reg, query, m, n)), Create)
RowAt(rows, r) == rows[r.selected + 1]
Where(rows, n) == (CHOOSE i \in DOMAIN rows : rows[i] = n) - 1
(* Mutant: the selection stays on its line, whatever the refresh put there. *)
RegionByLine(rows, r, name) == W!UpdateRegion(r, Len(rows), r.viewport)
(* The selection follows the session it was on. *)
RegionByName(rows, r, name) ==
  LET moved == IF name # Create /\ name \in Range(rows) THEN [r EXCEPT !.selected = Where(rows, name)] ELSE r
  IN  W!UpdateRegion(moved, Len(rows), r.viewport)
Lists(rows, r) == shown' = rows /\ region' = r
Refresh(rows) ==
  /\ all' = world
  /\ Lists(rows, RegionByName(rows, region, RowAt(shown, region)))
(* What the user aimed at stays the aim while it is listed. *)
Refreshes ==
  /\ Refresh(RebuildRows(world, filter))
  /\ aim' = IF aim \in Range(shown') /\ aim # Create THEN aim ELSE RowAt(shown', region')
  /\ UNCHANGED filter
SetFilter(text) ==
  LET rows == RebuildRows(all, text)
  IN  /\ filter' = text
      /\ Lists(rows, W!UpdateRegion(region, Len(rows), region.viewport))
      /\ aim' = RowAt(shown', region')
      /\ UNCHANGED all
Moves(r) == region' = r /\ aim' = RowAt(shown, r) /\ UNCHANGED <<all, shown, filter>>

----------------------------------------------------------------------------
LoadTheme == IF saved \in 0..(NThemes - 1) THEN saved ELSE 0
PickerInit ==
  /\ world \in [Sessions -> {"absent", "running", "exited"}] /\ world[NewName] = "absent"
  /\ saved \in {-1, 1} /\ theme = LoadTheme
  /\ all = world /\ filter = "" /\ shown = RebuildRows(world, "")
  /\ \E new \in BOOLEAN :   \* --preselect-new
       region = W!EnsureVisible([W!NewRegion(Len(shown), 10) EXCEPT !.selected = IF new THEN Len(shown) - 1 ELSE 0])
  /\ notice = FALSE /\ aim = RowAt(shown, region)
  /\ ui = "loop" /\ target = "" /\ dirty = TRUE /\ exit = -1 /\ term = EnterTerminal(Given)
  /\ height \in Viewports
  /\ reader = "top" /\ paused = FALSE /\ stop = FALSE
  /\ input = <<>> /\ channel = <<>> /\ frame = [rows |-> <<>>, marked |-> ""]
  /\ allowed = 0 /\ typed = 0 /\ changes = 0

----------------------------------------------------------------------------
(* The reader thread. *)
ReaderTop ==
  /\ reader = "top"
  /\ reader' = IF stop THEN "ended" ELSE IF paused THEN "waiting" ELSE "poll"
  /\ UNCHANGED <<paused, stop, channel, input, allowed>>
ReaderWakes ==
  /\ reader = "waiting" /\ (~paused \/ stop)
  /\ reader' = IF stop THEN "ended" ELSE "poll"
  /\ UNCHANGED <<paused, stop, channel, input, allowed>>
(* poll answers with input, or after 100 ms without. *)
ReaderPolls ==
  /\ reader = "poll"
  /\ reader' = IF input # <<>> THEN "ready" ELSE "top"
  /\ UNCHANGED <<paused, stop, channel, input, allowed>>
(* Mutant: the flag is not looked at again after the wait for input. *)
ReaderChecksOnce ==
  /\ reader = "ready"
  /\ reader' = "read"
  /\ UNCHANGED <<paused, stop, channel, input, allowed>>
ReaderChecks ==
  /\ reader = "ready"
  /\ reader' = IF paused THEN "top" ELSE "read"
  /\ UNCHANGED <<paused, stop, channel, input, allowed>>
ReaderTakes ==
  /\ reader = "read" /\ input # <<>>
  /\ channel' = channel \o [i \in DOMAIN input |-> [kind |-> "key", key |-> input[i]]]
  /\ input' = <<>> /\ reader' = "top"
  /\ allowed' = IF paused THEN allowed - 1 ELSE allowed
  /\ UNCHANGED <<paused, stop>>
(* A resize is noticed between two polls. *)
ReaderResizes(h) ==
  /\ reader = "poll" /\ height # h /\ changes < MaxChanges
  /\ height' = h /\ changes' = changes + 1
  /\ channel' = Append(channel, [kind |-> "resize", key |-> ""])
  /\ UNCHANGED <<ui, target, dirty, exit, term, reader, paused, stop, input, allowed, world, listvars, theme, saved, frame, typed>>

----------------------------------------------------------------------------
(* The loop: draw when dirty, leave when told to, then one event or a tick *)
(* and whatever else the channel holds. *)
Resting == UNCHANGED <<world, theme, saved, target, exit, term, height, readvars, input, allowed, typed, changes>>
RenderList ==
  LET r == W!UpdateRegion(region, Len(shown), height)
  IN  /\ region' = r
      /\ frame' = [rows |-> W!VisibleSlice(r, shown), marked |-> RowAt(shown, r)]
Draws ==
  /\ ui = "loop" /\ dirty /\ dirty' = FALSE
  /\ RenderList
  /\ UNCHANGED <<all, shown, filter, notice, aim, ui>> /\ Resting
Leaves ==
  /\ ui = "loop" /\ ~dirty /\ exit >= 0
  /\ ui' = "ended" /\ stop' = TRUE /\ term' = LeaveTerminal(term)
  /\ UNCHANGED <<world, theme, saved, listvars, target, dirty, exit, height, reader, paused, channel, input, frame, allowed, typed, changes>>
OnTick ==
  /\ ui = "loop" /\ ~dirty /\ exit < 0
  /\ Refreshes /\ dirty' = TRUE /\ ui' = "first"
  /\ UNCHANGED <<notice, frame>> /\ Resting
Drained ==
  /\ \/ ui \in {"first", "drain"} /\ channel = <<>>
     \/ ui = "drain" /\ exit >= 0
  /\ ui' = "loop" /\ dirty' = TRUE
  /\ UNCHANGED <<listvars, frame>> /\ Resting

(* The event after the one that woke the loop is dispatched even when that *)
(* one was the order to leave; the draining looks at it only afterwards. *)
Receives(kind) ==
  /\ \/ ui = "loop" /\ ~dirty /\ exit < 0
     \/ ui = "first"
     \/ ui = "drain" /\ exit < 0
  /\ channel # <<>> /\ Head(channel).kind = kind
Onward == IF ui = "loop" THEN "first" ELSE "drain"
OnResize ==
  /\ Receives("resize") /\ channel' = Tail(channel) /\ ui' = Onward
  /\ UNCHANGED <<world, theme, saved, listvars, target, dirty, exit, term, height, reader, paused, stop, input, frame, allowed, typed, changes>>
(* A key that moves, edits the filter, changes the theme or quits. *)
Edits(k) ==
  CASE k = "up" -> Moves(W!ScrollUp(region))
    [] k = "down" -> Moves(W!ScrollDown(region))
    [] k = "pageup" -> Moves(W!PageUp(region))
    [] k = "pagedown" -> Moves(W!PageDown(region))
    [] k = "escape" /\ filter # "" -> SetFilter("")
    [] k = "backspace" /\ filter # "" -> SetFilter("")
    [] k = "f" /\ filter = "" -> SetFilter("f")
    [] OTHER -> UNCHANGED <<all, shown, filter, region, aim>>
Quits(k) == CASE k = "ctrl-c" -> 130 [] k \in {"escape", "q"} /\ filter = "" -> 0 [] OTHER -> -1
CycleTheme(k) == IF k = "ctrl-g" THEN (theme + 1) % NThemes ELSE theme
HandleKey(k) ==
  /\ Receives("key") /\ Head(channel).key = k /\ k # "return"
  /\ channel' = Tail(channel) /\ ui' = Onward /\ notice' = FALSE /\ dirty' = TRUE
  /\ Edits(k) /\ exit' = IF Quits(k) >= 0 THEN Quits(k) ELSE exit
  /\ theme' = CycleTheme(k) /\ saved' = IF k = "ctrl-g" THEN theme' ELSE saved
  /\ UNCHANGED <<world, target, term, height, reader, paused, stop, input, frame, allowed, typed, changes>>

(* Return acts on the selected row: create, restart first if it stopped, *)
(* attach.  AppCtl::pause tells the reader, waits, gives the terminal up. *)
Pauses(name) ==
  /\ target' = name /\ ui' = "pausing" /\ paused' = TRUE
  /\ allowed' = IF reader = "read" THEN 1 ELSE 0
Activates(ok) ==
  LET row == RowAt(shown, region)
      name == IF row = Create THEN NewName ELSE row
      starts == row = Create \/ all[row] # "running"
  IN  /\ Receives("key") /\ Head(channel).key = "return" /\ channel' = Tail(channel)
      /\ ok /\ row = Create => world[NewName] = "absent"   \* bound: one generated id
      /\ ~starts => ok
      /\ ok /\ starts /\ row # Create => world[row] = all[row]   \* metadata_matches_observation
      /\ IF ok THEN Pauses(name) /\ notice' = FALSE
         ELSE UNCHANGED <<target, paused, allowed>> /\ ui' = Onward /\ notice' = TRUE
      /\ world' = IF ok /\ starts THEN [world EXCEPT ![name] = "running"] ELSE world
      /\ IF ok /\ row = Create
         THEN LET rows == RebuildRows(world', filter)
              IN  all' = world' /\ Lists(rows, RegionByName(rows, region, Create)) /\ aim' = RowAt(shown', region')
         ELSE UNCHANGED <<all, shown, region, aim>>
      /\ dirty' = TRUE
      /\ UNCHANGED <<filter, theme, saved, exit, term, height, reader, stop, input, frame, typed, changes>>
(* pause sleeps 5 ms and holds nothing: a reader that had looked at the *)
(* flag before may still be in its read. *)
Attaches ==
  /\ ui = "pausing"
  /\ ui' = "attached" /\ term' = LeaveTerminal(term)
  /\ UNCHANGED <<world, listvars, theme, saved, target, dirty, exit, height, readvars, input, frame, allowed, typed, changes>>
SessionReads ==
  /\ ui = "attached" /\ input # <<>>
  /\ input' = Tail(input)
  /\ UNCHANGED <<world, listvars, theme, saved, loopvars, readvars, frame, allowed, typed, changes>>
(* Detached, or the session ended: read the registry again, take the *)
(* terminal back, let the reader go on. *)
Resumes ==
  /\ ui = "attached"
  /\ Refreshes /\ ui' = "drain" /\ target' = "" /\ term' = EnterTerminal(term) /\ paused' = FALSE /\ dirty' = TRUE
  /\ UNCHANGED <<world, notice, theme, saved, exit, height, reader, stop, channel, input, frame, allowed, typed, changes>>

----------------------------------------------------------------------------
TypesKey(k) ==
  /\ typed < MaxKeys /\ ui # "ended"
  /\ typed' = typed + 1 /\ input' = Append(input, k)
  /\ UNCHANGED <<world, listvars, theme, saved, loopvars, readvars, frame, allowed, changes>>
(* Another process starts, ends or removes a session. *)
SessionChanges(n, s) ==
  /\ changes < MaxChanges /\ world[n] # s /\ (n = NewName => world[n] # "absent")
  /\ changes' = changes + 1 /\ world' = [world EXCEPT ![n] = s]
  /\ UNCHANGED <<listvars, theme, saved, loopvars, readvars, input, frame, allowed, typed>>

ReaderNext ==
  \/ /\ (ReaderTop \/ ReaderWakes \/ ReaderPolls \/ ReaderChecks \/ ReaderTakes)
     /\ UNCHANGED <<world, listvars, theme, saved, loopvars, frame, typed, changes>>
  \/ \E h \in Viewports : ReaderResizes(h)
LoopNext ==
  \/ Draws \/ Leaves \/ OnTick \/ Drained \/ OnResize \/ Attaches \/ SessionReads \/ Resumes
  \/ \E k \in Keys : HandleKey(k)
  \/ \E ok \in BOOLEAN : Activates(ok)
PickerNext ==
  \/ ReaderNext \/ LoopNext
  \/ \E k \in Keys : TypesKey(k)
  \/ \E n \in Sessions, s \in {"absent", "running", "exited"} : SessionChanges(n, s)
PickerSpec == PickerInit /\ [][PickerNext]_pvars

----------------------------------------------------------------------------
PickerTypeOK ==
  /\ region.selected \in 0..(Len(shown) - 1) /\ region.offset <= region.selected
  /\ ui \in {"loop", "first", "drain", "pausing", "attached", "ended"}
  /\ reader \in {"top", "waiting", "poll", "ready", "read", "ended"}
(* Refreshing the list while other processes come and go never moves the *)
(* selection off the session the user put it on while that session is *)
(* listed (Picker::refresh), and the frame drawn shows the marked row *)
(* (render_list). *)
SelectionIsKept ==
  /\ aim \in Range(shown) => RowAt(shown, region) = aim
  /\ frame.rows # <<>> => frame.marked \in Range(frame.rows)
(* A reader told to pause makes no new read: what it takes from a session *)
(* that has the terminal is at most the one read under way when it was *)
(* told (AppCtl::pause, reader_thread); and whoever has the terminal has *)
(* the modes it set: the session and the shell after pty get it as it was *)
(* (enter_terminal, leave_terminal). *)
TerminalIsLent ==
  /\ allowed >= 0
  /\ term = IF ui \in {"attached", "ended"} THEN Given ELSE Own
(* False: "stop reading stdin so another in-process client can use them" *)
(* (app.rs:274). A reader past its check takes a key typed to the session. *)
StdinIsLent == [][ui = "attached" /\ input' # input => Len(channel') = Len(channel)]_pvars
=============================================================================
