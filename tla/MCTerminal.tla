-------------------------- MODULE MCTerminal --------------------------
(* What lies between a child's bytes and a screen: keys, escape sequences, *)
(* the terminal and its replay, history, packets and widgets, each looked *)
(* at by itself in one run. *)
EXTENDS KeyInput, TerminalActor, ScreenReplay, WireProtocol, WidgetUse

CONSTANT Parts  \* the components this run looks at, one at a time

VARIABLES part

vars == <<part, keyvars, ovars, tvars, bvars, yvars, wvars, uvars>>

(* The parsed output a child can produce: text, resets, queries, keyboard *)
(* modes, metadata, and each mode alone or together with a screen switch. *)
MCTokens ==
  {Text("x"), Ris, Query("da"), Push(1), Pop(0), Pop(2),
   [k |-> "shape", value |-> "bar"], [k |-> "color", value |-> "red"]}
  \union {Dec(<<m>>, s) : m \in Flags \union {"alt"}, s \in BOOLEAN}
  \union {Dec(<<"alt", "enhanced_paste">>, s) : s \in BOOLEAN}
(* Pictures that begin above, on and below the first row of the screen. *)
MCPlacements == [row : -3..2, rows : 1..3, y : {0, 5}, h : {2, 4, 6}]

(* A component that is not looked at has no state. *)
NoKeys == typed = 0 /\ left = 0 /\ spec = 0
NoScanner == sc = 0 /\ raw = 0 /\ out = 0 /\ input = 0
NoActor == act = 0 /\ told = 0 /\ step = 0
NoScreen == buf = 0 /\ tiles = 0 /\ pic = 0
NoHistory == oldest = 0 /\ printed = 0 /\ alternate = 0 /\ boundaries = 0
  /\ serial = 0 /\ now = 0 /\ reader = 0
NoWire == sent = 0 /\ wire = 0 /\ buffer = 0 /\ got = 0 /\ failed = 0
NoWidgets == kind = 0 /\ w = 0 /\ past = 0

Init ==
  /\ part \in Parts
  /\ IF part = "keys" THEN KeyInit ELSE NoKeys
  /\ IF part = "scanner" THEN ScannerInit ELSE NoScanner
  /\ IF part = "actor" THEN ActorInit ELSE NoActor
  /\ IF part = "screen" THEN ScreenInit ELSE NoScreen
  /\ IF part = "history" THEN HistoryInit ELSE NoHistory
  /\ IF part = "wire" THEN WireInit ELSE NoWire
  /\ IF part = "widgets" THEN UseInit ELSE NoWidgets

KeysMoves ==
  part = "keys" /\ KeyNext /\ UNCHANGED <<part, ovars, tvars, bvars, yvars,
    wvars, uvars>>
ScannerMoves ==
  part = "scanner" /\ ScannerNext /\ UNCHANGED <<part, keyvars, tvars, bvars,
    yvars, wvars, uvars>>
ActorMoves ==
  part = "actor" /\ ActorNext /\ UNCHANGED <<part, keyvars, ovars, bvars,
    yvars, wvars, uvars>>
ScreenMoves ==
  part = "screen" /\ ScreenNext /\ UNCHANGED <<part, keyvars, ovars, tvars,
    yvars, wvars, uvars>>
HistoryMoves ==
  part = "history" /\ HistoryNext /\ UNCHANGED <<part, keyvars, ovars, tvars,
    bvars, wvars, uvars>>
WireMoves ==
  part = "wire" /\ WireNext /\ UNCHANGED <<part, keyvars, ovars, tvars, bvars,
    yvars, uvars>>
WidgetsMoves ==
  part = "widgets" /\ UseNext /\ UNCHANGED <<part, keyvars, ovars, tvars,
    bvars, yvars, wvars>>

Next == KeysMoves \/ ScannerMoves \/ ActorMoves \/ ScreenMoves \/ HistoryMoves
        \/ WireMoves \/ WidgetsMoves

Spec == Init /\ [][Next]_vars
----------------------------------------------------------------------------
(* keys.rs, input.rs (twice), strip.rs, protocol.rs: a key that is named, *)
(* encoded and parsed again is the same key to both parsers, but for ctrl+i *)
(* and ctrl+m; the scanner's tokens are the bytes it was fed, however they *)
(* were cut; messages survive every way of cutting the stream of packets, *)
(* and a packet that declares too great a length ends it. *)
BytesAreUnderstood ==
  /\ part = "keys" => KeyRoundTrip /\ ParsersAgree
  /\ part = "scanner" => TokensReproduceInput
  /\ part = "wire" => FramesSurviveCuts

(* actor.rs: the last paste-mode event told agrees with the terminal's mode, *)
(* its graphics limit and cell metrics with the ones that were set since the *)
(* child's last reset, and a replay of both screens loses no output, across *)
(* resets, screen switches and resizes. *)
(* serialize.rs, graphics.rs: rows line up with the placeholder cells on *)
(* them and pictures stay where they were. *)
ReplayIsFaithful ==
  /\ part = "actor" => PasteModeIsTold /\ GraphicsLimitAgrees /\ ReplayLosesNothing
  /\ part = "screen" => ReplayLinesUp /\ PicturesStayInPlace

(* history.rs: pages read with a cursor skip no retained line and repeat *)
(* none, while output is printed, trimmed and cursors are evicted. *)
HistoryIsWhole == part = "history" => PagingSkipsNothing

(* pty-tui widgets: the selection stays on screen, text, dates and rows *)
(* stay well formed under every edit, and a guard disposes of exactly what *)
(* it registered. *)
WidgetsAreRight ==
  part = "widgets" => SelectionIsOnScreen /\ WidgetsComputeRight /\ FormEditsFocused /\ DisposalIsExact
============================================================================
