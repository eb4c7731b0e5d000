---------------------------- MODULE TerminalActor ----------------------------
(***************************************************************************)
(* OutputScanner (crates/pty-terminal/src/strip.rs): the child's output in *)
(* tokens, so that the terminal's questions are recognised however the pty *)
(* reads cut them, and the limit on what is held back.  Also the request   *)
(* of an enhanced paste read (crates/pty-terminal/src/enhanced_paste.rs).  *)
(* A byte is named by what it means to the scanner; the digits are         *)
(* themselves.                                                             *)
(*                                                                         *)
(* TerminalActor (crates/pty-terminal/src/actor.rs) and the replay it      *)
(* serializes for a client that attaches late (serialize.rs).  The child's *)
(* output comes as the scanner's tokens.  libghostty's Terminal is         *)
(* external: it keeps the modes it knows, the two screens, the image       *)
(* storage limit and the cell metrics, a screen here being the last text   *)
(* printed on it, whatever the grid.                                       *)
(*                                                                         *)
(* A replay is a sequence of the same tokens, so that "what a late client  *)
(* sees" is what a fresh actor becomes when it is written the replay.      *)
(***************************************************************************)
EXTENDS Integers, Sequences, FiniteSets, SequencesExt, FiniteSetsExt

CONSTANTS
  Bytes,      \* what the child prints to the scanner
  MAX_CSI, MAX_OSC, MAX_METADATA,
  MaxInput,     \* bound: bytes printed
  Flags,        \* the DEC modes the child sets, of AllFlags
  Tokens,       \* what the child prints
  Chunks,       \* bound: tokens in one pty read
  MaxKitty,     \* bound: depth of a kitty stack
  MaxStep       \* bound: writes and calls

VARIABLES
  sc,       \* struct OutputScanner
  raw,      \* feed's raw bytes not yet in a token
  out,      \* the tokens so far
  input,    \* what was fed
  act,      \* struct TerminalActor
  told,     \* the last EnhancedPasteMode event
  step

ovars == <<sc, raw, out, input>>
tvars == <<act, told, step>>

Digits == {"0", "4", "5", "6"}
PrivateMarks == {"<", "=", ">", "?"}
Intermediates == {" ", "$"}
Finals == {"c", "n", "p", "q", "m", "u", "t", "h", "bslash", "[", "]"}
Cancels == {"can"}

Tok(k, bytes) == [k |-> k, bytes |-> bytes]
(* Token::raw. *)
Raws(ts) == FlattenSeq([i \in 1..Len(ts) |-> ts[i].bytes])

----------------------------------------------------------------------------
(* What a CSI sequence says. *)

DigitValue(b) == CASE b = "0" -> 0 [] b = "4" -> 4 [] b = "5" -> 5 [] OTHER -> 6
ParseNumber(s) == FoldLeft(LAMBDA v, b : Min({v * 10 + DigitValue(b), 65535}), 0,
                           SelectSeq(s, LAMBDA b : b \in Digits))
SplitAt(s, b) ==
  LET cuts == <<0>> \o SetToSortSeq({i \in 1..Len(s) : s[i] = b}, <) \o <<Len(s) + 1>>
  IN  [i \in 1..(Len(cuts) - 1) |-> SubSeq(s, cuts[i] + 1, cuts[i + 1] - 1)]
(* parse_csi: a private prefix, parameters up to the first intermediate, *)
(* sub-parameters dropped. *)
ParseCsi(seq) ==
  LET body == SubSeq(seq, 3, Len(seq) - 1)
      prefix == IF body # <<>> /\ body[1] \in PrivateMarks THEN body[1] ELSE "none"
      rest == IF prefix = "none" THEN body ELSE Tail(body)
      inter == Min({i \in 1..Len(rest) : rest[i] \in Intermediates} \union {Len(rest) + 1})
      params == SubSeq(rest, 1, inter - 1)
  IN  [prefix |-> prefix, inter |-> SubSeq(rest, inter, Len(rest)), final |-> Last(seq),
       params |-> IF params = <<>> THEN <<>>
                  ELSE LET parts == SplitAt(params, ";")
                       IN  [i \in 1..Len(parts) |-> ParseNumber(SplitAt(parts[i], ":")[1])]]

PlainCsi(c, final, prefix) == c.final = final /\ c.prefix = prefix /\ c.inter = <<>>
IsDa1Query(c) == PlainCsi(c, "c", "none") /\ (c.params = <<>> \/ c.params[1] = 0)
IsDa2Query(c) == PlainCsi(c, "c", ">")
IsDsrQuery(c) == PlainCsi(c, "n", "none") /\ c.params = <<6>>
IsXtversionQuery(c) == PlainCsi(c, "q", ">")
SizeQuery(c) == PlainCsi(c, "t", "none") /\ c.params \in {<<14>>, <<16>>, <<18>>, <<19>>}
ModeQuery(c) == c.final = "p" /\ c.prefix = "?" /\ c.inter = <<"$">>
(* is_stripped_query. *)
IsStrippedQuery(c) ==
  \/ PlainCsi(c, "m", "?") /\ c.params = <<4>>
  \/ IsDa1Query(c) \/ IsDa2Query(c) \/ IsDsrQuery(c) \/ IsXtversionQuery(c)
  \/ PlainCsi(c, "n", "none") /\ c.params = <<5>>
  \/ ModeQuery(c) /\ c.params # <<>>
  \/ PlainCsi(c, "u", "?") /\ c.params = <<>>
  \/ SizeQuery(c)

(* Osc::split and color_query: 10 and 11 alone, 4 with its list of *)
(* indexes; here one digit stands for each id. *)
Payload(seq, st) == SubSeq(seq, 3, Len(seq) - st)
ColorQuery(p) ==
  \/ p \in {<<"0", ";", "?">>, <<"5", ";", "?">>}
  \/ Len(p) > 2 /\ p[1] = "4" /\ p[2] = ";" /\ "?" \in ToSet(p)

(* strip_terminal_queries' match. *)
Stripped(t) ==
  \/ t.k = "Csi" /\ IsStrippedQuery(ParseCsi(t.bytes))
  \/ t.k = "Osc" /\ ColorQuery(Payload(t.bytes, IF Last(t.bytes) = "bel" THEN 1 ELSE 2))

----------------------------------------------------------------------------
(* The scanner, byte by byte. *)

OscLimit(seq) == IF Len(seq) > 3 /\ seq[3] = "6" THEN MAX_METADATA ELSE MAX_OSC

InState(st, seq) == [state |-> st, seq |-> seq]
(* Nothing but the scanner's state changes. *)
Hold(st, seq) == sc' = InState(st, seq) /\ UNCHANGED <<raw, out>>
(* The bytes turn out to be no sequence. *)
GiveUp(bytes, st, seq) == sc' = InState(st, seq) /\ raw' = raw \o bytes /\ UNCHANGED out
(* flush_raw, then the token. *)
FlushRaw(o) == IF raw = <<>> THEN o ELSE Append(o, Tok("Raw", raw))
Emit(k, bytes) == sc' = InState("Ground", <<>>) /\ raw' = <<>> /\ out' = Append(FlushRaw(out), Tok(k, bytes))

GroundByte(b) ==
  IF b = "esc" THEN Hold("Esc", <<"esc">>) ELSE GiveUp(<<b>>, "Ground", <<>>)
EscByte(seq, b) ==
  CASE b = "c" -> Emit("Ris", Append(seq, b))
    [] b = "[" -> Hold("Csi", Append(seq, b))
    [] b = "]" -> Hold("Osc", Append(seq, b))
    [] b = "esc" -> GiveUp(seq, "Esc", <<b>>)
    [] OTHER -> GiveUp(Append(seq, b), "Ground", <<>>)
(* Mutant: a sequence is only given up once it is longer than the limit by *)
(* a byte. *)
CsiByteLate(b) ==
  LET seq == Append(sc.seq, b)
  IN  CASE b \in Finals -> Emit("Csi", seq)
        [] b = "esc" -> GiveUp(sc.seq, "Esc", <<b>>)
        [] b \in Cancels -> GiveUp(seq, "Ground", <<>>)
        [] Len(sc.seq) > MAX_CSI -> GiveUp(seq, "Ground", <<>>)
        [] OTHER -> Hold("Csi", seq)
(* Mutant: an escape inside a sequence is one more of its bytes. *)
CsiByteBlind(b) ==
  LET seq == Append(sc.seq, b)
  IN  CASE b \in Finals -> Emit("Csi", seq)
        [] b \in Cancels -> GiveUp(seq, "Ground", <<>>)
        [] Len(seq) > MAX_CSI -> GiveUp(seq, "Ground", <<>>)
        [] OTHER -> Hold("Csi", seq)
CsiByte(b) ==
  LET seq == Append(sc.seq, b)
  IN  CASE b \in Finals -> Emit("Csi", seq)
        [] b = "esc" -> GiveUp(sc.seq, "Esc", <<b>>)
        [] b \in Cancels -> GiveUp(seq, "Ground", <<>>)
        [] Len(seq) > MAX_CSI -> GiveUp(seq, "Ground", <<>>)
        [] OTHER -> Hold("Csi", seq)
OscByte(b) ==
  LET seq == Append(sc.seq, b)
  IN  CASE b = "bel" -> Emit("Osc", seq)
        [] b = "esc" -> Hold("OscEsc", seq)
        [] b \in Cancels -> GiveUp(seq, "Ground", <<>>)
        [] Len(seq) > OscLimit(seq) + 2 -> GiveUp(seq, "Ground", <<>>)
        [] OTHER -> Hold("Osc", seq)
(* An escape that does not end the string starts over: what came before it *)
(* is raw, and the byte is read again after the escape. *)
OscEscByte(b) ==
  IF b = "bslash" THEN Emit("Osc", Append(sc.seq, b))
  ELSE LET before == Front(sc.seq)
       IN  CASE b = "c" -> /\ sc' = InState("Ground", <<>>) /\ raw' = <<>>
                           /\ out' = Append(Append(out, Tok("Raw", raw \o before)), Tok("Ris", <<"esc", "c">>))
             [] b \in {"[", "]"} ->
                  GiveUp(before, IF b = "[" THEN "Csi" ELSE "Osc", <<"esc", b>>)
             [] b = "esc" -> GiveUp(Append(before, "esc"), "Esc", <<b>>)
             [] OTHER -> GiveUp(before \o <<"esc", b>>, "Ground", <<>>)

FeedByte(b) ==
  /\ Len(input) < MaxInput
  /\ input' = Append(input, b)
  /\ CASE sc.state = "Ground" -> GroundByte(b)
       [] sc.state = "Esc" -> EscByte(sc.seq, b)
       [] sc.state = "Csi" -> CsiByte(b)
       [] sc.state = "Osc" -> OscByte(b)
       [] OTHER -> OscEscByte(b)
(* The end of a read: feed returns what it has. *)
EndFeed ==
  /\ raw # <<>>
  /\ out' = FlushRaw(out)
  /\ raw' = <<>>
  /\ UNCHANGED <<sc, input>>

ScannerInit == sc = InState("Ground", <<>>) /\ raw = <<>> /\ out = <<>> /\ input = <<>>
ScannerNext == (\E b \in Bytes : FeedByte(b)) \/ EndFeed
ScannerSpec == ScannerInit /\ [][ScannerNext]_ovars

----------------------------------------------------------------------------
(* No byte of the output is lost, added or moved by the tokens, and what *)
(* is held back stays within the limits the module's comment gives, over *)
(* every way a sequence can be cut, cancelled or begun again (feed). *)
TokensReproduceInput ==
  /\ Raws(out) \o raw \o sc.seq = input
  /\ sc.state = "Csi" => Len(sc.seq) <= MAX_CSI
  /\ sc.state \in {"Osc", "OscEsc"} => Len(sc.seq) <= OscLimit(sc.seq) + 3

(* A question the child asks never passes as raw output: no run of raw *)
(* bytes, however many reads it came in, holds a sequence short enough to *)
(* be recognised (feed). *)
Marks == FlattenSeq([i \in 1..Len(out) |-> [j \in 1..Len(out[i].bytes) |-> out[i].k]])
           \o [j \in 1..Len(raw) |-> "Raw"] \o [j \in 1..Len(sc.seq) |-> "held"]
CsiAt(i, j) ==
  /\ i + 1 < j /\ j - i < MAX_CSI
  /\ input[i] = "esc" /\ input[i + 1] = "[" /\ input[j] \in Finals
  /\ \A k \in (i + 2)..(j - 1) : input[k] \notin Finals \union Cancels \union {"esc"}
NoQueryInRaw ==
  \A i, j \in 1..Len(input) : CsiAt(i, j) => \E k \in i..j : Marks[k] # "Raw"

(* strip_terminal_queries: what the client's terminal is shown. *)
Kept == SelectSeq(out, LAMBDA t : ~Stripped(t))

----------------------------------------------------------------------------
(* struct Modes. *)
AllFlags == <<"mouse_1000", "mouse_1002", "mouse_1003", "sgr_mouse", "cursor_hidden", "mouse_9",
              "app_cursor", "bracketed_paste", "focus_events", "enhanced_paste">>
InOrder(on) == SelectSeq(AllFlags, LAMBDA m : m \in on)
Dec(m, on) == [k |-> "dec", modes |-> m, set |-> on]
Push(f) == [k |-> "push", flags |-> f]
Pop(n) == [k |-> "pop", count |-> n]
Text(t) == [k |-> "text", text |-> t]
Query(q) == [k |-> "query", of |-> q]
Ris == [k |-> "ris"]
NoReplay == <<"None">>

----------------------------------------------------------------------------
(* External: libghostty's terminal.  New or reset, it has no image storage *)
(* and no cell metrics (0). *)

NewTerm ==
  [alt |-> FALSE, on |-> {}, normal |-> "blank", other |-> "blank", limit |-> 0, cell |-> 0,
   wiped |-> {}]   \* ghost: what was last set before the child's RIS
Active(t) == IF t.alt THEN t.other ELSE t.normal
TermMode(t, m, set) ==
  CASE m = "alt" -> [t EXCEPT !.alt = set, !.other = IF set /\ ~t.alt THEN "blank" ELSE @]
    [] m = "enhanced_paste" -> t   \* 5522: it does not know the mode
    [] OTHER -> [t EXCEPT !.on = IF set THEN @ \union {m} ELSE @ \ {m}]
TermToken(t, tok) ==
  CASE tok.k = "dec"  -> FoldLeft(LAMBDA u, m : TermMode(u, m, tok.set), t, tok.modes)
    [] tok.k = "text" -> IF t.alt THEN [t EXCEPT !.other = tok.text] ELSE [t EXCEPT !.normal = tok.text]
    [] tok.k = "ris"  -> [NewTerm EXCEPT !.wiped = {"limit", "cell"}]
    [] OTHER -> t
(* Formatter: the modes that differ from their defaults, then the active *)
(* screen. *)
Format(t) ==
  <<Dec(InOrder(t.on) \o IF t.alt THEN <<"alt">> ELSE <<>>, TRUE), Text(Active(t))>>

----------------------------------------------------------------------------
(* TerminalActor::new; no graphics unless the owner asks. *)
NewActor ==
  [term |-> NewTerm, feed |-> <<>>, on |-> {}, alt |-> FALSE, kitty |-> <<>>,
   inactive |-> <<>>, normal |-> NoReplay, mok |-> 0, shape |-> "none", color |-> "none",
   graphics |-> 0, cell |-> 0, paste |-> <<>>,
   refused |-> FALSE]   \* ghost: libghostty refused the last metrics

FlushFeed(a) == [a EXCEPT !.term = FoldLeft(TermToken, @, a.feed), !.feed = <<>>]
(* serialize::vt. *)
Vt(t) == Format(t)

(* Modes::apply_dec, with the paste event of 5522 when it changes. *)
ApplyDec(a, m, set) ==
  CASE m = "alt" -> [a EXCEPT !.alt = set]
    [] m = "enhanced_paste" ->
         [a EXCEPT !.paste = IF (m \in a.on) # set THEN Append(@, set) ELSE @,
                   !.on = IF set THEN @ \union {m} ELSE @ \ {m}]
    [] OTHER -> [a EXCEPT !.on = IF set THEN @ \union {m} ELSE @ \ {m}]
SwapStacks(a) == [a EXCEPT !.kitty = a.inactive, !.inactive = a.kitty]
(* Mutant: the copy of the normal screen is taken before what was printed *)
(* in the same read has reached the terminal. *)
SwitchScreenUnflushed(a, was) ==
  CASE ~was /\ a.alt -> SwapStacks([a EXCEPT !.normal = Vt(a.term)])
    [] was /\ ~a.alt -> SwapStacks([a EXCEPT !.normal = NoReplay])
    [] OTHER -> a
(* The match on (was_alt, alt_screen): the normal screen is copied as the *)
(* child leaves it, and each screen keeps its own kitty stack. *)
SwitchScreen(a, was) ==
  CASE ~was /\ a.alt -> LET f == FlushFeed(a) IN SwapStacks([f EXCEPT !.normal = Vt(f.term)])
    [] was /\ ~a.alt -> SwapStacks([a EXCEPT !.normal = NoReplay])
    [] OTHER -> a
DecModes(a, tok) ==
  SwitchScreen(FoldLeft(LAMBDA b, m : ApplyDec(b, m, tok.set), a, tok.modes), a.alt)

Fed(a, tok) == [a EXCEPT !.feed = Append(@, tok)]

(* Mutant: the child's reset is not told to those who wait for pastes. *)
RisTokenQuiet(a) ==
  LET f == FlushFeed(a)
  IN  [f EXCEPT !.inactive = <<>>, !.shape = "none", !.color = "none",
                !.on = {}, !.alt = FALSE, !.kitty = <<>>, !.mok = 0,
                !.normal = NoReplay, !.feed = <<Ris>>]
RisToken(a) ==
  LET f == FlushFeed(a)
  IN  [f EXCEPT !.inactive = <<>>, !.shape = "none", !.color = "none",
                !.paste = IF "enhanced_paste" \in a.on THEN Append(@, FALSE) ELSE @,
                !.on = {}, !.alt = FALSE, !.kitty = <<>>, !.mok = 0,
                !.normal = NoReplay, !.feed = <<Ris>>]
(* The sequences the actor answers by itself (modifyOtherKeys, the state *)
(* of 5522, the sizes, the colours) are fed to nobody. *)
QueryToken(a) == FlushFeed(a)
ModifyOtherKeys(a, tok) == Fed([a EXCEPT !.mok = tok.value], tok)
CursorShape(a, tok) == Fed([a EXCEPT !.shape = tok.value], tok)
CursorColor(a, tok) == Fed([a EXCEPT !.color = tok.value], tok)
PushToken(a, tok) == Fed([a EXCEPT !.kitty = Append(@, tok.flags)], tok)
PopToken(a, tok) ==
  LET n == Max({tok.count, 1})
  IN  Fed([a EXCEPT !.kitty = SubSeq(@, 1, Max({Len(@) - n, 0}))], tok)

WriteToken(a, tok) ==
  CASE tok.k = "ris"   -> RisToken(a)
    [] tok.k = "query" -> QueryToken(a)
    [] tok.k = "dec"   -> Fed(DecModes(a, tok), tok)
    [] tok.k = "push"  -> PushToken(a, tok)
    [] tok.k = "pop"   -> PopToken(a, tok)
    [] tok.k = "mok"   -> ModifyOtherKeys(a, tok)
    [] tok.k = "shape" -> CursorShape(a, tok)
    [] tok.k = "color" -> CursorColor(a, tok)
    [] OTHER -> Fed(a, tok)
WriteAll(a, toks) == FlushFeed(FoldLeft(WriteToken, a, toks))

----------------------------------------------------------------------------
(* The replay. *)

SetModes(on, which) == Dec(InOrder(on \intersect which), TRUE)
ModePrefix(a, attach) ==
  (IF attach /\ a.alt THEN <<Dec(<<"alt">>, TRUE)>> ELSE <<>>)
    \o <<SetModes(a.on, {"mouse_1000", "mouse_1002", "mouse_1003", "sgr_mouse", "cursor_hidden"})>>
    \o [i \in 1..Len(a.kitty) |-> Push(a.kitty[i])]
CursorReplay(a) ==
  (IF a.shape = "none" THEN <<>> ELSE <<[k |-> "shape", value |-> a.shape]>>)
    \o (IF a.color = "none" THEN <<>> ELSE <<[k |-> "color", value |-> a.color]>>)
(* Mutant: the stack of the screen that is not shown is left out. *)
NormalHalfBare(a, attach) ==
  IF a.normal = NoReplay THEN <<>>
  ELSE IF attach /\ a.alt
       THEN <<Dec(<<"alt">>, FALSE)>> \o a.normal \o <<Dec(<<"alt">>, TRUE)>>
       ELSE a.normal
(* The normal screen, between two switches when the child shows the other. *)
NormalHalf(a, attach) ==
  IF a.normal = NoReplay THEN <<>>
  ELSE IF attach /\ a.alt
       THEN <<Dec(<<"alt">>, FALSE)>> \o [i \in 1..Len(a.inactive) |-> Push(a.inactive[i])]
              \o a.normal \o <<Dec(<<"alt">>, TRUE)>>
       ELSE a.normal
SerializeForReplay(a, attach) ==
  ModePrefix(a, attach)
    \o (IF attach /\ "enhanced_paste" \in a.on THEN <<Dec(<<"enhanced_paste">>, TRUE)>> ELSE <<>>)
    \o NormalHalf(a, attach) \o Vt(a.term) \o CursorReplay(a)
Late == WriteAll(NewActor, SerializeForReplay(act, TRUE))

----------------------------------------------------------------------------
(* Kitty graphics: the owner's options and libghostty's storage limit. *)

SetLimit(a, limit) == [a EXCEPT !.term.limit = limit, !.term.wiped = @ \ {"limit"}]
RollbackGraphics(a, previous) == [SetLimit(a, previous) EXCEPT !.graphics = previous]
(* CellSize::or_fallback, 2 being FALLBACK, and apply_cell. *)
OrFallback(cell) == IF cell = 0 THEN 2 ELSE cell
ApplyCell(a, ok) ==
  IF ok THEN [a EXCEPT !.term.cell = OrFallback(a.cell), !.term.wiped = @ \ {"cell"}, !.refused = FALSE]
  ELSE [a EXCEPT !.refused = TRUE]
(* enable_graphics, refused by libghostty before or after the limit is *)
(* set, or by the PNG decoder. *)
EnableGraphics(a, limit, cell, fails) ==
  LET sized == ApplyCell([a EXCEPT !.cell = IF cell > 0 THEN cell ELSE @], fails # "cell")
      set == SetLimit(sized, limit)
  IN  CASE fails = "cell" -> RollbackGraphics(sized, a.graphics)
        [] fails = "decoder" -> RollbackGraphics(set, a.graphics)
        [] OTHER -> [set EXCEPT !.graphics = limit]
(* Mutant: a limit that could not be completed stays. *)
SetGraphicsStorageLimitLeaky(a, limit, fails) ==
  IF limit = 0 THEN [SetLimit(a, 0) EXCEPT !.graphics = 0]
  ELSE IF fails = "decoder" THEN SetLimit(a, limit)
  ELSE EnableGraphics(a, limit, a.cell, fails)
SetGraphicsStorageLimit(a, limit, fails) ==
  IF limit = 0 THEN [SetLimit(a, 0) EXCEPT !.graphics = 0]
  ELSE EnableGraphics(a, limit, a.cell, fails)
ClearGraphics(a) == IF a.graphics = 0 THEN a ELSE SetLimit(a, a.graphics)
SetCellSize(a, cell, ok) == ApplyCell([a EXCEPT !.cell = cell], ok)
(* resize: the grid changes, the metrics go along as they are. *)
Resize(a, ok) == ApplyCell(a, ok)

(* reset, before a SCREEN is replayed: the terminal forgets its storage, *)
(* so the options are applied again. *)
ResetActor(a, fails) ==
  LET r == [a EXCEPT !.term = NewTerm, !.on = {}, !.alt = FALSE,
                     !.paste = IF "enhanced_paste" \in a.on THEN Append(@, FALSE) ELSE @,
                     !.mok = 0, !.kitty = <<>>, !.inactive = <<>>, !.shape = "none", !.color = "none"]
  IN  IF a.graphics = 0 THEN r ELSE EnableGraphics(r, a.graphics, a.cell, fails)
EndStreamActor(a) ==
  [a EXCEPT !.paste = IF "enhanced_paste" \in a.on THEN Append(@, FALSE) ELSE @,
            !.on = @ \ {"enhanced_paste"}]
(* reset_input_modes: RESET_INPUT_MODES after leaving the other screen. *)
ResetInputModes(a) ==
  LET left == IF a.alt THEN WriteAll(a, <<Pop(99), Dec(<<"alt">>, FALSE)>>) ELSE a
      off == WriteAll(left, <<Pop(99), Dec(AllFlags, FALSE)>>)
  IN  [off EXCEPT !.kitty = <<>>, !.inactive = <<>>, !.mok = 0]

----------------------------------------------------------------------------
(* take_events: the listener hears the events in order. *)
Heard(a) == IF a.paste = <<>> THEN told ELSE Last(a.paste)
Becomes(a) ==
  /\ step < MaxStep
  /\ step' = step + 1
  /\ told' = Heard(a)
  /\ act' = [a EXCEPT !.paste = <<>>]

WriteChunk ==
  \E n \in 1..Chunks : \E toks \in [1..n -> Tokens] :
    LET a == WriteAll(act, toks)
    IN  /\ Len(a.kitty) <= MaxKitty /\ Len(a.inactive) <= MaxKitty
        /\ Becomes(a)
(* The calls of the handle that owns the actor. *)
ResetCall == \E fails \in {"none", "cell", "decoder"} : Becomes(ResetActor(act, fails))
EndStreamCall == Becomes(EndStreamActor(act))
ResetInputCall == Becomes(ResetInputModes(act))
GraphicsCall ==
  \E limit \in 0..2 : \E fails \in {"none", "cell", "decoder"} :
    Becomes(SetGraphicsStorageLimit(act, limit, fails))
EnableCall ==
  \E cell \in 0..1 : \E fails \in {"none", "cell", "decoder"} : Becomes(EnableGraphics(act, 1, cell, fails))
ClearCall == Becomes(ClearGraphics(act))
CellCall == \E cell \in 0..1 : \E ok \in BOOLEAN : cell # act.cell /\ Becomes(SetCellSize(act, cell, ok))
ResizeCall == \E ok \in BOOLEAN : Becomes(Resize(act, ok))

ActorInit == act = NewActor /\ told = FALSE /\ step = 0
ActorNext ==
  \/ WriteChunk \/ ResetCall \/ EndStreamCall \/ ResetInputCall
  \/ GraphicsCall \/ EnableCall \/ ClearCall \/ CellCall \/ ResizeCall
ActorSpec == ActorInit /\ [][ActorNext]_tvars

----------------------------------------------------------------------------
(* Whoever listens for pastes believes what the terminal would tell the *)
(* child: over mode changes, resets by the child or before a replay, and *)
(* the end of the stream (EnhancedPasteMode). *)
PasteModeIsTold == told = ("enhanced_paste" \in act.on)

(* A client that attaches late has the screen the child shows, its kitty *)
(* stack, the cursor's shape and every mode the child has turned on and, *)
(* when that is the alternate screen, the normal screen and its stack to *)
(* fall back to (serialize_for_replay).  Only where the copy of the normal *)
(* screen is current: see NormalReplayIsCurrent. *)
ReplayLosesNothing ==
  (act.alt <=> act.normal # NoReplay) =>
    LET late == Late
    IN  /\ late.alt = act.alt /\ late.term.alt = act.term.alt
        /\ Active(late.term) = Active(act.term)
        /\ act.alt => late.term.normal = act.term.normal
        /\ late.kitty = act.kitty
        /\ act.alt => late.inactive = act.inactive
        /\ act.on \subseteq late.on
        /\ late.shape = act.shape /\ late.color = act.color

(* The storage limit is what the options say, with 0 for graphics that are *)
(* off, after every refusal (rollback_graphics: "Leaving a non-zero limit *)
(* behind after a failure is the worst of both worlds"), and pictures are *)
(* measured in the metrics last declared, over resizes and changes of *)
(* cell (apply_cell); but the child's own RIS leaves neither until the *)
(* owner's next call sets it again (Token::Ris does not). *)
GraphicsLimitAgrees ==
  /\ act.term.limit = IF "limit" \in act.term.wiped THEN 0 ELSE act.graphics
  /\ act.graphics # 0 /\ "cell" \notin act.term.wiped /\ ~act.refused => act.term.cell = OrFallback(act.cell)
(* False: "Terminal reset must preserve the configured graphics capability" *)
(* (docs/vrs/01-images/requirements.md:38, PTY.IMG-R07). *)
GraphicsOutliveReset == act.term.limit = act.graphics

(* "Serialize `a`, parse the payload in a fresh actor, and compare ... the *)
(* tracked modes" (tests/replay.rs): a late client has no mode the child *)
(* has turned off. *)
ReplayRestoresModes == Late.on = act.on

(* "The normal screen as it was when the child entered the alternate one, *)
(* or `None` when the normal screen is the active one" (normal_replay). *)
NormalReplayIsCurrent == act.normal # NoReplay => act.alt
=============================================================================
