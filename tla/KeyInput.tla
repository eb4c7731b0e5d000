------------------------------ MODULE KeyInput ------------------------------
(***************************************************************************)
(* Key names to bytes and bytes to key events: `pty send --seq key:...`    *)
(* (crates/pty-core/src/keys.rs) and the two parsers of terminal input, in *)
(* crates/pty-core/src/input.rs and crates/pty-tui/src/input.rs.           *)
(*                                                                         *)
(* A character is its code point.  The widths of u32, u16 and of the code  *)
(* points are constants, so that small inputs reach them.                  *)
(***************************************************************************)
EXTENDS Integers, Sequences, FiniteSets, SequencesExt, FiniteSetsExt

CONSTANTS
  U32, U16,    \* u32::MAX, u16::MAX
  CharMax,     \* char::MAX
  Alphabet,    \* the characters a user's terminal sends
  MaxTyped,    \* bound: characters typed
  KeyParts        \* the parts of a key name between separators

VARIABLES
  typed,   \* the bytes read from the terminal
  left,    \* characters the user has yet to type
  spec     \* the key name they were made from, <<>> when typed by hand

keyvars == <<typed, left, spec>>

Esc == 27
Named(name, m) == [name |-> name, ch |-> 0, typed |-> FALSE, mods |-> m]
Letter(c, m) == [name |-> "char", ch |-> c, typed |-> FALSE, mods |-> m]
Printable(c, m) == [name |-> "char", ch |-> c, typed |-> TRUE, mods |-> m]

----------------------------------------------------------------------------
(* keys.rs.  A key name is its parts: everything between separators. *)

KeyMap(name) ==
  CASE name \in {"return", "enter"} -> <<13>>
    [] name = "tab" -> <<9>>
    [] name \in {"escape", "esc"} -> <<Esc>>
    [] name = "space" -> <<32>>
    [] name = "backspace" -> <<127>>
    [] name = "delete" -> <<Esc, 91, 51, 126>>
    [] name = "up" -> <<Esc, 91, 65>>
    [] name = "down" -> <<Esc, 91, 66>>
    [] name = "right" -> <<Esc, 91, 67>>
    [] name = "left" -> <<Esc, 91, 68>>
    [] name = "home" -> <<Esc, 91, 72>>
    [] name = "end" -> <<Esc, 91, 70>>
    [] name = "pageup" -> <<Esc, 91, 53, 126>>
    [] name = "pagedown" -> <<Esc, 91, 54, 126>>
    [] name = "f1" -> <<Esc, 79, 80>>
    [] name = "f5" -> <<Esc, 91, 49, 53, 126>>
    [] name = "/" -> <<47>>
    [] OTHER -> <<>>
CsiUKeycode(name) ==
  CASE name \in {"return", "enter"} -> <<49, 51>>
    [] name = "tab" -> <<57>>
    [] name \in {"escape", "esc"} -> <<50, 55>>
    [] name = "space" -> <<51, 50>>
    [] name = "backspace" -> <<49, 50, 55>>
    [] OTHER -> <<>>

(* Every lowercase letter is a base. *)
LetterKeys == <<"a", "b", "c", "d", "e", "f", "g", "h", "i", "j", "k", "l", "m",
             "n", "o", "p", "q", "r", "s", "t", "u", "v", "w", "x", "y", "z">>
LetterCode(base) == IF base \in Range(LetterKeys) THEN 96 + SelectInSeq(LetterKeys, LAMBDA l : l = base) ELSE 0
(* is_supported_base. *)
Supported(base) == KeyMap(base) # <<>> \/ LetterCode(base) # 0
(* normalize_modifier: a leading C- is ctrl. *)
NormalizeModifier(parts, i, cdash) == IF parts[i] = "c" /\ i = 1 /\ cdash THEN "ctrl" ELSE parts[i]
(* Mutant: alt and ctrl change places in the parameter. *)
ModifierParamSwapped(m) ==
  49 + (IF "shift" \in m THEN 1 ELSE 0) + (IF "alt" \in m THEN 4 ELSE 0) + (IF "ctrl" \in m THEN 2 ELSE 0)
ModifierParam(m) ==
  49 + (IF "shift" \in m THEN 1 ELSE 0) + (IF "alt" \in m THEN 2 ELSE 0) + (IF "ctrl" \in m THEN 4 ELSE 0)

Ok(bytes) == [err |-> "none", bytes |-> bytes]
Err(e) == [err |-> e, bytes |-> <<>>]

(* resolve_key for a letter and for the slash. *)
AltPrefix(m) == IF "alt" \in m THEN <<Esc>> ELSE <<>>
ResolveLetter(c, m) ==
  LET shifted == IF "shift" \in m THEN c - 32 ELSE c
  IN  Ok(AltPrefix(m) \o <<IF "ctrl" \in m THEN c - 96 ELSE shifted>>)
ResolveSlash(m) ==
  IF "shift" \in m THEN Err("slash") ELSE Ok(AltPrefix(m) \o <<IF "ctrl" \in m THEN 31 ELSE 47>>)

(* ... and for a named key under modifiers: back tab, the CSI and SS3 *)
(* forms with a parameter, CSI u. *)
ResolveModified(base, m) ==
  LET k == KeyMap(base)
      p == ModifierParam(m)
      n == Len(k)
  IN  CASE base = "tab" /\ p = 50 -> Ok(<<Esc, 91, 90>>)
        [] n > 3 /\ k[n] = 126 -> Ok(Front(k) \o <<59, p, 126>>)
        [] n = 3 -> Ok(<<Esc, 91, 49, 59, p, k[3]>>)
        [] CsiUKeycode(base) # <<>> -> Ok(<<Esc, 91>> \o CsiUKeycode(base) \o <<59, p, 117>>)
        [] OTHER -> Ok(k)

ResolveKey(parts, cdash) ==
  LET base == Last(parts)
      raw == {NormalizeModifier(parts, i, cdash) : i \in 1..(Len(parts) - 1)}
      chord == base # "" /\ raw # {} /\ raw \subseteq {"ctrl", "alt", "shift"} /\ Supported(base)
  IN  CASE Len(parts) = 1 /\ KeyMap(base) # <<>> /\ ~chord -> Ok(KeyMap(base))
        [] base = "" \/ \E i \in 1..(Len(parts) - 1) : parts[i] = "" -> Err("incomplete")
        [] ~(raw \subseteq {"ctrl", "alt", "shift"}) -> Err("modifier")
        [] ~Supported(base) -> Err("key")
        [] LetterCode(base) # 0 -> ResolveLetter(LetterCode(base), raw)
        [] base = "/" -> ResolveSlash(raw)
        [] raw = {} -> Ok(KeyMap(base))
        [] OTHER -> ResolveModified(base, raw)

----------------------------------------------------------------------------
(* The parsers.  A parse step is the events it adds and where it goes on. *)

CharAt(s, i) == IF i \in 1..Len(s) THEN s[i] ELSE 0
IsDigit(c) == c \in 48..57
DigitsEnd(s, i) ==
  CHOOSE j \in i..(Len(s) + 1) : (\A k \in i..(j - 1) : IsDigit(s[k])) /\ ~IsDigit(CharAt(s, j))
Value(s, i, j) == FoldLeft(LAMBDA v, c : Min({v * 10 + c - 48, U32 + 1}), 0, SubSeq(s, i, j - 1))

(* digits (tui): saturates. *)
TuiDigits(s, i) ==
  LET j == DigitsEnd(s, i) IN [ok |-> j > i, v |-> Min({Value(s, i, j), U32}), j |-> j]
(* take_digits (core): a number over u32 is no number. *)
CoreDigits(s, i) ==
  LET j == DigitsEnd(s, i)
      v == Value(s, i, j)
  IN  [ok |-> j > i /\ v <= U32, v |-> v, j |-> j]

Bit(n, b) == (n \div b) % 2 = 1
Mods(n, shift, alt, ctrl) ==
  {m \in {"shift", "alt", "ctrl"} :
     \/ m = "shift" /\ Bit(n, shift)
     \/ m = "alt" /\ Bit(n, alt)
     \/ m = "ctrl" /\ Bit(n, ctrl)}
(* kitty_mods. *)
KittyMods(wire) == Mods(Max({wire - 1, 0}), 1, 2, 4)

(* decode_mouse. *)
Button(low) == CASE low = 0 -> "Left" [] low = 1 -> "Middle" [] low = 2 -> "Right" [] OTHER -> "None"
DecodeMouse(code, x, y, release) ==
  LET low == code % 4
      motion == IF Button(low) = "None" THEN "Move" ELSE "Drag"
      act == CASE Bit(code, 64) -> IF low = 0 THEN "ScrollUp" ELSE "ScrollDown"
               [] release -> "Release"
               [] Bit(code, 32) -> motion
               [] OTHER -> "Press"
  IN  [action |-> act, button |-> IF Bit(code, 64) THEN "None" ELSE Button(low),
       x |-> Max({x - 1, 0}), y |-> Max({y - 1, 0}), mods |-> Mods(code, 4, 8, 16)]
TuiMouse(code, x, y, release) ==
  LET e == DecodeMouse(code, x, y, release)
  IN  [e EXCEPT !.x = Min({@, U16}), !.y = Min({@, U16})]
(* Mutant: cells are counted from one. *)
CoreMouseFromOne(code, x, y, release) ==
  LET e == DecodeMouse(code, x, y, release) IN [e EXCEPT !.x = x, !.y = y]
CoreMouse(code, x, y, release) == DecodeMouse(code, x, y, release)

LetterToName(c) ==
  CASE c = 65 -> "up" [] c = 66 -> "down" [] c = 67 -> "right" [] c = 68 -> "left"
    [] c = 72 -> "home" [] c = 70 -> "end" [] OTHER -> ""
TildeName(c) == CASE c = 51 -> "delete" [] c = 53 -> "pageup" [] c = 54 -> "pagedown" [] OTHER -> ""
KittyCodepointName(c) ==
  CASE c = 27 -> "escape" [] c = 13 -> "return" [] c = 9 -> "tab" [] c = 127 -> "backspace" [] OTHER -> ""

Step(ev, next) == [ev |-> ev, next |-> next]
No == [ev |-> <<>>, next |-> 0]

(* The forms of a CSI body at r, tried in this order. *)
MouseForm(s, r, D(_, _), M(_, _, _, _)) ==
  LET b == D(s, r + 1)
      x == D(s, b.j + 1)
      y == D(s, x.j + 1)
  IN  IF /\ CharAt(s, r) = 60 /\ b.ok /\ CharAt(s, b.j) = 59 /\ x.ok /\ CharAt(s, x.j) = 59 /\ y.ok
         /\ CharAt(s, y.j) \in {77, 109}
      THEN Step(<<M(b.v, x.v, y.v, CharAt(s, y.j) = 109)>>, y.j + 1)
      ELSE No
ArrowForm(s, r) ==
  IF LetterToName(CharAt(s, r)) # "" THEN Step(<<Named(LetterToName(CharAt(s, r)), {})>>, r + 1) ELSE No
ModifiedArrow(s, r, D(_, _)) ==
  LET m == D(s, r + 2)
  IN  IF CharAt(s, r) = 49 /\ CharAt(s, r + 1) = 59 /\ m.ok /\ LetterToName(CharAt(s, m.j)) # ""
      THEN Step(<<Named(LetterToName(CharAt(s, m.j)), KittyMods(m.v))>>, m.j + 1)
      ELSE No
TildeForm(s, r) ==
  IF CharAt(s, r + 1) = 126 /\ TildeName(CharAt(s, r)) # ""
  THEN Step(<<Named(TildeName(CharAt(s, r)), {})>>, r + 2) ELSE No
KittyForm(s, r, D(_, _), key(_, _)) ==
  LET c == D(s, r)
      m == IF CharAt(s, c.j) = 59 THEN D(s, c.j + 1) ELSE [ok |-> TRUE, v |-> 1, j |-> c.j]
  IN  IF c.ok /\ m.ok /\ CharAt(s, m.j) = 117 THEN Step(key(c.v, KittyMods(m.v)), m.j + 1) ELSE No
(* An unknown sequence is skipped up to its final byte. *)
SkipForm(s, r) ==
  LET ends == {j \in r..Len(s) : s[j] \in 64..126}
  IN  Step(<<>>, IF ends = {} THEN Len(s) + 2 ELSE Min(ends) + 1)

KittyKey(code, m) ==
  CASE code = 9 /\ "shift" \in m -> <<Named("backtab", m)>>
    [] KittyCodepointName(code) # "" -> <<Named(KittyCodepointName(code), m)>>
    [] OTHER -> <<Printable(code, m)>>
(* A code that is no character: tui reports an empty one, core nothing. *)
TuiKittyKey(code, m) == KittyKey(IF code \in 128..CharMax \/ code < 128 THEN code ELSE 0, m)
CoreKittyKey(code, m) == IF code <= CharMax THEN KittyKey(code, m) ELSE <<>>

FirstForm(forms) == forms[Min({i \in 1..Len(forms) : forms[i].next # 0})]
Csi(s, r, D(_, _), M(_, _, _, _), key(_, _)) ==
  FirstForm(<<MouseForm(s, r, D, M), ArrowForm(s, r), ModifiedArrow(s, r, D),
              IF CharAt(s, r) = 90 THEN Step(<<Named("backtab", {"shift"})>>, r + 1) ELSE No,
              TildeForm(s, r), KittyForm(s, r, D, key), SkipForm(s, r)>>)

Plain(c) ==
  CASE c = 13 -> <<Named("return", {})>>
    [] c = 9 -> <<Named("tab", {})>>
    [] c = 127 -> <<Named("backspace", {})>>
    [] c = 28 -> <<Letter(92, {"ctrl"})>>
    [] c \in 1..26 -> <<Letter(c + 96, {"ctrl"})>>
    [] c >= 32 -> <<Printable(c, {})>>
    [] OTHER -> <<>>

ParseAt(s, i, D(_, _), M(_, _, _, _), key(_, _)) ==
  CASE s[i] = Esc /\ CharAt(s, i + 1) = 91 -> Csi(s, i + 2, D, M, key)
    [] s[i] = Esc /\ CharAt(s, i + 1) >= 32 -> Step(<<Printable(CharAt(s, i + 1), {"alt"})>>, i + 2)
    [] s[i] = Esc -> Step(<<Named("escape", {})>>, i + 1)
    [] OTHER -> Step(Plain(s[i]), i + 1)

(* parse_input of pty-tui and of pty-core. *)
TuiParseInput(s) ==
  LET from[i \in 1..(Len(s) + 2)] ==
        IF i > Len(s) THEN <<>>
        ELSE LET p == ParseAt(s, i, TuiDigits, TuiMouse, TuiKittyKey) IN p.ev \o from[p.next]
  IN  from[1]
CoreParseInput(s) ==
  LET from[i \in 1..(Len(s) + 2)] ==
        IF i > Len(s) THEN <<>>
        ELSE LET p == ParseAt(s, i, CoreDigits, CoreMouse, CoreKittyKey) IN p.ev \o from[p.next]
  IN  from[1]
(* parse_key: the keys alone. *)
ParseKey(s) == SelectSeq(CoreParseInput(s), LAMBDA e : "name" \in DOMAIN e)

----------------------------------------------------------------------------
(* A user types, or names a key to `pty send`. *)

Specs == UNION {[1..n -> KeyParts] : n \in 1..3}

KeyInit ==
  /\ typed \in {<<>>, <<Esc, 91>>, <<Esc, 91, 60, 57, 59, 49, 59>>}
  /\ left = MaxTyped
  /\ spec = <<>>
Type(c) ==
  /\ spec = <<>> /\ left > 0
  /\ typed' = Append(typed, c)
  /\ left' = left - 1
  /\ UNCHANGED spec
NameKey(parts, cdash) ==
  /\ UNCHANGED left
  /\ cdash => Len(parts) > 1 /\ parts[1] = "c"
  /\ spec' = parts
  /\ typed' = ResolveKey(parts, cdash).bytes

KeyNext ==
  \/ \E c \in Alphabet : Type(c)
  \/ typed = <<>> /\ spec = <<>> /\ \E parts \in Specs, cdash \in BOOLEAN : NameKey(parts, cdash)
KeySpec == KeyInit /\ [][KeyNext]_keyvars

(* What a named key stands for, when the parsers have a name for it under *)
(* those modifiers.  Ctrl with i and with m are the bytes of tab and of *)
(* return, and both parsers read them as those keys without ctrl. *)
Arrows == {"up", "down", "left", "right", "home", "end"}
Stands(base, m) ==
  CASE base \in Arrows -> {Named(base, m)}
    [] base \in {"return", "escape", "backspace"} -> {Named(base, m)}
    [] base = "tab" -> {Named(IF "shift" \in m THEN "backtab" ELSE "tab", m)}
    [] base = "space" -> {Printable(32, m)}
    [] base \in {"delete", "pageup", "pagedown"} /\ m = {} -> {Named(base, {})}
    [] LetterCode(base) # 0 /\ m \subseteq {"shift"} ->
         {Printable(IF m = {} THEN LetterCode(base) ELSE LetterCode(base) - 32, {})}
    [] base = "i" /\ m = {"ctrl"} -> {Named("tab", {})}
    [] base = "m" /\ m = {"ctrl"} -> {Named("return", {})}
    [] LetterCode(base) # 0 /\ m = {"ctrl"} -> {Letter(LetterCode(base), m)}
    [] LetterCode(base) # 0 /\ m = {"alt"} -> {Printable(LetterCode(base), m)}
    [] OTHER -> {}

(* What `pty send` writes for a key name, the program's own parser reads *)
(* back as that key with those modifiers and nothing else, through the *)
(* three encodings a key may take (resolve_key, parse_input); but ctrl+i *)
(* comes back as tab and ctrl+m as return. *)
KeyRoundTrip ==
  spec # <<>> /\ typed # <<>> =>
    LET m == {IF p = "c" THEN "ctrl" ELSE p : p \in {spec[i] : i \in 1..(Len(spec) - 1)}}
    IN  \A e \in Stands(Last(spec), m) : ParseKey(typed) = <<e>>

(* The two parsers of terminal input, in pty-core and in pty-tui, read *)
(* every input alike as long as its numbers fit what both hold *)
(* (parse_input, twice). *)
Fits(s) == \A i \in 1..Len(s) : IsDigit(s[i]) => Value(s, i, DigitsEnd(s, i)) <= Min({U16, CharMax})
ParsersAgree == Fits(typed) => TuiParseInput(typed) = CoreParseInput(typed)
=============================================================================
