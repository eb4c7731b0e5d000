--------------------------- MODULE TerminalProofs ---------------------------
(***************************************************************************)
(* Proofs about the part of MCTerminal that pages through the history.     *)
(***************************************************************************)
EXTENDS MCTerminal, TLAPS

ReaderStates == {"idle", "reading", "gap", "done"}
ReaderType == [state : ReaderStates, cursor : Nat, from : Nat, low : Nat]
BoundaryType == [anchor : Int, owed : Int, expires : Int]

(* The retained rows and the cursor table: serials are handed out once. *)
HistoryType ==
  /\ oldest \in Nat /\ printed \in Nat /\ oldest <= printed
  /\ serial \in Nat /\ now \in Nat
  /\ DOMAIN boundaries \subseteq 1..serial
  /\ boundaries \in [DOMAIN boundaries -> BoundaryType]
  /\ reader \in [Readers -> ReaderType]

(* What a reader and the table agree on: a cursor is one reader's, the *)
(* boundary it names stands on the row the reader has read down to, and *)
(* owes the rows down to the oldest one retained when the reader began. *)
ReaderInv(r) ==
  /\ reader[r].state = "idle" => reader[r].cursor = NoCursor
  /\ reader[r].state = "reading" =>
       /\ reader[r].cursor \in 1..serial
       /\ reader[r].from <= oldest
       /\ reader[r].cursor \in DOMAIN boundaries =>
            /\ boundaries[reader[r].cursor].anchor = reader[r].low
            /\ boundaries[reader[r].cursor].owed = reader[r].low - reader[r].from
  /\ reader[r].state = "done" => reader[r].low = reader[r].from
CursorsDiffer ==
  \A r, q \in Readers :
    reader[r].state = "reading" /\ reader[q].state = "reading" /\ r # q =>
      reader[r].cursor # reader[q].cursor
HistoryInv == HistoryType /\ CursorsDiffer /\ \A r \in Readers : ReaderInv(r)
----------------------------------------------------------------------------
(* `max(n, 0)`, which is what saturating_sub leaves. *)
LEMMA MaxZero ==
  ASSUME NEW n \in Int
  PROVE  Max({n, 0}) = IF n >= 0 THEN n ELSE 0
<1> DEFINE top == IF n >= 0 THEN n ELSE 0
<1>1. top \in {n, 0} /\ (\A y \in {n, 0} : top >= y) BY SMT
<1>2. \A x \in {n, 0} : (\A y \in {n, 0} : x >= y) => x = top BY SMT
<1> HIDE DEF top
<1>3. Max({n, 0}) = CHOOSE x \in {n, 0} : \A y \in {n, 0} : x >= y BY DEF Max
<1>4. Max({n, 0}) = top BY <1>1, <1>2, <1>3
<1> QED BY <1>4 DEF top

(* The table a page is answered from holds no boundary the old one lacks. *)
LEMMA LiveFacts ==
  ASSUME HistoryType
  PROVE  /\ DOMAIN Live \subseteq DOMAIN boundaries
         /\ \A s \in DOMAIN Live : Live[s] = boundaries[s] /\ HasValue(boundaries[s])
         /\ Live \in [DOMAIN Live -> BoundaryType]
BY DEF Live, HistoryType

(* A new boundary: the others are as they were, or evicted. *)
LEMMA AddFacts ==
  ASSUME NEW sp, NEW bs, DOMAIN bs \subseteq 1..serial, serial \in Nat,
         bs = [s \in DOMAIN bs |-> bs[s]]
  PROVE  /\ serial + 1 \in DOMAIN AddBoundary(bs, sp)
         /\ DOMAIN AddBoundary(bs, sp) \subseteq DOMAIN bs \union {serial + 1}
         /\ AddBoundary(bs, sp)[serial + 1] =
              [anchor |-> oldest + sp.start, owed |-> sp.start + sp.pruned, expires |-> now + 1]
         /\ \A s \in DOMAIN AddBoundary(bs, sp) \ {serial + 1} :
              s \in DOMAIN bs /\ AddBoundary(bs, sp)[s] = bs[s]
         /\ AddBoundary(bs, sp) = [s \in DOMAIN AddBoundary(bs, sp) |-> AddBoundary(bs, sp)[s]]
<1>1. DOMAIN Evicted(bs) \subseteq DOMAIN bs /\ \A s \in DOMAIN Evicted(bs) : Evicted(bs)[s] = bs[s]
  BY DEF Evicted
<1> QED BY <1>1 DEF AddBoundary
----------------------------------------------------------------------------
(* The first page stands on the newest rows and owes all the older ones. *)
LEMMA FirstSpan ==
  ASSUME HistoryType, NEW bs, NEW limit \in Nat, NEW c, c = NoCursor
  PROVE  LET sp == Span(bs, c, limit)
         IN  /\ sp.start \in Nat
             /\ sp.pruned = 0
<1>1. Retained \in Int /\ Retained - limit \in Int BY DEF Retained, HistoryType
<1> QED BY <1>1, MaxZero DEF Span

(* A later page counts the rows pruned since the reader began. *)
LEMMA LaterSpan ==
  ASSUME HistoryType, NEW bs, NEW limit \in Nat, NEW c, c # NoCursor,
         NEW low \in Nat, NEW from \in Nat, from <= oldest,
         bs[c].anchor = low, bs[c].owed = low - from, low >= oldest
  PROVE  LET sp == Span(bs, c, limit)
         IN  /\ sp.start \in Nat
             /\ sp.pruned = oldest - from
<1>1. oldest \in Nat BY DEF HistoryType
<1> DEFINE end == bs[c].anchor - oldest
<1>2. end = low - oldest /\ end \in Int /\ end - limit \in Int BY <1>1
<1>3. bs[c].owed - end = oldest - from /\ bs[c].owed - end \in Int BY <1>1, <1>2
<1>4. Max({bs[c].owed - end, 0}) = oldest - from BY <1>1, <1>3, MaxZero
<1>5. Max({end - limit, 0}) \in Nat BY <1>2, MaxZero
<1> QED BY <1>4, <1>5 DEF Span
----------------------------------------------------------------------------
(* A reader that is moved on keeps what it agrees on with the table, when *)
(* the table drops boundaries, or gains one with a new serial. *)
LEMMA ReadKeeps ==
  ASSUME HistoryInv, HistoryAssumption,
         NEW r \in Readers, NEW limit \in Limits, Reads(r, limit)
  PROVE  HistoryInv'
<1> DEFINE c == reader[r].cursor
           a == Page(c, limit)
           sp == Span(Live, c, limit)
           first == reader[r].state = "idle"
<1>0. HistoryType /\ CursorsDiffer /\ (\A q \in Readers : ReaderInv(q)) BY DEF HistoryInv
<1>1. /\ oldest \in Nat /\ printed \in Nat /\ oldest <= printed
      /\ serial \in Nat /\ now \in Nat /\ limit \in Nat
      /\ reader \in [Readers -> ReaderType] /\ reader[r] \in ReaderType
  BY <1>0 DEF HistoryType, HistoryAssumption
<1>2. /\ UNCHANGED <<oldest, printed, alternate, now>>
      /\ reader[r].state \in {"idle", "reading"} BY DEF Reads, term
<1>3. /\ DOMAIN Live \subseteq DOMAIN boundaries
      /\ \A s \in DOMAIN Live : Live[s] = boundaries[s] /\ HasValue(boundaries[s])
      /\ Live \in [DOMAIN Live -> BoundaryType] BY <1>0, LiveFacts
<1>4. \/ a.kind \in {"InvalidRequest", "AlternateScreen"}
      \/ a.kind = "CursorGap"
      \/ /\ a.kind = "Page" /\ a.sp = sp /\ (a.last <=> sp.start = 0)
         /\ c = NoCursor \/ c \in DOMAIN Live
         /\ ~(sp.start = 0 /\ sp.pruned > 0) BY <1>1 DEF Page, Gap
<1>5. CASE a.kind \in {"InvalidRequest", "AlternateScreen"}
  <2>1. reader' = reader /\ boundaries' = boundaries /\ serial' = serial BY <1>1, <1>5 DEF Reads
  <2> QED BY <1>0, <1>2, <2>1
        DEF HistoryInv, HistoryType, CursorsDiffer, ReaderInv
<1>6. CASE a.kind = "CursorGap"
  <2>1. /\ reader' = [reader EXCEPT ![r] = [@ EXCEPT !.state = "gap"]]
        /\ boundaries' = Live /\ serial' = serial BY <1>1, <1>6 DEF Reads
  <2>2. /\ reader'[r].state = "gap"
        /\ \A q \in Readers \ {r} : reader'[q] = reader[q]
        /\ reader' \in [Readers -> ReaderType] BY <1>1, <2>1 DEF ReaderType, ReaderStates
  <2>3. HistoryType' BY <1>0, <1>2, <1>3, <2>1, <2>2 DEF HistoryType
  <2>4. CursorsDiffer' BY <1>0, <2>2 DEF CursorsDiffer
  <2>5. ASSUME NEW q \in Readers PROVE ReaderInv(q)' BY <1>0, <1>2, <1>3, <2>1, <2>2 DEF ReaderInv
  <2> QED BY <2>3, <2>4, <2>5 DEF HistoryInv
<1>7. CASE /\ a.kind = "Page" /\ a.sp = sp /\ (a.last <=> sp.start = 0)
           /\ c = NoCursor \/ c \in DOMAIN Live
           /\ ~(sp.start = 0 /\ sp.pruned > 0)
  <2> DEFINE from == IF first THEN oldest ELSE reader[r].from
  <2>1. sp.start \in Nat /\ sp.pruned = oldest - from /\ from \in Nat /\ from <= oldest
    <3>1. CASE first
      <4>1. c = NoCursor BY <1>0, <3>1 DEF ReaderInv
      <4> QED BY <1>0, <1>1, <3>1, <4>1, FirstSpan
    <3>2. CASE ~first
      <4>1. reader[r].state = "reading" BY <1>2, <3>2
      <4>2. c \in 1..serial /\ reader[r].from <= oldest BY <1>0, <4>1 DEF ReaderInv
      <4>3. c # NoCursor BY <1>1, <4>2 DEF NoCursor
      <4>4. c \in DOMAIN Live /\ c \in DOMAIN boundaries /\ Live[c] = boundaries[c]
            /\ HasValue(boundaries[c]) BY <1>3, <1>7, <4>3
      <4>5. Live[c].anchor = reader[r].low /\ Live[c].owed = reader[r].low - reader[r].from
            /\ reader[r].low >= oldest BY <1>0, <4>1, <4>4 DEF ReaderInv, HasValue
      <4>6. reader[r].low \in Nat /\ reader[r].from \in Nat BY <1>1 DEF ReaderType
      <4>7. sp.start \in Nat /\ sp.pruned = oldest - reader[r].from
        BY <1>0, <1>1, <4>2, <4>3, <4>5, <4>6, LaterSpan
      <4> QED BY <3>2, <4>2, <4>6, <4>7
    <3> QED BY <3>1, <3>2
  <2>2. a.kind = "Page" /\ a.sp = sp /\ (a.last <=> sp.start = 0) BY <1>7
  <2> HIDE DEF sp
  <2>3. CASE sp.start = 0
    <3>1. /\ reader' = [reader EXCEPT ![r] =
               [state |-> "done", cursor |-> NoCursor, from |-> from, low |-> oldest + sp.start]]
          /\ boundaries' = Live /\ serial' = serial BY <1>1, <2>2, <2>3 DEF Reads
    <3>2. oldest = from BY <1>1, <1>7, <2>1, <2>3
    <3> HIDE DEF from
    <3>3. /\ reader'[r].state = "done" /\ reader'[r].low = reader'[r].from
          /\ \A q \in Readers \ {r} : reader'[q] = reader[q]
          /\ reader' \in [Readers -> ReaderType]
      BY <1>1, <2>1, <2>3, <3>1, <3>2 DEF ReaderType, ReaderStates, NoCursor
    <3>4. HistoryType' BY <1>0, <1>2, <1>3, <3>1, <3>3 DEF HistoryType
    <3>5. CursorsDiffer' BY <1>0, <3>3 DEF CursorsDiffer
    <3>6. ASSUME NEW q \in Readers PROVE ReaderInv(q)' BY <1>0, <1>2, <1>3, <3>1, <3>3 DEF ReaderInv
    <3> QED BY <3>4, <3>5, <3>6 DEF HistoryInv
  <2>4. CASE sp.start # 0
    <3>1. /\ reader' = [reader EXCEPT ![r] =
               [state |-> "reading", cursor |-> serial + 1, from |-> from, low |-> oldest + sp.start]]
          /\ boundaries' = AddBoundary(Live, sp) /\ serial' = serial + 1 BY <1>1, <2>2, <2>4 DEF Reads
    <3> HIDE DEF from
    <3>2. DOMAIN Live \subseteq 1..serial BY <1>0, <1>3 DEF HistoryType
    <3>3. Live = [s \in DOMAIN Live |-> Live[s]] BY <1>3
    <3>4. /\ serial + 1 \in DOMAIN boundaries'
          /\ DOMAIN boundaries' \subseteq DOMAIN Live \union {serial + 1}
          /\ boundaries'[serial + 1] =
              [anchor |-> oldest + sp.start, owed |-> sp.start + sp.pruned, expires |-> now + 1]
          /\ \A s \in DOMAIN boundaries' \ {serial + 1} :
              s \in DOMAIN Live /\ boundaries'[s] = Live[s]
          /\ boundaries' = [s \in DOMAIN boundaries' |-> boundaries'[s]]
      BY <1>1, <3>1, <3>2, <3>3, AddFacts
    <3>5. /\ reader'[r] = [state |-> "reading", cursor |-> serial + 1, from |-> from,
                           low |-> oldest + sp.start]
          /\ \A q \in Readers \ {r} : reader'[q] = reader[q]
          /\ reader' \in [Readers -> ReaderType] BY <1>1, <2>1, <3>1 DEF ReaderType, ReaderStates
    <3>6. boundaries' \in [DOMAIN boundaries' -> BoundaryType]
      <4>1. [anchor |-> oldest + sp.start, owed |-> sp.start + sp.pruned, expires |-> now + 1]
               \in BoundaryType BY <1>1, <2>1 DEF BoundaryType
      <4>2. \A s \in DOMAIN boundaries' : boundaries'[s] \in BoundaryType BY <1>3, <3>4, <4>1
      <4> QED BY <3>4, <4>2
    <3>7. HistoryType'
      <4>1. DOMAIN boundaries' \subseteq 1..(serial + 1) BY <1>1, <3>2, <3>4
      <4> QED BY <1>0, <1>1, <1>2, <3>1, <3>5, <3>6, <4>1 DEF HistoryType
    <3>8. ASSUME NEW q \in Readers, q # r, reader[q].state = "reading"
          PROVE  reader[q].cursor \in 1..serial /\ reader[q].cursor # serial + 1
      <4>1. reader[q].cursor \in 1..serial BY <1>0, <3>8 DEF ReaderInv
      <4> QED BY <1>1, <4>1
    <3>9. CursorsDiffer' BY <1>0, <3>5, <3>8 DEF CursorsDiffer
    <3>10. ASSUME NEW q \in Readers PROVE ReaderInv(q)'
      <4>1. CASE q = r BY <1>1, <1>2, <2>1, <3>1, <3>4, <3>5, <4>1 DEF ReaderInv
      <4>2. CASE q # r
        <5>1. reader'[q] = reader[q] /\ ReaderInv(q) BY <1>0, <3>5, <4>2
        <5>2. CASE reader[q].state # "reading" BY <5>1, <5>2 DEF ReaderInv
        <5>3. CASE reader[q].state = "reading"
          <6>1. reader[q].cursor \in 1..serial /\ reader[q].cursor # serial + 1 BY <3>8, <4>2, <5>3
          <6>2. reader[q].cursor \in 1..(serial + 1) BY <1>1, <6>1
          <6>3. reader[q].cursor \in DOMAIN boundaries' =>
                  /\ reader[q].cursor \in DOMAIN boundaries
                  /\ boundaries'[reader[q].cursor] = boundaries[reader[q].cursor] BY <1>3, <3>4, <6>1
          <6> QED BY <1>2, <3>1, <5>1, <5>3, <6>2, <6>3 DEF ReaderInv
        <5> QED BY <5>2, <5>3
      <4> QED BY <4>1, <4>2
    <3> QED BY <3>7, <3>9, <3>10 DEF HistoryInv
  <2> QED BY <2>3, <2>4
<1> QED BY <1>4, <1>5, <1>6, <1>7

(* Every step of the history keeps the invariant. *)
LEMMA HistoryStep ==
  ASSUME HistoryInv, HistoryAssumption, HistoryNext
  PROVE  HistoryInv'
<1>0. HistoryType /\ CursorsDiffer /\ (\A q \in Readers : ReaderInv(q)) BY DEF HistoryInv
<1>1. ASSUME NEW r \in Readers, NEW l \in Limits, Reads(r, l) PROVE HistoryInv' BY <1>1, ReadKeeps
<1>2. ASSUME NEW r \in Readers, StartsOver(r) PROVE HistoryInv'
  <2>1. /\ reader'[r] = Idle /\ reader'[r].state = "idle" /\ reader'[r].cursor = NoCursor
        /\ \A q \in Readers \ {r} : reader'[q] = reader[q]
        /\ reader' \in [Readers -> ReaderType]
        /\ UNCHANGED <<oldest, printed, boundaries, serial, now>>
    BY <1>0, <1>2 DEF StartsOver, HistoryType, ReaderType, ReaderStates, Idle, NoCursor, term
  <2>2. HistoryType' BY <1>0, <2>1 DEF HistoryType
  <2>3. CursorsDiffer' BY <1>0, <2>1 DEF CursorsDiffer
  <2>4. ASSUME NEW q \in Readers PROVE ReaderInv(q)' BY <1>0, <2>1 DEF ReaderInv
  <2> QED BY <2>2, <2>3, <2>4 DEF HistoryInv
<1>3. ASSUME \/ Prints
             \/ Switches
             \/ Ticks
             \/ Prunes
      PROVE  HistoryInv'
  <2>1. /\ oldest' \in Nat /\ printed' \in Nat /\ oldest' <= printed' /\ oldest <= oldest'
        /\ now' \in Nat
        /\ UNCHANGED <<boundaries, serial, reader>>
    BY <1>0, <1>3 DEF HistoryType, Prints, Switches, Ticks, Prunes, term, Retained
  <2>2. HistoryType' BY <1>0, <2>1 DEF HistoryType
  <2>3. CursorsDiffer' BY <1>0, <2>1 DEF CursorsDiffer
  <2>4. ASSUME NEW q \in Readers PROVE ReaderInv(q)'
    <3>1. reader[q].from \in Nat BY <1>0 DEF HistoryType, ReaderType
    <3> QED BY <1>0, <2>1, <3>1 DEF ReaderInv, HistoryType
  <2> QED BY <2>2, <2>3, <2>4 DEF HistoryInv
<1>4. ASSUME Invalidates PROVE HistoryInv'
  <2>1. /\ oldest' = printed /\ printed' = printed /\ DOMAIN boundaries' = {}
        /\ boundaries' \in [DOMAIN boundaries' -> BoundaryType]
        /\ UNCHANGED <<serial, now, reader>> BY <1>4 DEF Invalidates
  <2>2. HistoryType' BY <1>0, <2>1 DEF HistoryType
  <2>3. CursorsDiffer' BY <1>0, <2>1 DEF CursorsDiffer
  <2>4. ASSUME NEW q \in Readers PROVE ReaderInv(q)'
    <3>1. reader[q].from \in Nat BY <1>0 DEF HistoryType, ReaderType
    <3> QED BY <1>0, <2>1, <3>1 DEF ReaderInv, HistoryType
  <2> QED BY <2>2, <2>3, <2>4 DEF HistoryInv
<1> QED BY <1>1, <1>2, <1>3, <1>4 DEF HistoryNext
----------------------------------------------------------------------------
HistoryPart == part = "history" => HistoryInv

(* history.rs: HistoryIsWhole holds for any number of readers and cursors, *)
(* any page limits, and however much is printed, pruned and invalidated. *)
THEOREM WholeHistory == Spec => []HistoryIsWhole
<1>1. Init => HistoryPart
  <2> SUFFICES ASSUME Init, part = "history" PROVE HistoryInv BY DEF HistoryPart
  <2>1. HistoryInit BY DEF Init
  <2> QED BY <2>1 DEF HistoryInit, HistoryInv, HistoryType, CursorsDiffer, ReaderInv,
        ReaderType, ReaderStates, Idle, NoCursor
<1>2. HistoryPart /\ [Next]_vars => HistoryPart'
  <2> SUFFICES ASSUME HistoryPart, [Next]_vars, part' = "history" PROVE HistoryInv' BY DEF HistoryPart
  <2>1. CASE HistoryMoves BY <2>1, HistoryStep, HistoryAssumption DEF HistoryMoves, HistoryPart
  <2>2. CASE UNCHANGED vars
    <3>1. part' = part /\ UNCHANGED yvars BY <2>2 DEF vars
    <3> QED BY <3>1 DEF HistoryPart, yvars, HistoryInv, HistoryType, CursorsDiffer, ReaderInv
  <2>3. CASE KeysMoves \/ ScannerMoves \/ ActorMoves \/ ScreenMoves \/ WireMoves \/ WidgetsMoves
    BY <2>3 DEF KeysMoves, ScannerMoves, ActorMoves, ScreenMoves, WireMoves, WidgetsMoves
  <2> QED BY <2>1, <2>2, <2>3 DEF Next
<1>3. HistoryPart => HistoryIsWhole
  BY DEF HistoryPart, HistoryIsWhole, PagingSkipsNothing, HistoryInv, ReaderInv
<1> QED BY <1>1, <1>2, <1>3, PTL DEF Spec
=============================================================================
