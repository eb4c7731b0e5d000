---------------------------- MODULE WireProtocol ----------------------------
(***************************************************************************)
(* The session protocol's frames (crates/pty-core/src/protocol.rs): one    *)
(* byte of type, a length, the payload; and the reader that finds them     *)
(* again in whatever pieces the socket delivers.  A byte has Radix values  *)
(* and a number of the protocol takes two, so that every width meets its   *)
(* limit; Radix = 2^8 and four bytes of length in the program.             *)
(***************************************************************************)
EXTENDS Integers, Sequences, FiniteSets, SequencesExt, FiniteSetsExt

CONSTANTS
  Radix,              \* values of a byte
  MAX_PACKET_LENGTH,
  MaxPackets,         \* bound: packets sent
  Sizes,              \* what clients send as rows, columns and cell sizes
  Codes               \* the sizes of the exit codes children end with

VARIABLES
  sent,      \* the messages written, in order
  wire,      \* bytes not yet read
  buffer,    \* PacketReader::buffer
  got,       \* the messages the packets feed returned decode to
  failed     \* feed's error

wvars == <<sent, wire, buffer, got, failed>>

HEADER_SIZE == 3
Be(n) == <<n \div Radix, n % Radix>>
FromBe(b, i) == b[i] * Radix + b[i + 1]

(* MessageType::from_u8 and as_u8. *)
MessageTypes == <<"Data", "Attach", "Detach", "Resize", "Exit", "Screen", "Peek", "Status",
           "AcceptedSocketOwnership", "LifecycleCas", "Geometry", "ResetInputModes",
           "ConnectionError", "History">>
AsU8(t) == CHOOSE i \in 0..(Len(MessageTypes) - 1) : MessageTypes[i + 1] = t
FromU8(b) == IF b < Len(MessageTypes) THEN MessageTypes[b + 1] ELSE "Unknown"

----------------------------------------------------------------------------
(* Payloads. *)

SizePayload(rows, cols) == Be(rows) \o Be(cols)
SizeCellPayload(rows, cols, w, h) == SizePayload(rows, cols) \o Be(w) \o Be(h)
(* The identity follows the eight bytes of sizes, zero when unknown: here *)
(* one byte of pid. *)
IdentityPayload(rows, cols, w, h, pid) == SizeCellPayload(rows, cols, w, h) \o <<pid>>
DecodeSize(p) == IF Len(p) < 4 THEN <<24, 80>> ELSE <<FromBe(p, 1), FromBe(p, 3)>>
(* Mutant: the bytes after the sizes are a cell size, whatever they hold. *)
DecodeCellLoose(p) == IF Len(p) < 8 THEN <<>> ELSE <<FromBe(p, 5), FromBe(p, 7)>>
DecodeCell(p) ==
  IF Len(p) < 8 THEN <<>>
  ELSE LET w == FromBe(p, 5)
           h == FromBe(p, 7)
       IN  IF w > 0 /\ h > 0 THEN <<w, h>> ELSE <<>>
DecodeAttachIdentity(p) == IF Len(p) > 8 THEN <<p[9]>> ELSE <<>>
EncodePeek(plain, full) == <<(IF plain THEN 1 ELSE 0) + (IF full THEN 2 ELSE 0)>>
DecodePeek(p) == LET f == IF p = <<>> THEN 0 ELSE p[1] IN <<f % 2 = 1, (f \div 2) % 2 = 1>>
(* i32::to_be_bytes: the code is written in two's complement. *)
EncodeExit(code) == Be(IF code < 0 THEN code + Radix * Radix ELSE code)
DecodeExit(p) ==
  IF Len(p) < 2 THEN -1
  ELSE LET n == FromBe(p, 1) IN IF n >= (Radix * Radix) \div 2 THEN n - Radix * Radix ELSE n

EncodePacket(t, payload) == <<AsU8(t)>> \o Be(Len(payload)) \o payload
(* Built by hand, with its length, in the code. *)
EncodeConnectionError == <<AsU8("ConnectionError"), 0, 1, 0>>
DecodeConnectionError(p) == p = <<0>>

(* The messages of the exchange and the packets that carry them.  An old *)
(* client sends no cell size; an attach carries who attaches after it. *)
(* encode_packet does not look at the length: data may be too long. *)
Messages ==
  [t : {"Data"}, body : {<<>>, <<3>>, [i \in 1..(MAX_PACKET_LENGTH + 1) |-> 3]}]
    \union [t : {"Resize"}, size : Sizes \X Sizes, cell : {<<>>}, who : {<<>>}]
    \union [t : {"Resize"}, size : {<<24, 80>>}, cell : Sizes \X Sizes, who : {<<>>}]
    \union [t : {"Attach"}, size : {<<24, 80>>}, cell : {<<>>} \union (Sizes \X Sizes), who : {<<5>>}]
    \union [t : {"Peek"}, plain : BOOLEAN, full : BOOLEAN]
    \union [t : {"Exit"}, code : Codes \union {0 - c : c \in Codes}]
    \union [t : {"ConnectionError"}]
EncodeAttach(m) ==
  LET c == IF m.cell = <<>> THEN <<0, 0>> ELSE m.cell
  IN  IF m.who # <<>> THEN IdentityPayload(m.size[1], m.size[2], c[1], c[2], m.who[1])
      ELSE IF m.cell = <<>> THEN SizePayload(m.size[1], m.size[2])
      ELSE SizeCellPayload(m.size[1], m.size[2], c[1], c[2])
Encode(m) ==
  CASE m.t = "Data" -> EncodePacket("Data", m.body)
    [] m.t \in {"Attach", "Resize"} -> EncodePacket(m.t, EncodeAttach(m))
    [] m.t = "Peek" -> EncodePacket("Peek", EncodePeek(m.plain, m.full))
    [] m.t = "Exit" -> EncodePacket("Exit", EncodeExit(m.code))
    [] m.t = "ConnectionError" -> EncodeConnectionError
Decode(t, p) ==
  CASE t = "Data" -> [t |-> t, body |-> p]
    [] t \in {"Attach", "Resize"} ->
         [t |-> t, size |-> DecodeSize(p), cell |-> DecodeCell(p), who |-> DecodeAttachIdentity(p)]
    [] t = "Peek" -> [t |-> t, plain |-> DecodePeek(p)[1], full |-> DecodePeek(p)[2]]
    [] t = "Exit" -> [t |-> t, code |-> DecodeExit(p)]
    [] t = "ConnectionError" /\ DecodeConnectionError(p) -> [t |-> t]
    [] OTHER -> [t |-> "Unknown"]
(* What a message means to its reader: a cell with a zero side is unknown. *)
Meaning(m) ==
  IF m.t \in {"Attach", "Resize"} /\ m.cell # <<>> /\ 0 \in {m.cell[1], m.cell[2]}
  THEN [m EXCEPT !.cell = <<>>] ELSE m

----------------------------------------------------------------------------
(* PacketReader::feed. *)

(* Mutant: a frame is taken as soon as its length's worth of bytes, header *)
(* included, is there. *)
FrameEarly(b) ==
  IF Len(b) < HEADER_SIZE THEN [kind |-> "wait"]
  ELSE LET length == FromBe(b, 2)
       IN  IF length > MAX_PACKET_LENGTH THEN [kind |-> "error"]
           ELSE IF Len(b) < length THEN [kind |-> "wait"]
           ELSE [kind |-> "packet", type |-> FromU8(b[1]),
                 payload |-> SubSeq(b, HEADER_SIZE + 1, Min({Len(b), HEADER_SIZE + length})),
                 rest |-> SubSeq(b, HEADER_SIZE + length + 1, Len(b))]
(* One turn of the loop: a packet, too little, or too much. *)
Frame(b) ==
  IF Len(b) < HEADER_SIZE THEN [kind |-> "wait"]
  ELSE LET length == FromBe(b, 2)
       IN  IF length > MAX_PACKET_LENGTH THEN [kind |-> "error"]
           ELSE IF Len(b) < HEADER_SIZE + length THEN [kind |-> "wait"]
           ELSE [kind |-> "packet", type |-> FromU8(b[1]),
                 payload |-> SubSeq(b, HEADER_SIZE + 1, HEADER_SIZE + length),
                 rest |-> SubSeq(b, HEADER_SIZE + length + 1, Len(b))]
(* The loop: every complete packet of the buffer.  No more than Len(b) *)
(* turns are needed. *)
Drain(b) ==
  LET turn(acc, i) ==
        LET f == Frame(acc.b)
        IN  IF acc.stop THEN acc
            ELSE CASE f.kind = "wait" -> [acc EXCEPT !.stop = TRUE]
                   [] f.kind = "error" -> [acc EXCEPT !.stop = TRUE, !.err = TRUE, !.b = <<>>]
                   [] OTHER -> [acc EXCEPT !.b = f.rest, !.out = Append(@, Decode(f.type, f.payload))]
  IN  FoldLeft(turn, [b |-> b, out |-> <<>>, err |-> FALSE, stop |-> FALSE], [i \in 1..(Len(b) + 1) |-> i])

Sends(p) ==
  /\ Len(sent) < MaxPackets
  /\ sent' = Append(sent, Meaning(p))
  /\ wire' = wire \o Encode(p)
  /\ UNCHANGED <<buffer, got, failed>>
(* A read returns some of what is there. *)
Feeds(n) ==
  /\ ~failed /\ n \in 1..Len(wire)
  /\ LET d == Drain(buffer \o SubSeq(wire, 1, n))
     IN  /\ buffer' = d.b
         /\ failed' = d.err
         /\ got' = IF d.err THEN got ELSE got \o d.out
  /\ wire' = SubSeq(wire, n + 1, Len(wire))
  /\ UNCHANGED sent

WireInit == sent = <<>> /\ wire = <<>> /\ buffer = <<>> /\ got = <<>> /\ failed = FALSE
WireNext == (\E p \in Messages : Sends(p)) \/ (\E n \in 1..Len(wire) : Feeds(n))
WireSpec == WireInit /\ [][WireNext]_wvars

----------------------------------------------------------------------------
(* However a stream is cut, the reader returns the messages that were *)
(* written, in order and with the values they were written with: sizes, a *)
(* cell size only where both its numbers are positive and never out of an *)
(* identity, both flags of a peek, negative exit codes.  It has them all *)
(* once it has read everything, unless a packet declared too great a *)
(* length: then, and only then, it ends with an error as soon as that *)
(* header is complete, and returns nothing of that packet or after it *)
(* (PacketReader::feed and the decoders). *)
TooLong(m) == m.t = "Data" /\ Len(m.body) > MAX_PACKET_LENGTH
FramesSurviveCuts ==
  /\ failed => buffer = <<>> /\ \E i \in (Len(got) + 1)..Len(sent) : TooLong(sent[i])
  /\ IsPrefix(got, sent) /\ \A i \in 1..Len(got) : ~TooLong(got[i])
  /\ wire = <<>> /\ ~failed => got = sent /\ buffer = <<>>
=============================================================================
