----------------------------- MODULE PeerQuery -----------------------------
(***************************************************************************)
(* The library and command-line clients that open a session's socket for   *)
(* one purpose (pty-client/src): connection.rs, peek.rs, send.rs, stats.rs *)
(* and readiness.rs.  One client, of one kind, against the daemons that    *)
(* serve the name one after the other; the wire carries whole frames in    *)
(* order and may be cut, overrun or corrupted at any time.                 *)
(*                                                                         *)
(* Output is numbered.  The screen shows the last piece, the scrollback    *)
(* holds all of it; the pattern a wait looks for is piece Hit.             *)
(***************************************************************************)
EXTENDS Integers, Sequences, SequencesExt, TLC

CONSTANTS
  Kinds,    \* what the client does: "connect", "peek", "follow", "send", "stats", "control", "wait"
  Hit,      \* the piece of output a wait is for
  MaxScreens,   \* bound: pieces of output
  MaxGen,   \* bound: daemons that serve the name
  Items     \* bound: items a send sends

VARIABLES
  q,      \* the client
  wire,   \* frames on their way to it, whether more can come, whether it was served
  dae,    \* the name: recorded generation, daemon behind the socket, live ones, output, mode
  got     \* what the daemon received from a send

qvars == <<q, wire, dae, got>>

PeerFrame(t, n) == [t |-> t, n |-> n]

QueryInit ==
  /\ \E k \in Kinds :
       q = [kind |-> k, pc |-> "open", conn |-> 0, exp |-> 0, pending |-> <<>>, before |-> <<>>,
            given |-> <<>>, recv |-> <<>>, closed |-> FALSE, saw |-> FALSE, item |-> 0,
            paste |-> FALSE, watch |-> FALSE, watched |-> FALSE, began |-> 0, result |-> <<"none">>]
  /\ wire = [frames |-> <<>>, open |-> FALSE, served |-> FALSE]
  /\ \E n \in 0..MaxScreens :
       dae = [rec |-> 1, sock |-> 1, live |-> {1}, out |-> n, paste |-> TRUE, exited |-> FALSE]
  /\ got = <<>>

QueryAt(pc) == q.pc = pc
QueryDone(r) == q' = [q EXCEPT !.pc = "done", !.result = r, !.conn = 0]
Fail(why) == QueryDone(<<"error", why>>)

----------------------------------------------------------------------------
(* The session's side. *)

(* Answers to what this client asks; an older daemon answers a request it *)
(* does not know with a packet of a type the client does not know. *)
Replies ==
  CASE q.kind = "connect" -> {<<PeerFrame("Geometry", 0), PeerFrame("Screen", dae.out)>>,
                              <<PeerFrame("Data", 0), PeerFrame("Screen", dae.out)>>}
    [] q.kind \in {"peek", "follow", "wait"} -> {<<PeerFrame("Screen", dae.out)>>}
    [] q.kind \in {"stats", "send"} -> {<<PeerFrame("Status", IF dae.paste THEN 1 ELSE 0)>>,
                                        <<PeerFrame("Unknown", 0)>>}
    [] q.kind = "control" -> {<<PeerFrame("LifecycleCas", q.conn)>>}

Serves ==
  /\ q.conn # 0 /\ wire.open /\ ~wire.served /\ q.pc # "asks" /\ q.conn \in dae.live
  /\ \E r \in Replies : wire' = [wire EXCEPT !.frames = @ \o r, !.served = TRUE]
  /\ UNCHANGED <<q, dae, got>>

Speaks ==
  /\ dae.out < MaxScreens /\ dae.live # {} /\ ~QueryAt("done")
  /\ dae' = [dae EXCEPT !.out = @ + 1]
  /\ wire' = IF wire.open /\ wire.served /\ q.kind \in {"connect", "follow", "wait"}
             THEN [wire EXCEPT !.frames = Append(@, PeerFrame("Data", dae.out + 1))] ELSE wire
  /\ UNCHANGED <<q, got>>

(* The slow consumer's queue is dropped for CONNECTION_ERROR, the line is *)
(* cut, or a frame is none. *)
Breaks ==
  /\ wire.open /\ q.conn # 0
  /\ \/ wire' = [wire EXCEPT !.frames = <<PeerFrame("ConnectionError", 0)>>, !.open = FALSE]
     \/ \E k \in 0..Len(wire.frames) :
          wire' = [wire EXCEPT !.frames = SubSeq(@, 1, k), !.open = FALSE]
     \/ wire' = [wire EXCEPT !.frames = Append(@, PeerFrame("Malformed", 0)), !.open = FALSE]
  /\ UNCHANGED <<q, dae, got>>

(* The daemon ends and records its exit; its connections see EXIT. *)
DaemonExits ==
  /\ ~QueryAt("done") /\ dae.sock \in dae.live
  /\ dae' = [dae EXCEPT !.live = @ \ {dae.sock}, !.sock = 0, !.exited = dae.rec = dae.sock]
  /\ wire' = IF wire.open /\ q.conn = dae.sock
             THEN [wire EXCEPT !.frames = Append(@, PeerFrame("Exit", 0)), !.open = FALSE] ELSE wire
  /\ UNCHANGED <<q, got>>

(* A successor binds the socket first and writes its record after.  The *)
(* path is a file: a process that holds none of the registry's locks may *)
(* bind it while the recorded daemon lives. *)
SuccessorBinds ==
  /\ ~QueryAt("done") /\ dae.rec < MaxGen /\ dae.sock <= dae.rec
  /\ dae' = [dae EXCEPT !.sock = dae.rec + 1, !.live = @ \union {dae.rec + 1}]
  /\ UNCHANGED <<q, wire, got>>
SuccessorRecords ==
  /\ ~QueryAt("done") /\ dae.sock > dae.rec
  /\ dae' = [dae EXCEPT !.rec = dae.sock, !.exited = FALSE]
  /\ UNCHANGED <<q, wire, got>>

(* The program in the session turns bracketed paste on or off. *)
ModeChanges ==
  /\ ~QueryAt("done") /\ q.kind = "send" /\ dae.paste
  /\ dae' = [dae EXCEPT !.paste = FALSE]
  /\ UNCHANGED <<q, wire, got>>

----------------------------------------------------------------------------
(* Connecting: is_gone and map_io_error name what a refused connect means. *)

Connects(pc) ==
  /\ q' = [q EXCEPT !.conn = dae.sock, !.pc = pc, !.exp = dae.rec, !.began = dae.out]
  /\ wire' = [frames |-> <<>>, open |-> TRUE, served |-> FALSE]

Opens ==
  /\ QueryAt("open")
  /\ IF dae.sock # 0
     THEN Connects(CASE q.kind = "control" -> "asks" [] q.kind = "connect" -> "attach"
                     [] q.kind = "send" -> "status" [] OTHER -> "read")
     ELSE IF q.kind = "wait"
     THEN q' = [q EXCEPT !.pc = "read", !.began = dae.out] /\ UNCHANGED wire
     ELSE Fail("NotReachable") /\ UNCHANGED wire
  /\ UNCHANGED <<dae, got>>

(* A read returns some frames that have arrived; one that is no frame *)
(* takes the others of its read with it (PacketReader::feed). *)
Batches == {k \in 1..Len(wire.frames) :
              \A i \in 1..(k - 1) : wire.frames[i].t # "Malformed"}
Batch(k) == SubSeq(wire.frames, 1, k)
Bad(b) == b[Len(b)].t = "Malformed"
Take(k) == wire' = [wire EXCEPT !.frames = SubSeq(@, k + 1, Len(@))]
Eof == q.conn # 0 /\ wire.frames = <<>> /\ ~wire.open

----------------------------------------------------------------------------
(* SessionConnection and AsyncConnection. *)

(* packet_event: the packets that are events. *)
IsEvent(f) == f.t \in {"Geometry", "Screen", "Data", "Exit"}

(* read_more: one read into pending. *)
ReadMore ==
  /\ q.kind = "connect" /\ q.pc \in {"attach", "up"} /\ q.pending = <<>> /\ ~q.closed
  /\ \/ \E k \in Batches :
          /\ Take(k)
          /\ q' = IF Bad(Batch(k)) THEN [q EXCEPT !.closed = TRUE, !.conn = 0]
                  ELSE LET evs == SelectSeq(Batch(k), IsEvent)
                       IN  [q EXCEPT !.pending = evs, !.recv = @ \o evs]
     \/ /\ Eof
        /\ \/ q' = [q EXCEPT !.closed = TRUE, !.conn = 0]
           \/ Fail("Connection")
        /\ UNCHANGED wire
  /\ UNCHANGED <<dae, got>>

(* Mutant: what came before the screen is put back behind what came after. *)
AttachedAtEnd(s, f) ==
  [s EXCEPT !.pc = "up", !.pending = Tail(@) \o s.before, !.before = <<>>]
(* attach_over, at the screen: what came before it is given out before *)
(* what came after it. *)
Attached(s, f) ==
  [s EXCEPT !.pc = "up", !.pending = s.before \o Tail(@), !.before = <<>>]

(* attach_over, for one event. *)
AttachOver ==
  /\ QueryAt("attach") /\ q.pending # <<>>
  /\ LET f == Head(q.pending)
     IN  q' = CASE f.t = "Screen" -> Attached(q, f)
                [] f.t = "Geometry" -> [q EXCEPT !.pending = Tail(@)]
                [] OTHER -> [q EXCEPT !.pending = Tail(@), !.before = Append(@, f)]
  /\ UNCHANGED <<wire, dae, got>>
AttachFails ==
  /\ QueryAt("attach") /\ q.pending = <<>>
  /\ Fail("ClosedBeforeScreen")       \* closed, or the caller's timeout
  /\ UNCHANGED <<wire, dae, got>>

(* next_event: pending first, then Closed for ever. *)
NextEvent ==
  /\ QueryAt("up") /\ q.pending # <<>>
  /\ q' = [q EXCEPT !.given = Append(@, Head(q.pending)), !.pending = Tail(@)]
  /\ UNCHANGED <<wire, dae, got>>
Disconnect ==
  /\ QueryAt("up") /\ (q.closed => q.pending = <<>>)
  /\ QueryDone(<<"closed">>) /\ UNCHANGED <<wire, dae, got>>

----------------------------------------------------------------------------
(* peek and follow. *)

FirstOf(b, T) == IF \E i \in 1..Len(b) : b[i].t \in T
                 THEN CHOOSE i \in 1..Len(b) : b[i].t \in T /\ \A j \in 1..(i - 1) : b[j].t \notin T
                 ELSE 0

(* peek, peek_screen_bytes_over: the first SCREEN or, of peek, EXIT. *)
Peek ==
  /\ q.kind = "peek" /\ QueryAt("read")
  /\ \/ \E k \in Batches :
          LET i == FirstOf(Batch(k), {"Screen", "Exit"})
          IN  /\ Take(k)
              /\ CASE Bad(Batch(k)) -> Fail("NotReachable")
                   [] i # 0 -> QueryDone(<<Batch(k)[i].t, Batch(k)[i].n>>)
                   [] OTHER -> UNCHANGED q
     \/ Eof /\ Fail("NotReachable") /\ UNCHANGED wire
     \/ Fail("ClosedBeforeScreen") /\ UNCHANGED wire    \* PEEK_SCREEN_TIMEOUT, of peek_screen
  /\ UNCHANGED <<dae, got>>

(* follow: everything up to the first frame that ends it. *)
Follow ==
  /\ q.kind = "follow" /\ QueryAt("read")
  /\ \/ \E k \in Batches :
          LET b == Batch(k)
              i == FirstOf(b, {"Exit", "ConnectionError"})
              shown == IF i = 0 THEN b ELSE SubSeq(b, 1, i - 1)
          IN  /\ Take(k)
              /\ q' = IF Bad(b) THEN [q EXCEPT !.pc = "done", !.result = <<"exited", 1>>]
                      ELSE [q EXCEPT !.given = @ \o shown, !.recv = @ \o shown,
                                     !.pc = IF i = 0 THEN @ ELSE "done",
                                     !.result = IF i = 0 THEN @ ELSE <<"exited", b[i].n>>]
     \/ Eof /\ QueryDone(<<"exited", 1>>) /\ UNCHANGED wire
     \/ QueryDone(<<"detached">>) /\ UNCHANGED wire
  /\ UNCHANGED <<dae, got>>

----------------------------------------------------------------------------
(* stats and send. *)

(* query_status_at, query_status_json_over: STATUS, or the reason why not. *)
MissingStatus == IF q.saw THEN "OutdatedClient" ELSE "StatsTimeout"
Status(next) ==
  /\ \/ \E k \in Batches :
          LET b == Batch(k)
              i == FirstOf(b, {"Status"})
          IN  /\ Take(k)
              /\ CASE Bad(b) -> Fail("StatsTimeout")
                   [] i # 0 -> q' = [q EXCEPT !.pc = next, !.paste = b[i].n = 1,
                                              !.result = IF next = "done" THEN <<"stats">> ELSE @]
                   [] OTHER -> q' = [q EXCEPT !.saw = @ \/ FirstOf(b, {"Unknown"}) # 0]
     \/ Fail(MissingStatus) /\ UNCHANGED wire
  /\ UNCHANGED <<dae, got>>

Stats == q.kind = "stats" /\ QueryAt("read") /\ Status("done")
SendAsks == q.kind = "send" /\ QueryAt("status") /\ Status("start")

(* send_over: paste start, the items, paste end, then the write side is *)
(* closed and the daemon waited for.  A write that fails ends the command. *)
SendsFrames(what, next) ==
  \/ /\ q.conn \in dae.live
     /\ got' = Append(got, what) /\ q' = next
  \/ /\ ~wire.open
     /\ Fail("NotReachable") /\ UNCHANGED got
SendStarts ==
  /\ QueryAt("start")
  /\ IF q.paste THEN SendsFrames("start", [q EXCEPT !.pc = "items"])
     ELSE q' = [q EXCEPT !.pc = "items"] /\ UNCHANGED got
  /\ UNCHANGED <<wire, dae>>
SendItem ==
  /\ QueryAt("items") /\ q.item < Items
  /\ SendsFrames("item", [q EXCEPT !.item = @ + 1])
  /\ UNCHANGED <<wire, dae>>
(* Mutant: success is reported before the closing mark is written. *)
SendEndsEarly ==
  /\ QueryAt("items") /\ q.item = Items
  /\ QueryDone(<<"sent">>)
  /\ UNCHANGED <<wire, dae, got>>
SendEnds ==
  /\ QueryAt("items") /\ q.item = Items
  /\ IF q.paste THEN SendsFrames("end", [q EXCEPT !.pc = "done", !.result = <<"sent">>])
     ELSE QueryDone(<<"sent">>) /\ UNCHANGED got
  /\ UNCHANGED <<wire, dae>>

----------------------------------------------------------------------------
(* compare_and_set_lifecycle and its like: request_control_json. *)

Current(binding) == dae.rec = q.exp /\ binding = q.exp /\ binding \in dae.live

(* Mutant: the record is compared, the process behind the socket is not. *)
VerifyRecordOnly == dae.rec = q.exp
(* verify_daemon_peer: the peer's credentials are the recorded daemon's. *)
VerifyDaemonPeer == Current(q.conn)

ControlAsks ==
  /\ QueryAt("asks")
  /\ IF VerifyDaemonPeer THEN q' = [q EXCEPT !.pc = "answer"] ELSE Fail("InvalidReadiness")
  /\ UNCHANGED <<wire, dae, got>>

(* The answer counts when the binding is still current after it was read. *)
ControlAnswers ==
  /\ QueryAt("answer")
  /\ \/ \E k \in Batches :
          LET i == FirstOf(Batch(k), {"LifecycleCas"})
          IN  /\ Take(k)
              /\ CASE Bad(Batch(k)) -> Fail("InvalidReadiness")
                   [] i # 0 /\ dae.rec = q.exp /\ q.exp \in dae.live ->
                        QueryDone(<<"answer", Batch(k)[i].n, q.exp>>)
                   [] i # 0 -> Fail("InvalidReadiness")
                   [] OTHER -> UNCHANGED q
     \/ Fail("ReadinessTimeout") /\ UNCHANGED wire
  /\ UNCHANGED <<dae, got>>

----------------------------------------------------------------------------
(* peek_wait: the screen every 200 ms, and the output as it arrives. *)

(* OutputWatch::wait_until, for one read: seen, lost or quiet. *)
Watched(b) ==
  LET end == FirstOf(b, {"Exit", "ConnectionError", "Malformed"})
      upto == IF end = 0 THEN b ELSE SubSeq(b, 1, end - 1)
  IN  CASE Bad(b) -> "lost"
        [] \E i \in 1..Len(upto) : upto[i].t \in {"Screen", "Data"} /\ upto[i].n = Hit -> "seen"
        [] end # 0 -> "lost"
        [] OTHER -> "quiet"

WaitWatches ==
  /\ q.kind = "wait" /\ QueryAt("read") /\ q.conn # 0
  /\ \/ \E k \in Batches :
          /\ Take(k)
          /\ CASE Watched(Batch(k)) = "seen" -> QueryDone(<<"seen">>)
               [] Watched(Batch(k)) = "lost" -> q' = [q EXCEPT !.conn = 0]
               [] OTHER -> UNCHANGED q
     \/ Eof /\ q' = [q EXCEPT !.conn = 0] /\ UNCHANGED wire
  /\ UNCHANGED <<dae, got>>

(* The look at the screen; without a screen, at the recorded last lines. *)
WaitLooks ==
  /\ q.kind = "wait" /\ QueryAt("read")
  /\ CASE dae.sock # 0 /\ dae.out = Hit -> QueryDone(<<"seen">>)
       [] dae.sock = 0 /\ dae.exited -> QueryDone(IF dae.out >= Hit THEN <<"seen">> ELSE <<"exited">>)
       [] OTHER -> UNCHANGED q
  /\ UNCHANGED <<wire, dae, got>>

(* The timeout: one more read of the watch, then the full scrollback. *)
(* watched is what it was before that read. *)
TimedOut(watched) ==
  IF dae.sock # 0 /\ dae.out >= Hit THEN QueryDone(<<"missed", watched>>) ELSE QueryDone(<<"timed out">>)
WaitTimesOut ==
  /\ q.kind = "wait" /\ QueryAt("read")
  /\ IF q.conn # 0 /\ wire.frames # <<>>
     THEN \E k \in Batches :
            IF Watched(Batch(k)) = "seen" THEN QueryDone(<<"seen">>) ELSE TimedOut(TRUE)
     ELSE TimedOut(q.conn # 0)
  /\ UNCHANGED <<wire, dae, got>>

QueryEnded == QueryAt("done") /\ UNCHANGED qvars

QueryNext ==
  \/ Serves \/ Speaks \/ Breaks \/ DaemonExits \/ SuccessorBinds \/ SuccessorRecords \/ ModeChanges
  \/ Opens \/ ReadMore \/ AttachOver \/ AttachFails \/ NextEvent \/ Disconnect
  \/ Peek \/ Follow \/ Stats \/ SendAsks \/ SendStarts \/ SendItem \/ SendEnds
  \/ ControlAsks \/ ControlAnswers \/ WaitWatches \/ WaitLooks \/ WaitTimesOut \/ QueryEnded

QuerySpec == QueryInit /\ [][QueryNext]_qvars

----------------------------------------------------------------------------
(* A connection gives out every event it read, once and in the order the *)
(* daemon sent them, the screen it attached with and the geometry before *)
(* it aside, however the frames fell into reads (read_more's queue and *)
(* attach_over's second one). *)
NothingLostOrReordered ==
  q.kind = "connect" /\ q.pc \in {"up", "done"} /\ q.given # <<>> =>
    LET i == FirstOf(q.recv, {"Screen"})
        Early(f) == f.t # "Geometry"
        due == SelectSeq(SubSeq(q.recv, 1, i - 1), Early) \o SubSeq(q.recv, i + 1, Len(q.recv))
    IN  IsPrefix(q.given, due) /\ (q.pc = "up" => q.given \o q.pending = due)

(* A control answer that is returned was given by the daemon of the *)
(* generation the caller asked about, whatever was bound to the name's *)
(* socket in the meantime (verify_daemon_peer, verify_binding_still_current). *)
ControlAnswerIsOwn == q.result[1] = "answer" => q.result[2] = q.result[3]

(* A send that reports success delivered its items once, in order, inside *)
(* one pair of paste marks or none (send_over). *)
SendIsWhole ==
  q.result = <<"sent">> =>
    LET items == [i \in 1..Items |-> "item"]
    IN  got = IF q.paste THEN <<"start">> \o items \o <<"end">> ELSE items

(* PeekWaitError::Missed with watched set says that the pattern was *)
(* printed before the wait began. *)
MissedSaysWhy == q.result = <<"missed", TRUE>> => q.began >= Hit
=============================================================================
