--------------------------- MODULE TerminalHandle ---------------------------
(***************************************************************************)
(* TerminalHandle (crates/pty/src/handle.rs): a terminal that an actor     *)
(* thread owns, fed by the reader thread of a child's pty or of a daemon's *)
(* socket, and read by callers through a message channel, a shared state   *)
(* behind a mutex and a published frame.  A reconnect is a new attempt;    *)
(* the reader threads of earlier attempts may still be sending.            *)
(*                                                                         *)
(* The terminal's content is how much output it has applied and from which *)
(* attempt.  Enhanced paste is modelled by its requests and answers.       *)
(***************************************************************************)
EXTENDS Integers, Sequences, FiniteSets, TLC

CONSTANTS
  MaxAttempts,  \* bound: connections made
  MaxPrinted,       \* bound: pieces of output
  MaxReads,     \* bound: paste reads the program asks for
  MaxQueue,     \* bound: messages waiting for the actor
  MaxUnread,    \* bound: pieces of output a reader has not read
  MaxCalls,     \* bound: calls by the handle's users
  Data          \* the packets of a read's answer that carry data, at most (MAX_TRANSACTION)

VARIABLES
  core,   \* struct Core, with the terminal and the backend's stream
  st,     \* struct State, behind the mutex
  pub,    \* Shared: the published frame's revision, the number of observers
  chan,   \* the channel to the actor
  rdr,    \* every attempt's reader thread and what it has yet to read
  prog,   \* the session: output so far, paste mode, requests made, answers received
  api     \* the callers: a snapshot under way, reads they were told of, calls made

hvars == <<core, st, pub, chan, rdr, prog, api>>

Attempts == 1..MaxAttempts
NoPaste == [open |-> 0, req |-> 0, answer |-> FALSE, data |-> 0]
Msg(m, n, x) == [m |-> m, n |-> n, x |-> x]

(* What the program writes: a piece of output that may change the paste *)
(* mode or ask for a read. *)
Piece(n, ev, req) == [t |-> "Data", n |-> n, ev |-> ev, req |-> req]

(* A handle up to its first publish, which run makes before any message. *)
FreshCore(backend) ==
  /\ core = [backend |-> backend, attempt |-> 1, stream |-> TRUE, screen |-> <<0, 0>>,
             mode |-> FALSE, paste |-> NoPaste, reads |-> 0, pmode |-> FALSE, dirty |-> FALSE,
             pc |-> "recv"]
  /\ st = [rev |-> 1, ready |-> backend = "spawn", connected |-> TRUE, connecting |-> FALSE,
           closed |-> FALSE, exited |-> FALSE, attempt |-> 1, cache |-> <<0, <<0, 0>>>>]
  /\ pub = [frame |-> 0, observers |-> 0]
  /\ chan = <<>>
  /\ api = [snap |-> "idle", reply |-> <<0, <<0, 0>>>>, told |-> {}, calls |-> 0]
NewProgram(mode) == [out |-> 0, mode |-> mode, reqs |-> 0, got |-> <<>>, wrong |-> FALSE]
Reader(n, served) == [live |-> n = 1, wire |-> <<>>, open |-> n = 1, served |-> served]

(* spawn: ready at once, a child that has said nothing. *)
SpawnHandle ==
  /\ FreshCore("spawn")
  /\ prog = NewProgram(FALSE)
  /\ rdr = [n \in Attempts |-> Reader(n, TRUE)]

(* attach_with_connector: ready once the daemon's SCREEN has arrived. *)
AttachHandle ==
  /\ FreshCore("attach")
  /\ \E mode \in BOOLEAN : prog = NewProgram(mode)
  /\ rdr = [n \in Attempts |-> Reader(n, FALSE)]

HandleInit == SpawnHandle \/ AttachHandle

Send(m) == Len(chan) < MaxQueue /\ chan' = Append(chan, m)
Alive == core.pc # "closed"

----------------------------------------------------------------------------
(* The session, and the reader threads. *)

SessionSpeaks(ev) ==
  /\ prog.out < MaxPrinted /\ Alive
  /\ ev = "read" => prog.reqs < MaxReads
  /\ \A n \in Attempts : Len(rdr[n].wire) < MaxUnread
  /\ LET req == IF ev = "read" THEN prog.reqs + 1 ELSE 0
         p == Piece(prog.out + 1, ev, req)
     IN  /\ prog' = [prog EXCEPT !.out = @ + 1, !.reqs = IF ev = "read" THEN @ + 1 ELSE @,
                                 !.mode = CASE ev = "on" -> TRUE [] ev = "off" -> FALSE [] OTHER -> @]
         /\ rdr' = [n \in Attempts |-> IF rdr[n].open /\ rdr[n].served
                                       THEN [rdr[n] EXCEPT !.wire = Append(@, p)] ELSE rdr[n]]
  /\ UNCHANGED <<core, st, pub, chan, api>>

DaemonServes(n) ==
  /\ rdr[n].open /\ ~rdr[n].served
  /\ rdr' = [rdr EXCEPT ![n].served = TRUE,
                        ![n].wire = Append(@, [t |-> "Screen", n |-> prog.out,
                                               ev |-> IF prog.mode THEN "on" ELSE "none", req |-> 0])]
  /\ UNCHANGED <<core, st, pub, chan, prog, api>>

StreamEnds(n) ==
  /\ rdr[n].open /\ rdr[n].served
  /\ \E exits \in BOOLEAN :
       rdr' = [rdr EXCEPT ![n].open = FALSE,
                          ![n].wire = IF exits \/ core.backend = "spawn"
                                      THEN Append(@, [t |-> "Exit", n |-> 0, ev |-> "none", req |-> 0])
                                      ELSE @]
  /\ UNCHANGED <<core, st, pub, chan, prog, api>>

(* The reader thread's loop: a send to an actor that is gone ends it. *)
Reads(n) ==
  /\ rdr[n].wire # <<>>
  /\ rdr' = [rdr EXCEPT ![n].wire = Tail(@), ![n].live = Alive]
  /\ IF Alive THEN Send(Msg("Frame", n, Head(rdr[n].wire))) ELSE UNCHANGED chan
(* connect_and_attach's thread ends with Disconnected. *)
ReaderReads(n) ==
  /\ core.backend = "attach" /\ rdr[n].live
  /\ \/ Reads(n)
     \/ /\ rdr[n].wire = <<>> /\ ~rdr[n].open
        /\ rdr' = [rdr EXCEPT ![n].live = FALSE]
        /\ IF Alive THEN Send(Msg("Disconnected", n, "none")) ELSE UNCHANGED chan
  /\ UNCHANGED <<core, st, pub, prog, api>>
(* spawn's thread reaps the child at the end; ChildExited, the last of the *)
(* wire, is all it says. *)
ChildReads(n) ==
  /\ core.backend = "spawn" /\ rdr[n].live
  /\ \/ Reads(n)
     \/ /\ rdr[n].wire = <<>> /\ ~rdr[n].open
        /\ rdr' = [rdr EXCEPT ![n].live = FALSE]
        /\ UNCHANGED chan
  /\ UNCHANGED <<core, st, pub, prog, api>>

----------------------------------------------------------------------------
(* What the actor does with the terminal.  c and s are Core and State; the *)
(* result adds what goes into the stream and which reads callers hear of. *)

Acts(c, s, in, told) == [core |-> c, st |-> s, in |-> in, told |-> told]

(* publish: a new revision, the cached snapshot dropped, and the *)
(* terminal's events in order; a read asked for while one is open is *)
(* refused as busy. *)
Publish(c, s, ev, req) ==
  LET s1 == [s EXCEPT !.rev = @ + 1, !.cache = <<0, <<0, 0>>>>]
      d == [c EXCEPT !.dirty = TRUE]
      open == [d EXCEPT !.reads = @ + 1,
                        !.paste = [NoPaste EXCEPT !.open = c.reads + 1, !.req = req]]
  IN  CASE ev = "on" -> Acts([d EXCEPT !.pmode = TRUE], s1, <<>>, {})
        [] ev = "off" -> Acts([d EXCEPT !.pmode = FALSE, !.paste = NoPaste], s1, <<>>, {})
        [] ev = "read" /\ c.pmode ->
             IF c.paste.open # 0 THEN Acts(d, s1, <<<<req, "busy", req>>>>, {})
             ELSE Acts(open, s1, <<>>, {<<c.attempt, c.reads + 1, req>>})
        [] OTHER -> Acts(d, s1, <<>>, {})

(* end_stream: the open read is dropped and paste events go off. *)
EndStream(c) == [c EXCEPT !.paste = NoPaste, !.mode = FALSE]
EndAndPublish(c, s) ==
  IF c.mode THEN Publish(EndStream(c), s, "off", 0) ELSE Acts(EndStream(c), s, <<>>, {})

Writes(c, f) ==
  [c EXCEPT !.screen = <<c.attempt, f.n>>,
            !.mode = CASE f.ev = "on" -> TRUE [] f.ev = "off" -> FALSE [] OTHER -> f.t # "Screen" /\ @]

(* on_exit: published, then marked; ready as well. *)
OnExit(c, s) ==
  LET a == Publish(EndStream(c), s, IF c.mode THEN "off" ELSE "none", 0)
  IN  [a EXCEPT !.st.exited = TRUE, !.st.ready = TRUE]

(* on_frame, on_output. *)
OnFrame(c, s, f) ==
  CASE f.t = "Screen" -> [Publish(Writes(c, f), s, f.ev, 0) EXCEPT !.st.ready = TRUE]
    [] f.t = "Exit" -> OnExit(c, s)
    [] OTHER -> Publish(Writes(c, f), s, f.ev, f.req)

(* on_disconnected. *)
OnDisconnected(c, s) ==
  LET a == EndAndPublish(c, s)
  IN  [a EXCEPT !.st.connected = FALSE, !.core.stream = FALSE]

(* Mutant: the read the answer is for is not compared with the open one. *)
RefusesAnyRead(c, s, m) ==
  IF m.n # c.attempt THEN "StaleAttempt"
  ELSE IF ~c.stream \/ s.closed \/ s.exited THEN "Disconnected"
  ELSE IF ~c.mode THEN "ModeDisabled"
  ELSE IF c.paste.open = 0 THEN "StaleRead"
  ELSE "none"
(* write_paste's refusals, in its order. *)
Refuses(c, s, m) ==
  IF m.n # c.attempt THEN "StaleAttempt"
  ELSE IF ~c.stream \/ s.closed \/ s.exited THEN "Disconnected"
  ELSE IF ~c.mode THEN "ModeDisabled"
  ELSE IF c.paste.open # m.x.read THEN "StaleRead"
  ELSE "none"

(* write_paste: an answer is held back until it is whole; one that grows *)
(* too large is refused as busy. *)
WritePaste(c, s, m) ==
  LET p == c.paste
      say(kind) == Acts([c EXCEPT !.paste = NoPaste], s, <<<<p.req, kind, m.x.req>>>>, {})
      same == Acts(c, s, <<>>, {})
  IN  IF Refuses(c, s, m) # "none" THEN same
      ELSE CASE m.x.packet = "ReadOk" ->
                  IF p.answer THEN same ELSE Acts([c EXCEPT !.paste.answer = TRUE], s, <<>>, {})
             [] m.x.packet = "ReadData" ->
                  IF ~p.answer THEN same
                  ELSE IF p.data < Data THEN Acts([c EXCEPT !.paste.data = @ + 1], s, <<>>, {})
                  ELSE say("busy")
             [] m.x.packet = "ReadDone" -> IF p.answer THEN say("answer") ELSE same
             [] m.x.packet = "ReadError" -> say("error")

(* input: into the stream, when there is one. *)
Input(c, in) ==
  prog' = IF c.stream
          THEN [prog EXCEPT !.got = @ \o [i \in 1..Len(in) |-> in[i][1]],
                            !.wrong = @ \/ \E i \in 1..Len(in) : in[i][1] # in[i][3]]
          ELSE prog

(* Mutant: what an earlier attempt's reader sent is applied as well. *)
CurrentAny(m) == TRUE
(* dispatch drops what is not of the current attempt. *)
CurrentMsg(m) == m.n = core.attempt

(* dispatch, but for Reconnect and Close. *)
Handles(m) ==
  CASE m.m = "Frame" -> IF CurrentMsg(m) THEN OnFrame(core, st, m.x) ELSE Acts(core, st, <<>>, {})
    [] m.m = "Disconnected" ->
         IF CurrentMsg(m) THEN OnDisconnected(core, st) ELSE Acts(core, st, <<>>, {})
    [] m.m = "ObserveFrames" ->
         Acts([core EXCEPT !.dirty = @ \/ pub.observers > 0], st, <<>>, {})
    [] m.m = "Paste" -> WritePaste(core, st, m)
    [] m.m = "Publish" -> Publish(core, st, "none", 0)   \* SetPalette, ClearGraphics, CellSize, Resize
    [] OTHER -> Acts(core, st, <<>>, {})

Dispatches ==
  /\ core.pc \in {"recv", "busy"} /\ chan # <<>>
  /\ LET m == Head(chan)
         a == Handles(m)
     IN  /\ m.m \notin {"Reconnect", "Close"}
         /\ core' = [a.core EXCEPT !.pc = "busy"]
         /\ st' = a.st
         /\ api' = IF m.m = "Snapshot"
                   THEN [api EXCEPT !.snap = "reply", !.reply = <<st.rev, core.screen>>]
                   ELSE [api EXCEPT !.told = @ \union a.told]
         /\ Input(a.core, a.in)
         /\ pub' = IF m.m = "CaptureFrame" THEN [pub EXCEPT !.frame = st.rev] ELSE pub
  /\ chan' = Tail(chan)
  /\ UNCHANGED rdr

(* flush_frame, after a message (flush_due) and when the channel is empty. *)
FlushFrame ==
  /\ core.pc = "busy"
  /\ \/ core.dirty /\ pub.observers > 0 /\ core' = [core EXCEPT !.dirty = FALSE]
     \/ chan = <<>> /\ core' = [core EXCEPT !.dirty = FALSE, !.pc = "recv"]
  /\ pub' = IF core.dirty /\ pub.observers > 0 THEN [pub EXCEPT !.frame = st.rev] ELSE pub
  /\ UNCHANGED <<st, chan, rdr, prog, api>>

(* reconnect, up to the connector: the old stream is detached, the attempt *)
(* counted, readiness taken back. *)
Reconnect ==
  /\ core.pc \in {"recv", "busy"} /\ chan # <<>> /\ Head(chan).m = "Reconnect"
  /\ core.backend = "attach"
  /\ LET a == EndAndPublish([core EXCEPT !.stream = FALSE], st)
     IN  /\ core' = [a.core EXCEPT !.attempt = @ + 1, !.pc = "connecting"]
         /\ st' = [a.st EXCEPT !.ready = FALSE, !.connected = FALSE, !.connecting = TRUE,
                               !.exited = FALSE, !.attempt = core.attempt + 1]
  /\ chan' = Tail(chan)
  /\ rdr' = [rdr EXCEPT ![core.attempt].open = FALSE]
  /\ UNCHANGED <<pub, prog, api>>
ConnectAndAttach ==
  /\ core.pc = "connecting"
  /\ \E ok \in BOOLEAN :
       /\ core' = [core EXCEPT !.pc = "busy", !.stream = ok]
       /\ st' = [st EXCEPT !.connecting = FALSE, !.connected = ok]
       /\ rdr' = [rdr EXCEPT ![core.attempt].live = ok, ![core.attempt].open = ok]
  /\ UNCHANGED <<pub, chan, prog, api>>

(* Close: the last frame, then shutdown; whoever waits for a reply is *)
(* answered by the channel's end. *)
Shutdown ==
  /\ core.pc \in {"recv", "busy"} /\ chan # <<>> /\ Head(chan).m = "Close"
  /\ core' = [core EXCEPT !.pc = "closed", !.stream = FALSE, !.dirty = FALSE]
  /\ st' = [st EXCEPT !.closed = TRUE, !.connected = FALSE]
  /\ pub' = IF core.dirty /\ pub.observers > 0 THEN [pub EXCEPT !.frame = st.rev] ELSE pub
  /\ rdr' = [n \in Attempts |-> [rdr[n] EXCEPT !.open = FALSE]]
  /\ api' = [api EXCEPT !.snap = "idle"]
  /\ chan' = <<>>
  /\ UNCHANGED prog

----------------------------------------------------------------------------
(* The callers. *)

Calls(m) ==
  /\ Alive /\ api.calls < MaxCalls
  /\ api' = [api EXCEPT !.calls = @ + 1]
  /\ Send(m)
  /\ UNCHANGED <<core, st, pub, rdr, prog>>

Call ==
  \/ Calls(Msg("Publish", 0, "none"))
  \/ Calls(Msg("CaptureFrame", 0, "none"))
  \/ Calls(Msg("Close", 0, "none"))
  \/ /\ core.backend = "attach"
     /\ core.attempt + Cardinality({i \in 1..Len(chan) : chan[i].m = "Reconnect"}) < MaxAttempts
     /\ Calls(Msg("Reconnect", 0, "none"))

(* write_enhanced_paste, for a read the caller was told of. *)
AnswerPaste ==
  \E r \in api.told, p \in {"ReadOk", "ReadData", "ReadDone", "ReadError"} :
    Calls(Msg("Paste", r[1], [read |-> r[2], req |-> r[3], packet |-> p]))

(* snapshot: the cache if it is of this revision, else a message; the *)
(* reply is cached only if the revision is still the one it was taken at. *)
SnapshotAsks ==
  /\ api.snap = "idle" /\ Alive /\ st.cache[1] # st.rev /\ api.calls < MaxCalls
  /\ api' = [api EXCEPT !.snap = "asked", !.calls = @ + 1]
  /\ Send(Msg("Snapshot", 0, "none"))
  /\ UNCHANGED <<core, st, pub, rdr, prog>>
(* Mutant: the reply is cached as of now. *)
CachesAlways(s, r) == [s EXCEPT !.cache = <<s.rev, r[2]>>]
Caches(s, r) == IF s.rev = r[1] THEN [s EXCEPT !.cache = r] ELSE s
SnapshotCaches ==
  /\ api.snap = "reply"
  /\ api' = [api EXCEPT !.snap = "idle", !.reply = <<0, <<0, 0>>>>]
  /\ st' = Caches(st, api.reply)
  /\ UNCHANGED <<core, pub, chan, rdr, prog>>

(* Mutant: a lease does not wake an actor that is idle. *)
WakesNobody == FALSE
(* observe_frames wakes the actor when it is the first lease. *)
Wakes == pub.observers = 0
ObserveFrames ==
  /\ pub.observers < 2 /\ Alive /\ api.calls < MaxCalls
  /\ pub' = [pub EXCEPT !.observers = @ + 1]
  /\ api' = [api EXCEPT !.calls = @ + 1]
  /\ IF Wakes THEN Send(Msg("ObserveFrames", 0, "none")) ELSE UNCHANGED chan
  /\ UNCHANGED <<core, st, rdr, prog>>
DropObserver ==
  /\ pub.observers > 0
  /\ pub' = [pub EXCEPT !.observers = @ - 1]
  /\ UNCHANGED <<core, st, chan, rdr, prog, api>>

HandleNext ==
  \/ \E ev \in {"none", "on", "off", "read"} : SessionSpeaks(ev)
  \/ \E n \in Attempts : DaemonServes(n) \/ StreamEnds(n) \/ ReaderReads(n) \/ ChildReads(n)
  \/ Dispatches \/ FlushFrame \/ Reconnect \/ ConnectAndAttach \/ Shutdown
  \/ Call \/ AnswerPaste \/ SnapshotAsks \/ SnapshotCaches \/ ObserveFrames \/ DropObserver

HandleSpec == HandleInit /\ [][HandleNext]_hvars

----------------------------------------------------------------------------
(* A cached snapshot of the current revision is the terminal's content, *)
(* however late the reply was stored (snapshot, publish). *)
CacheIsCurrent == st.cache[1] = st.rev => st.cache[2] = core.screen

(* A handle that is ready shows its own attempt's screen: what an earlier *)
(* connection's reader still sends is dropped, and readiness is taken back *)
(* before the new connection exists (dispatch, reconnect, on_frame). *)
ReadyIsOwnScreen ==
  st.ready /\ ~st.exited /\ core.backend = "attach" =>
    core.screen[1] = st.attempt /\ st.attempt = core.attempt

(* With an observer and nothing left to do, the published frame is the *)
(* terminal's last revision, whichever way leases come and go around the *)
(* actor's own checks (observe_frames, flush_frame). *)
ObserverIsUpToDate ==
  core.pc = "recv" /\ chan = <<>> /\ pub.observers > 0 => pub.frame = st.rev

(* Every paste read of the program is answered at most once, and with the *)
(* answer that was given for it, over mode changes, refusals and *)
(* reconnections (write_paste, publish, end_stream). *)
ReadsAnsweredOnce ==
  /\ ~prog.wrong
  /\ \A i, j \in 1..Len(prog.got) : i # j => prog.got[i] # prog.got[j]

(* A read is only refused as busy while another read of the same stream is *)
(* open: the end of a stream leaves no read behind (end_stream). *)
OpenReadIsLive == core.paste.open # 0 => core.mode /\ core.pmode
=============================================================================
