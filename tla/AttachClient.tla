---------------------------- MODULE AttachClient ----------------------------
(***************************************************************************)
(* pty attach at the user's end (pty-client/src/attach.rs, with stream.rs  *)
(* for the machine stream and tty.rs for the terminal): one poll loop over *)
(* the socket, stdin and SIGWINCH, that reconnects to a remote session     *)
(* with backoff until it is refused, runs out of attempts or is told to    *)
(* stop.  The daemon's end of the connection is what the client can see of *)
(* it: frames in order, cut anywhere.                                      *)
(***************************************************************************)
EXTENDS Integers, Sequences, TLC

CONSTANTS
  MaxOut,     \* bound: output the session produces
  MaxConns,   \* bound: connections made
  MaxPressed,    \* bound: keys pressed
  Tries       \* values of max_reconnect_attempts; 0 is None

VARIABLES
  a,       \* struct Attach
  seen,    \* what was printed or forwarded: the output shown, per connection
  peer,    \* the daemon's end of the current connection
  session, \* the session: output so far, exited
  user     \* the window's size, a SIGWINCH not yet handled, keys pressed so far

avars == <<a, seen, peer, session, user>>

BackoffSteps == 2   \* RECONNECT_BACKOFF_MS is a table; past it the delay is the cap
Frame(t, n) == [t |-> t, n |-> n]

(* attach: AttachParams into the loop's first state, then on_ready. *)
AttachInit ==
  /\ \E machine \in {"off", "geometry"}, remote, tty \in BOOLEAN, max \in Tries :
       a = [sock |-> 1, reader |-> "empty", machine |-> machine, raw |-> tty, remote |-> remote,
            max |-> max, exited |-> FALSE, dropped |-> FALSE, armed |-> FALSE, phase |-> "Live",
            attempt |-> 0, stdin |-> TRUE, tty |-> tty, trailer |-> "none", result |-> "none"]
  /\ seen = [conn |-> 0, geom |-> FALSE, screen |-> FALSE, upto |-> 0, torn |-> FALSE,
             early |-> FALSE, ended |-> FALSE]
  /\ \E v1 \in BOOLEAN :
       peer = [id |-> 1, open |-> TRUE, wire |-> <<>>, served |-> FALSE, size |-> 1, v1 |-> v1,
               bad |-> FALSE, detached |-> FALSE]
  /\ session = [out |-> 0, exited |-> FALSE]
  /\ user = [win |-> 1, winch |-> FALSE, keys |-> 0, stop |-> FALSE]

Running == a.result = "none"
Connected == a.sock # 0 /\ a.sock = peer.id

----------------------------------------------------------------------------
(* The other end. *)

(* The daemon answers ATTACH with GEOMETRY and SCREEN; one that is older *)
(* than the machine stream sends no GEOMETRY. *)
PeerServes ==
  /\ Running /\ Connected /\ peer.open /\ ~peer.served
  /\ peer' = [peer EXCEPT !.served = TRUE,
                          !.wire = @ \o (IF peer.v1 THEN <<Frame("Geometry", 0)>> ELSE <<>>)
                                     \o <<Frame("Screen", session.out)>>
                                     \o (IF session.exited THEN <<Frame("Exit", 0)>> ELSE <<>>),
                          !.open = ~session.exited]
  /\ UNCHANGED <<a, seen, session, user>>

PeerSpeaks ==
  /\ Running /\ session.out < MaxOut /\ ~session.exited
  /\ session' = [session EXCEPT !.out = @ + 1]
  /\ peer' = IF peer.open /\ peer.served
             THEN [peer EXCEPT !.wire = Append(@, Frame("Data", session.out + 1))] ELSE peer
  /\ UNCHANGED <<a, seen, user>>

PeerExits ==
  /\ Running /\ ~session.exited
  /\ session' = [session EXCEPT !.exited = TRUE]
  /\ peer' = IF peer.open /\ peer.served
             THEN [peer EXCEPT !.wire = Append(@, Frame("Exit", 0)), !.open = FALSE] ELSE peer
  /\ UNCHANGED <<a, seen, user>>

(* CONNECTION_ERROR for a client the daemon gives up on, a frame that is *)
(* none, or a line that is cut, in the middle of a frame or between two. *)
PeerFails ==
  /\ Running /\ Connected /\ peer.open
  /\ \/ peer' = [peer EXCEPT !.wire = Append(@, Frame("ConnectionError", 0)), !.open = FALSE]
     \/ /\ ~peer.bad
        /\ peer' = [peer EXCEPT !.wire = Append(@, Frame("Malformed", 0)), !.bad = TRUE]
     \/ \E k \in 0..Len(peer.wire) :
          peer' = [peer EXCEPT !.wire = SubSeq(@, 1, k)
                                          \o (IF k < Len(@) THEN <<Frame("Half", 0)>> ELSE <<>>),
                               !.open = FALSE]
  /\ UNCHANGED <<a, seen, session, user>>

----------------------------------------------------------------------------
(* Ends of the loop. *)

(* clean_exit: the terminal is restored, the socket closed. *)
CleanExit(s) == [s EXCEPT !.raw = FALSE, !.sock = 0]
Finish(s, code) == [CleanExit(s) EXCEPT !.result = code]
(* trailer: cleans up first; a machine stream gets its header on stderr. *)
Trailer(s, end) == [CleanExit(s) EXCEPT !.trailer = end]

(* finish_detach.  The machine stream is told first; when its reader is *)
(* gone the daemon is told nothing. *)
FinishDetach(writable) ==
  LET told == IF a.sock # 0 THEN [peer EXCEPT !.detached = TRUE] ELSE peer
  IN  CASE a.machine # "off" /\ ~writable -> /\ a' = Finish(a, "1") /\ UNCHANGED <<peer, seen>>
        [] a.machine # "off" /\ writable -> /\ a' = Finish(a, "detached") /\ peer' = told
                                            /\ seen' = [seen EXCEPT !.ended = TRUE]
        [] OTHER -> /\ a' = Finish(Trailer(a, "Detached"), "detached") /\ peer' = told
                    /\ UNCHANGED seen

----------------------------------------------------------------------------
(* Frames. *)

(* MachineStream::accept: where the stream is afterwards; a frame that *)
(* comes before its time is an old daemon. *)
StreamEvents == {"Geometry", "Screen", "Data", "Exit"}
Accepts(machine, t) ==
  IF t \notin StreamEvents THEN "skipped"
  ELSE IF \/ machine = "geometry" /\ t # "Geometry"
          \/ machine = "screen" /\ t \notin {"Geometry", "Screen"}
  THEN "unsupported"
  ELSE "forwarded"
MachineAfter(machine, t) ==
  CASE machine = "geometry" /\ t = "Geometry" -> "screen"
    [] machine = "screen" /\ t = "Screen" -> "ready"
    [] OTHER -> machine

(* What reaches the terminal or the descriptor; early: before the frames *)
(* of its own connection that it builds on. *)
Shows(f) ==
  LET old == IF seen.conn = a.sock THEN seen
             ELSE [seen EXCEPT !.conn = a.sock, !.geom = FALSE, !.screen = FALSE]
  IN  seen' = CASE f.t = "Geometry" -> [old EXCEPT !.geom = TRUE]
                [] f.t = "Screen" -> [old EXCEPT !.screen = TRUE, !.upto = f.n,
                                                 !.early = @ \/ (a.machine # "off" /\ ~old.geom)]
                [] f.t = "Data" -> [old EXCEPT !.upto = f.n, !.early = @ \/ ~old.screen,
                                               !.torn = @ \/ (old.screen /\ f.n # old.upto + 1)]
                [] f.t = "Exit" -> [old EXCEPT !.early = @ \/ ~old.screen, !.ended = TRUE]
                [] OTHER -> old

(* handle_packets, for one packet.  FALSE for writable: the descriptor's *)
(* reader is gone. *)
HandlePacket(f, writable) ==
  IF f.t = "ConnectionError"
  THEN a' = Finish(Trailer(a, "ConnectionLost"), "1") /\ UNCHANGED seen
  ELSE IF a.machine # "off"
  THEN CASE Accepts(a.machine, f.t) = "skipped" -> UNCHANGED <<a, seen>>
         [] Accepts(a.machine, f.t) = "unsupported" -> a' = Finish(a, "1") /\ UNCHANGED seen
         [] OTHER -> IF writable
                     THEN /\ Shows(f)
                          /\ a' = IF f.t = "Exit" THEN Finish([a EXCEPT !.exited = TRUE], "code")
                                  ELSE [a EXCEPT !.machine = MachineAfter(@, f.t)]
                     ELSE a' = Finish(a, "1") /\ UNCHANGED seen
  ELSE /\ Shows(f)
       /\ a' = IF f.t = "Exit"
               THEN Finish(Trailer([a EXCEPT !.exited = TRUE], "Exited"), "code") ELSE a

(* start_reconnect: the terminal stays raw and is told how to stop. *)
StartReconnect(s) == [s EXCEPT !.phase = "Reconnecting", !.attempt = 0]

(* on_disconnect, after end of file (err FALSE) or a read error. *)
Disconnected(s, err) ==
  LET c == [s EXCEPT !.sock = 0]
  IN  IF c.remote /\ ~c.exited THEN StartReconnect(c)
      ELSE IF c.machine # "off" /\ ~c.exited THEN Finish(c, "1")
      ELSE IF err \/ (~c.exited /\ ~c.dropped) THEN Finish(Trailer(c, "ConnectionLost"), "1")
      ELSE Finish(c, IF c.exited THEN "code" ELSE "1")

(* handle_socket_readable: a frame, half of one, something that is no *)
(* frame (also a frame behind half of another), or the end. *)
SocketReadable ==
  /\ Running /\ Connected
  /\ IF peer.wire # <<>>
     THEN LET f == Head(peer.wire)
          IN  /\ peer' = [peer EXCEPT !.wire = Tail(@)]
              /\ CASE f.t = "Half" -> a' = [a EXCEPT !.reader = "half"] /\ UNCHANGED seen
                   [] f.t = "Malformed" \/ (f.t # "Half" /\ a.reader = "half") ->
                        /\ a' = Disconnected([a EXCEPT !.dropped = TRUE], FALSE)
                        /\ UNCHANGED seen
                   [] OTHER -> \E writable \in {TRUE, a.machine = "off"} : HandlePacket(f, writable)
     ELSE /\ ~peer.open
          /\ \E err \in BOOLEAN : a' = Disconnected(a, err)
          /\ UNCHANGED <<peer, seen>>
  /\ UNCHANGED <<session, user>>

----------------------------------------------------------------------------
(* Reconnecting. *)

(* on_ready: raw mode once, ATTACH with the window as it is now. *)
OnReady(s, id) ==
  /\ a' = [s EXCEPT !.raw = a.tty, !.sock = id]
  /\ \E v1 \in BOOLEAN :
       peer' = [id |-> id, open |-> TRUE, wire |-> <<>>, served |-> FALSE, size |-> user.win,
                v1 |-> v1, bad |-> FALSE, detached |-> FALSE]

(* Mutant: the reader of the lost connection is kept. *)
FreshKeepsReader(s) ==
  [s EXCEPT !.dropped = FALSE, !.phase = "Live",
            !.machine = IF @ = "off" THEN @ ELSE "geometry"]
(* Mutant: the machine stream carries on where it was. *)
FreshKeepsPhase(s) ==
  [s EXCEPT !.reader = "empty", !.dropped = FALSE, !.phase = "Live"]
(* try_reconnect, dialled: everything of the old connection is reset. *)
Fresh(s) ==
  [s EXCEPT !.reader = "empty", !.dropped = FALSE, !.phase = "Live",
            !.machine = IF @ = "off" THEN @ ELSE "geometry"]

GiveUp(s) == Finish(Trailer([s EXCEPT !.phase = "Live"], "ConnectionLost"), "1")

(* try_reconnect, when the backoff is over: refused, connected, or not yet.*)
TryReconnect ==
  /\ Running /\ a.phase = "Reconnecting"
  /\ \/ /\ a' = GiveUp(a) /\ UNCHANGED peer
     \/ /\ peer.id < MaxConns
        /\ OnReady(Fresh(a), peer.id + 1)
     \/ /\ a' = IF a.max # 0 /\ a.attempt + 1 >= a.max THEN GiveUp(a)
                ELSE [a EXCEPT !.attempt = IF @ < BackoffSteps THEN @ + 1 ELSE @]
        /\ UNCHANGED peer
  /\ UNCHANGED <<seen, session, user>>

----------------------------------------------------------------------------
(* The user's end. *)

(* process_input: the detach key arms, a second one within the window *)
(* disarms and is forwarded; everything else is forwarded.  Raw mode has *)
(* taken Ctrl-C's signal away: it is a byte like any other, and without a *)
(* socket it goes nowhere (socket_write). *)
Key(k) ==
  /\ Running /\ a.stdin /\ user.keys < MaxPressed
  /\ user' = [user EXCEPT !.keys = @ + 1,
                          !.stop = @ \/ (k = "ctrl-c" /\ a.phase = "Reconnecting")]
  /\ CASE k = "ctrl-c" /\ ~a.raw -> a' = [a EXCEPT !.result = "signal"]
       [] k = "detach" -> a' = [a EXCEPT !.armed = ~@]
       [] OTHER -> UNCHANGED a
  /\ UNCHANGED <<seen, session, peer>>

(* The double-tap window closes: run returns finish_detach. *)
Detach ==
  /\ Running /\ a.armed
  /\ \E writable \in {TRUE, a.machine = "off"} : FinishDetach(writable)
  /\ UNCHANGED <<session, user>>

(* handle_stdin_readable at end of file: of a terminal, the end. *)
StdinEnds ==
  /\ Running /\ a.stdin
  /\ a' = LET c == [a EXCEPT !.stdin = FALSE] IN IF a.tty THEN Finish(c, "0") ELSE c
  /\ UNCHANGED <<seen, peer, session, user>>

(* The window changes; handle_sigwinch tells the daemon the size it has *)
(* when the signal is handled, if there is a socket. *)
WindowChanges ==
  /\ Running /\ user.win = 1
  /\ user' = [user EXCEPT !.win = 2, !.winch = TRUE]
  /\ UNCHANGED <<a, seen, peer, session>>

Sigwinch ==
  /\ Running /\ user.winch
  /\ user' = [user EXCEPT !.winch = FALSE]
  /\ peer' = IF Connected THEN [peer EXCEPT !.size = user.win] ELSE peer
  /\ UNCHANGED <<a, seen, session>>

Ended == ~Running /\ UNCHANGED avars

AttachNext ==
  \/ PeerServes \/ PeerSpeaks \/ PeerExits \/ PeerFails
  \/ SocketReadable \/ TryReconnect
  \/ \E k \in {"detach", "ctrl-c"} : Key(k)
  \/ Detach \/ StdinEnds \/ WindowChanges \/ Sigwinch \/ Ended

AttachSpec == AttachInit /\ [][AttachNext]_avars

(* The loop runs: poll returns for what is ready and for its deadlines. *)
AttachFairness ==
  /\ WF_avars(SocketReadable) /\ WF_avars(TryReconnect) /\ WF_avars(Detach) /\ WF_avars(Sigwinch)
  /\ WF_avars(PeerServes)

----------------------------------------------------------------------------
(* What the user sees is the session's output without a gap, and what a *)
(* machine reads has the geometry and the screen of its own connection *)
(* before anything that builds on them, over any number of reconnections, *)
(* also to a daemon that is older than the one before (try_reconnect's *)
(* resets, MachineStream::accept). *)
ViewIsWhole == ~seen.torn /\ ~seen.early

(* A connection is dropped as malformed only when its own daemon sent what *)
(* is no frame: a cut frame of the connection before does not count. *)
MalformedOnlyFromPeer == a.dropped /\ a.sock = 0 /\ Running => peer.bad

(* A daemon that is connected and served knows the window's size, unless a *)
(* SIGWINCH is still to be handled, also when the window changed while no *)
(* connection was up (on_ready, handle_sigwinch). *)
DaemonKnowsWindow == Running /\ Connected /\ ~user.winch => peer.size = user.win

(* The machine stream never ends in silence: exit code 0 or the session's *)
(* own comes only after an EXIT or DETACH frame, a hangup of the terminal *)
(* or a signal aside (finish_detach, on_disconnect). *)
TruncationIsReported ==
  a.machine # "off" /\ ~Running /\ a.result \notin {"1", "signal"} =>
    seen.ended \/ (a.result = "0" /\ ~a.stdin)

(* A detach key that is not doubled ends the attachment, connected or not. *)
DetachEnds == a.armed ~> (~a.armed \/ ~Running)

(* The line printed when the connection is lost says that Ctrl-C stops *)
(* reconnecting (start_reconnect). *)
CtrlCStops == user.stop ~> ~Running
=============================================================================
