--------------------------- MODULE SessionClients ---------------------------
(***************************************************************************)
(* The clients of one session as the daemon's actor keeps them            *)
(* (daemon/clients.rs, daemon/geometry.rs): roles, the negotiated size,   *)
(* the wait for the child's redraw before a client's SCREEN is cut, the   *)
(* broadcast of output, the byte budget of each connection's writer       *)
(* thread, and the facts counted in the session's record.                 *)
(*                                                                         *)
(* The actor's state is the record d, so that a handler is a function     *)
(* from states to states made of the functions it calls.  Output is       *)
(* counted in chunks: SCREEN n shows the first n, DATA n is the n-th.     *)
(* Time is the age of the last resize and what is left of each wait.      *)
(***************************************************************************)
EXTENDS Integers, Sequences, FiniteSets, FiniteSetsExt, Functions, TLC

CONSTANTS
  Ids,          \* connection ids, natural numbers: BTreeMap order is id order
  Slow,         \* the connections whose peer does not take packets at once
  Sizes,        \* <<rows, cols>> a client may ask for
  Cells,        \* cell pixel sizes a client may declare
  MaxCells,     \* the grid a negotiation refuses to exceed
  Settle,       \* REDRAW_SETTLE, in ticks
  Budget,       \* OUTBOUND_QUEUE_BYTES, in charges
  MaxOutput,    \* bound: chunks of output
  MaxRequests   \* bound: packets the clients send

ASSUME ClientsAssumption ==
  /\ Ids \subseteq Nat /\ IsFiniteSet(Ids) /\ Slow \subseteq Ids
  /\ Settle \in Nat \ {0} /\ Budget \in Nat \ {0}
  /\ Sizes \subseteq Nat \X Nat

VARIABLES
  d,       \* the actor: clients, terminal, redraw age, record bookkeeping
  link,    \* per connection: its outbound channel, writer thread and socket
  used     \* requests the clients have sent

dvars == <<d, link, used>>

----------------------------------------------------------------------------
(* One connection: its channel and what the queued bytes are charged, its *)
(* writer thread, its socket, whether it was rejected as too slow and got *)
(* the reason.  shown sums up the packets accepted so far: the last chunk *)
(* of output shown, whether one was skipped or repeated, the last size *)
(* told, and whether an EXIT followed the last SCREEN. *)

NewLink == [queue |-> <<>>, charged |-> 0, rejected |-> FALSE, reason |-> FALSE,
            writer |-> "absent", sock |-> "open",
            shown |-> [upto |-> -1, gap |-> FALSE, size |-> <<0, 0>>, exit |-> FALSE]]

Shows(v, p) ==
  CASE p.kind = "screen"   -> [v EXCEPT !.upto = p.arg, !.exit = FALSE]
    [] p.kind = "data"     -> [v EXCEPT !.upto = p.arg,
                                 !.gap = @ \/ (v.upto # -1 /\ p.arg # v.upto + 1)]
    [] p.kind = "geometry" -> [v EXCEPT !.size = p.arg]
    [] p.kind = "exit"     -> [v EXCEPT !.exit = TRUE]
    [] OTHER -> v

Live == [cut |-> "none"]

(* Client::new: a command client, live, at the terminal's size. *)
NewClient(size) == [role |-> "command", size |-> size, attached |-> FALSE,
                    gen |-> 0, phase |-> Live]

IsSettling(c) == c.phase # Live
GetsGeometry(c) == c.attached \/ c.role = "readonly"
ConstrainsSize(c) == c.role = "writable" /\ c.attached

(* What a queued packet is charged: its bytes and the slot it takes. *)
Charge(kind) == CASE kind = "screen" -> 2 [] kind \in {"end", "destroy"} -> 0
                  [] OTHER -> 1

(* send_out: a channel whose writer has ended shuts the socket. *)
SendOut(l, p) ==
  IF l.writer = "gone" THEN [l EXCEPT !.sock = "shut"]
  ELSE [l EXCEPT !.queue = Append(@, p.kind), !.shown = Shows(@, p)]

(* reject_slow_client: once; the reason only when no frame is half *)
(* written; the socket is shut either way. *)
RejectSlowClient(l) ==
  IF l.rejected THEN l
  ELSE [l EXCEPT !.rejected = TRUE, !.sock = "shut",
                 !.reason = l.writer # "writing" /\ l.sock = "open"]

Send(l, p) ==
  IF l.rejected THEN l
  ELSE IF l.charged + Charge(p.kind) > Budget THEN RejectSlowClient(l)
  ELSE SendOut([l EXCEPT !.charged =
                   IF l.writer = "gone" THEN @ ELSE @ + Charge(p.kind)], p)

(* The thread ends: what was queued is dropped and no longer charged. *)
EndWriter(l) == [NewLink EXCEPT !.writer = "gone", !.sock = "shut",
                                !.rejected = l.rejected, !.reason = l.reason]

(* Mutant: the charge is given back when the packet is taken, and again *)
(* when it is dropped. *)
WroteTwice(l) == [l EXCEPT !.writer = "idle", !.queue = Tail(@),
                           !.charged = @ - 2 * Charge(Head(l.queue))]

Wrote(l) == [l EXCEPT !.writer = "idle", !.queue = Tail(@),
                      !.charged = @ - Charge(Head(l.queue))]

(* What the writer thread does with the packet it holds: the peer takes *)
(* it, or the socket is shut and the write fails. *)
Write(l) ==
  CASE Head(l.queue) = "destroy" -> EndWriter(l)
    [] Head(l.queue) = "end" -> [Wrote(l) EXCEPT !.sock = IF @ = "open" THEN "ended" ELSE @]
    [] OTHER -> IF l.sock = "open" THEN Wrote(l) ELSE EndWriter(l)

(* The actor sends p to every client of the books that satisfies who. *)
SendTo(s, who, p) ==
  [s EXCEPT !.link = [i \in Ids |->
     IF i \in who THEN Send(s.link[i], p) ELSE s.link[i]]]

Known(s) == DOMAIN s.clients
ClientsThat(s, P(_)) == {i \in Known(s) : P(s.clients[i])}
Put(s, i, c) == [s EXCEPT !.clients = (i :> c) @@ @]

----------------------------------------------------------------------------
(* Geometry. *)

(* The kernel's window size, in cells and pixels. *)
ResizePty(s, size) == [s EXCEPT !.pty = <<size, s.cell>>]

(* Mutant: the new size goes to the clients that were live. *)
BroadcastGeometryLive(s, size) ==
  SendTo(s, ClientsThat(s, LAMBDA c : GetsGeometry(c) /\ ~IsSettling(c)),
         [kind |-> "geometry", arg |-> size])

BroadcastGeometry(s, size) ==
  SendTo(s, ClientsThat(s, GetsGeometry), [kind |-> "geometry", arg |-> size])

(* Per axis and in id order, 0 standing for "none yet": a client that asks *)
(* for 0 makes the loop start again behind it. *)
LeastAxis(s, axis) ==
  LET bound == ClientsThat(s, ConstrainsSize)
      after == {i \in bound : \A z \in bound : s.clients[z].size[axis] = 0 => z < i}
  IN  IF after = {} THEN 0 ELSE Min({s.clients[i].size[axis] : i \in after})

(* negotiate_size; its second component says whether it resized. *)
NegotiateSize(s) ==
  LET size == <<LeastAxis(s, 1), LeastAxis(s, 2)>>
      refused == \/ size[1] = 0 \/ size[2] = 0
                 \/ size[1] * size[2] > MaxCells
                 \/ size = s.size
  IN  IF refused THEN <<s, FALSE>>
      ELSE <<[ResizePty(BroadcastGeometry([s EXCEPT !.size = size], size), size)
               EXCEPT !.age = 0], TRUE>>

(* One column narrower and back: the child is told twice and the size is *)
(* what it was. *)
NudgeRedraw(s) ==
  IF s.size[2] < 2 THEN s
  ELSE ResizePty(s, s.size)

(* adopt_cell_size; cell "none" is a payload without one. *)
AdoptCellSize(s, cell) ==
  IF cell = "none" \/ cell = s.cell THEN <<s, FALSE>>
  ELSE <<[s EXCEPT !.cell = cell], TRUE>>

----------------------------------------------------------------------------
(* What `pty stats` reports of the writable clients and the session's *)
(* size.  A change of these facts is counted in the session's record; the *)
(* write itself is in SessionRecord. *)
ClientFacts(s) ==
  [size |-> s.size,
   writable |-> [i \in ClientsThat(s, ConstrainsSize) |-> s.clients[i].size]]

NoteClientChange(s) == [s EXCEPT !.facts = ClientFacts(s)]

----------------------------------------------------------------------------
(* The SCREEN cut. *)

(* Mutant: a client that comes after the exit is not told of it. *)
CutWithoutExit(s, i) ==
  IF i \notin Known(s) THEN s
  ELSE LET c == s.clients[i] IN
       IF ~IsSettling(c) \/ c.phase.gen # c.gen THEN s
       ELSE [SendTo(s, {i}, [kind |-> "screen", arg |-> s.out]) EXCEPT !.clients[i].phase = Live]

Cut(s, i) ==
  IF i \notin Known(s) THEN s
  ELSE LET c == s.clients[i] IN
       IF ~IsSettling(c) \/ c.phase.gen # c.gen THEN s
       ELSE LET shown == [SendTo(s, {i}, [kind |-> "screen", arg |-> s.out])
                           EXCEPT !.clients[i].phase = Live]
                told  == IF s.exited
                         THEN SendTo(shown, {i}, [kind |-> "exit", arg |-> 0])
                         ELSE shown
            IN  IF /\ c.phase.cut = "attach" /\ ~c.phase.matched
                   /\ ~s.exited /\ s.age < Settle
                THEN NudgeRedraw(told)
                ELSE told

(* delay -1 stands for None: cut at once. *)
ScheduleCut(s, i, cut, matched, delay) ==
  LET c == s.clients[i]
      armed == Put(s, i, [c EXCEPT !.phase =
                 [cut |-> cut, matched |-> matched, gen |-> c.gen,
                  wait |-> IF delay = -1 THEN 0 ELSE delay]])
  IN  IF delay = -1 THEN Cut(armed, i) ELSE armed

(* Every settling client whose wait is over; the order does not matter. *)
ServiceCuts(s) ==
  FoldSet(LAMBDA i, t : Cut(t, i), s,
          ClientsThat(s, LAMBDA c : IsSettling(c) /\ c.phase.wait = 0))

----------------------------------------------------------------------------
(* Packet handlers.  A packet too short for what it must hold changes *)
(* nothing, and is left out. *)

(* What an attacher waits: a whole settle after its own resize, the rest *)
(* of one after a recent resize, nothing otherwise. *)
AttachDelay(s, resized) ==
  CASE s.exited -> -1
    [] ~s.exited /\ resized -> Settle
    [] ~s.exited /\ ~resized /\ s.age < Settle -> Settle - s.age
    [] OTHER -> -1

(* Tell i the size when the negotiation did not. *)
TellGeometry(s, i, resized) ==
  IF resized THEN s
  ELSE SendTo(s, {i}, [kind |-> "geometry", arg |-> s.size])

OnAttach(s, i, size, cell) ==
  IF i \notin Known(s) THEN s
  ELSE LET celled  == AdoptCellSize(s, cell)
           c       == s.clients[i]
           matched == size = s.size
           joined  == Put(celled[1], i,
                          [c EXCEPT !.role = "writable", !.size = size,
                                    !.attached = TRUE, !.gen = @ + 1])
           nego    == NegotiateSize(joined)
           resized == nego[2]
           sized   == IF celled[2] /\ ~resized THEN ResizePty(nego[1], s.size) ELSE nego[1]
           noted   == NoteClientChange(TellGeometry(sized, i, resized))
       IN  ScheduleCut(noted, i, "attach", matched, AttachDelay(noted, resized))

OnPeek(s, i) ==
  IF i \notin Known(s) THEN s
  ELSE LET was    == ConstrainsSize(s.clients[i])
           joined == Put(s, i, [s.clients[i] EXCEPT !.role = "readonly", !.gen = @ + 1])
           nego   == NegotiateSize(joined)
           told   == TellGeometry(nego[1], i, nego[2])
           noted  == IF was THEN NoteClientChange(told) ELSE told
       IN  ScheduleCut(noted, i, "peek", TRUE, -1)

OnResize(s, i, size, cell) ==
  IF i \notin Known(s) THEN s
  ELSE IF ~ConstrainsSize(s.clients[i]) THEN s
  ELSE LET asked  == Put(s, i, [s.clients[i] EXCEPT !.size = size])
           celled == AdoptCellSize(asked, cell)
           nego   == NegotiateSize(celled[1])
           sized  == IF celled[2] /\ ~nego[2] THEN ResizePty(nego[1], s.size) ELSE nego[1]
       IN  NoteClientChange(sized)

OnClosed(s, i) ==
  IF i \notin Known(s) THEN s
  ELSE LET left == NegotiateSize([s EXCEPT !.clients =
                                    RestrictDomain(@, LAMBDA j : j # i)])[1]
       IN  IF ConstrainsSize(s.clients[i]) THEN NoteClientChange(left) ELSE left

OnDetach(s, i) ==
  OnClosed(IF i \in Known(s)
           THEN [s EXCEPT !.link[i] = SendOut(@, [kind |-> "end", arg |-> 0])]
           ELSE s, i)

OnStatus(s, i) == SendTo(s, {i} \cap Known(s), [kind |-> "status", arg |-> 0])

OnHistory(s, i) ==
  SendTo(s, {i} \cap Known(s),
         [kind |-> "history", arg |-> IF s.exited THEN -1 ELSE s.out])

(* DATA and EXIT go to live clients only. *)
Broadcast(s, p) == SendTo(s, ClientsThat(s, LAMBDA c : ~IsSettling(c)), p)

(* Only a writable client may reset the modes; what the terminal prints *)
(* for it is output like any other. *)
OnResetInputModes(s, i) ==
  IF i \in Known(s) /\ s.clients[i].role = "writable"
  THEN Broadcast([s EXCEPT !.out = @ + 1], [kind |-> "data", arg |-> s.out + 1])
  ELSE s

(* A client that is attached and past its SCREEN can answer the child's *)
(* clipboard and paste questions. *)
AnsweringClientAvailable(s) ==
  \E i \in Known(s) : ConstrainsSize(s.clients[i]) /\ ~IsSettling(s.clients[i])

OnPtyData(s) ==
  Broadcast([s EXCEPT !.out = @ + 1, !.answering = AnsweringClientAvailable(s)],
            [kind |-> "data", arg |-> s.out + 1])

(* The clients' part of finalize_exit. *)
FinalizeExit(s) ==
  Broadcast([s EXCEPT !.exited = TRUE], [kind |-> "exit", arg |-> 0])

----------------------------------------------------------------------------
(* The serving loop: one message or none, then the timers that are due. *)

State == [clients |-> d.clients, size |-> d.size, cell |-> d.cell, pty |-> d.pty,
          age |-> d.age, out |-> d.out, exited |-> d.exited,
          answering |-> d.answering, facts |-> d.facts, link |-> link]

(* The writer of a peer that reads takes each packet as it is sent; only *)
(* the last one may end the connection. *)
Drain(l) ==
  IF l.writer = "idle" /\ l.queue # <<>>
  THEN LET last == l.queue[Len(l.queue)]
       IN  Write([l EXCEPT !.queue = <<last>>, !.charged = Charge(last)])
  ELSE l

Commit(s) ==
  /\ d' = [x \in DOMAIN d |-> s[x]]
  /\ link' = [i \in Ids |-> IF i \in Slow THEN s.link[i] ELSE Drain(s.link[i])]

ClientsInit ==
  LET size == CHOOSE z \in Sizes : \A y \in Sizes : y[1] * y[2] <= z[1] * z[2]
  IN  /\ d = [clients |-> <<>>, size |-> size, cell |-> "default",
              pty |-> <<size, "default">>, age |-> Settle, out |-> 0,
              exited |-> FALSE, answering |-> FALSE,
              facts |-> [size |-> size, writable |-> <<>>]]
      /\ link = [i \in Ids |-> NewLink]
      /\ used = 0

(* One turn of the loop around a handler's result. *)
Turn(s) == Commit(ServiceCuts(s))

(* spawn_client and Msg::Connect. *)
Connect(i) ==
  /\ link[i].writer = "absent"
  /\ Turn([Put(State, i, NewClient(d.size)) EXCEPT !.link[i].writer = "idle"])
  /\ UNCHANGED used

Request(i) ==
  /\ used < MaxRequests
  /\ link[i].writer # "absent" /\ link[i].sock # "shut"
  /\ used' = used + 1

Attach(i) ==
  /\ Request(i)
  /\ \E size \in Sizes, cell \in Cells \cup {"none"} :
       Turn(OnAttach(State, i, size, cell))

Peek(i) ==
  /\ Request(i)
  /\ Turn(OnPeek(State, i))

Resize(i) ==
  /\ Request(i)
  /\ \E size \in Sizes, cell \in Cells \cup {"none"} :
       Turn(OnResize(State, i, size, cell))

Detach(i) ==
  /\ Request(i)
  /\ Turn(OnDetach(State, i))

Ask(i) ==
  /\ Request(i)
  /\ \/ Turn(OnStatus(State, i))
                           \/ Turn(OnHistory(State, i))

ResetModes(i) ==
  /\ Request(i)
  /\ d.out < MaxOutput
  /\ Turn(OnResetInputModes(State, i))

(* The reader thread's end of stream: the peer left, or the socket was *)
(* shut by this side. *)
Closed(i) ==
  /\ link[i].writer # "absent" /\ i \in Known(d)
  /\ Turn(OnClosed([State EXCEPT !.link[i].sock = "shut"], i))
  /\ UNCHANGED used

Output ==
  /\ d.out < MaxOutput
  /\ Turn(OnPtyData(State))
  /\ UNCHANGED used

Exit ==
  /\ ~d.exited
  /\ Turn(FinalizeExit(State))
  /\ UNCHANGED used

(* The loop wakes for a deadline and finds no message. *)
Wake ==
  /\ \E i \in Known(d) : IsSettling(d.clients[i]) /\ d.clients[i].phase.wait = 0
  /\ Turn(State)
  /\ UNCHANGED used

----------------------------------------------------------------------------
(* Time and the writer threads. *)

Waiting(c) == IsSettling(c) /\ c.phase.wait > 0

Tick ==
  /\ d.age < Settle \/ \E i \in Known(d) : Waiting(d.clients[i])
  /\ d' = [d EXCEPT !.age = IF @ < Settle THEN @ + 1 ELSE @,
                    !.clients = [i \in Known(d) |->
                       IF Waiting(d.clients[i])
                       THEN [d.clients[i] EXCEPT !.phase.wait = @ - 1]
                       ELSE d.clients[i]]]
  /\ UNCHANGED <<link, used>>

(* The writer thread takes a packet and holds the write lock over it. *)
WriterTake(i) ==
  LET l == link[i] IN
  /\ l.writer = "idle" /\ l.queue # <<>>
  /\ link' = [link EXCEPT ![i].writer = "writing"]
  /\ UNCHANGED <<d, used>>

WriterWrote(i) ==
  /\ link[i].writer = "writing"
  /\ link' = [link EXCEPT ![i] = Write(@)]
  /\ UNCHANGED <<d, used>>

(* The channel is closed and empty: the thread shuts the socket and ends. *)
WriterEnds(i) ==
  LET l == link[i] IN
  /\ l.writer = "idle" /\ l.queue = <<>> /\ i \notin Known(d)
  /\ link' = [link EXCEPT ![i] = EndWriter(l)]
  /\ UNCHANGED <<d, used>>

ClientsNext ==
  \/ \E i \in Ids : \/ Connect(i) \/ Attach(i) \/ Peek(i) \/ Resize(i)
                    \/ Detach(i) \/ Ask(i) \/ ResetModes(i) \/ Closed(i)
                    \/ WriterTake(i) \/ WriterWrote(i) \/ WriterEnds(i)
  \/ Output \/ Exit \/ Wake \/ Tick

----------------------------------------------------------------------------
(* Properties. *)

Reachable(i) == i \in Known(d) /\ ~link[i].rejected /\ link[i].writer # "gone"

(* Every variable has its type. *)
ClientsTypeOK ==
  /\ DOMAIN d.clients \subseteq Ids
  /\ \A i \in Known(d) :
       /\ d.clients[i].role \in {"command", "writable", "readonly"}
       /\ IsSettling(d.clients[i]) => d.clients[i].phase.wait \in 0..Settle
  /\ d.size \in Nat \X Nat /\ d.age \in 0..Settle /\ d.out \in 0..MaxOutput
  /\ \A i \in Ids : link[i].writer \in {"absent", "idle", "writing", "gone"}

(* Between "what the SCREEN shows" and "what the next DATA continues from" *)
(* nothing is lost or repeated: a DATA chunk follows the chunk, or the *)
(* SCREEN, before it; a live client has been sent everything the terminal *)
(* holds, and the EXIT of a child that is gone after its SCREEN.  A client *)
(* that settles waits for a cut of its current request: cut() drops an *)
(* older one, and the client would stay silent for ever. *)
LiveClientsSeeEverything ==
  \A i \in Ids :
    LET seen == link[i].shown IN
    /\ ~seen.gap
    /\ i \in Known(d) /\ IsSettling(d.clients[i]) =>
         d.clients[i].phase.gen = d.clients[i].gen
    /\ Reachable(i) /\ GetsGeometry(d.clients[i]) /\ ~IsSettling(d.clients[i]) =>
         seen.upto = d.out /\ (d.exited => seen.exit)

(* One size: the per-axis minimum of the clients that negotiated, known to *)
(* the kernel (with the cell size last declared) and to every client that *)
(* is told about geometry, settling or not.  It is also what the session's *)
(* record was last told of the writable clients. *)
EveryoneAgreesOnSize ==
  LET bound == ClientsThat(d, ConstrainsSize)
      axis(a) == {d.clients[i].size[a] : i \in bound}
  IN  /\ d.pty = <<d.size, d.cell>>
      /\ d.facts = ClientFacts(d)
      /\ \A i \in ClientsThat(d, GetsGeometry) : Reachable(i) => link[i].shown.size = d.size
      /\ \/ bound = {} \/ 0 \in axis(1) \cup axis(2)
         \/ Min(axis(1)) * Min(axis(2)) > MaxCells
         \/ d.size = <<Min(axis(1)), Min(axis(2))>>

(* A connection is charged for exactly what its writer still has to write, *)
(* and never more than its budget, however slow its peer. *)
OutboundIsBounded ==
  \A i \in Ids :
    LET l == link[i] IN
    /\ l.charged <= Budget
    /\ l.writer # "gone" =>
         l.charged = MapThenSumSet(LAMBDA k : Charge(l.queue[k]), 1..Len(l.queue))

ClientsSpec == ClientsInit /\ [][ClientsNext]_dvars
=============================================================================
