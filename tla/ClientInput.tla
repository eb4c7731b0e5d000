---------------------------- MODULE ClientInput ----------------------------
(***************************************************************************)
(* Client input on its way to the session's child: one reader thread per  *)
(* client, the byte budget they share (daemon/input_budget.rs), the       *)
(* daemon's actor, and the thread that writes to the child's terminal     *)
(* (daemon/lifecycle.rs).                                                 *)
(*                                                                         *)
(* A packet is the client it came from, its place in that client's        *)
(* stream and its size in bytes.  The budget is a mutex-protected counter *)
(* and a condition variable, so a waiting reader only looks again after a *)
(* notify_all, and the decrement and the notification are separate steps. *)
(***************************************************************************)
EXTENDS Integers, Sequences, FiniteSets, SequencesExt

CONSTANTS
  Clients,    \* the connected clients
  Readonly,   \* the clients whose role is read-only (peeking)
  Script,     \* Script[c]: the sizes of the DATA packets c sends, in order
  Limit       \* INPUT_BUDGET

ASSUME InputAssumption ==
  /\ IsFiniteSet(Clients)
  /\ Readonly \subseteq Clients
  /\ \A c \in Clients : Script[c] \in Seq(Nat \ {0})
  /\ Limit \in Nat \ {0}

VARIABLES
  pending,    \* InputBudget.pending
  unread,     \* unread[c]: packets of c still in its socket
  reader,     \* reader[c]: where c's reader thread is
  mailbox,    \* Msg::Packet values sent to the daemon's actor
  inputq,     \* the queue of the pty-input thread
  writing,    \* the packet the pty-input thread is in session.input with, if any
  notifying,  \* threads between an InputHold's decrement and its notify_all
  gone,       \* clients the actor no longer has on its books
  childUp,    \* the child still runs
  exited,     \* the actor has recorded the child's exit
  taken       \* what the kernel took for the child, in order

invars == <<pending, unread, reader, mailbox, inputq, writing, notifying,
          gone, childUp, exited, taken>>

ReaderStates == {"reading", "waiting", "woken", "granted"}

Packets(c) == [i \in 1..Len(Script[c]) |->
                 [client |-> c, at |-> i, size |-> Script[c][i]]]

InputInit ==
  /\ pending = 0
  /\ unread = [c \in Clients |-> Packets(c)]
  /\ reader = [c \in Clients |-> "reading"]
  /\ mailbox = <<>>
  /\ inputq = <<>>
  /\ writing = <<>>
  /\ notifying = {}
  /\ gone = {}
  /\ childUp = TRUE
  /\ exited = FALSE
  /\ taken = <<>>

----------------------------------------------------------------------------
(* InputBudget.hold: under the mutex, either the bytes fit (or nothing *)
(* else is pending) and are counted, or the thread waits on the condvar. *)

(* Mutants of the budget's test: the packet's own bytes are not counted; *)
(* a packet larger than the budget is never let through. *)
FitsBeforeCounting(bytes) == pending <= Limit
FitsWithoutOversize(bytes) == pending + bytes <= Limit

Fits(bytes) == pending = 0 \/ pending + bytes <= Limit

Hold(c) ==
  /\ reader[c] \in {"reading", "woken"}
  /\ unread[c] # <<>>
  /\ LET bytes == Head(unread[c]).size IN
       \/ /\ Fits(bytes)
          /\ pending' = pending + bytes
          /\ reader' = [reader EXCEPT ![c] = "granted"]
       \/ /\ ~Fits(bytes)
          /\ reader' = [reader EXCEPT ![c] = "waiting"]
          /\ UNCHANGED pending
  /\ UNCHANGED <<unread, mailbox, inputq, writing, notifying, gone, childUp,
                 exited, taken>>

(* The reader hands the packet and its hold to the actor. *)
SendPacket(c) ==
  /\ reader[c] = "granted"
  /\ mailbox' = Append(mailbox, Head(unread[c]))
  /\ unread' = [unread EXCEPT ![c] = Tail(@)]
  /\ reader' = [reader EXCEPT ![c] = "reading"]
  /\ UNCHANGED <<pending, inputq, writing, notifying, gone, childUp, exited,
                 taken>>

(* Mutant: the hold is released by its owner and again when it is dropped. *)
ReleaseHoldTwice(t, packet) ==
  /\ pending' = pending - 2 * packet.size
  /\ notifying' = notifying \cup {t}

(* Drop of an InputHold by thread t: the decrement, then notify_all. *)
ReleaseHold(t, packet) ==
  /\ pending' = pending - packet.size
  /\ notifying' = notifying \cup {t}

NotifyAll(t) ==
  /\ t \in notifying
  /\ notifying' = notifying \ {t}
  /\ reader' = [c \in Clients |->
                  IF reader[c] = "waiting" THEN "woken" ELSE reader[c]]
  /\ UNCHANGED <<pending, unread, mailbox, inputq, writing, gone, childUp,
                 exited, taken>>

----------------------------------------------------------------------------
(* The actor: on_data and write_input.  Input of a client that left the *)
(* books, of a read-only one, or for a child that exited is discarded and *)
(* its hold released. *)

(* Mutant: input is discarded, rather than held back, over the budget. *)
AcceptsWithinBudget(packet) ==
  /\ packet.client \notin gone \cup Readonly
  /\ ~exited
  /\ pending <= Limit

Accepts(packet) ==
  /\ packet.client \notin gone
  /\ ~exited
  /\ packet.client \notin Readonly

OnData ==
  /\ mailbox # <<>>
  /\ "actor" \notin notifying
  /\ mailbox' = Tail(mailbox)
  /\ LET packet == Head(mailbox) IN
       \/ /\ Accepts(packet)
          /\ inputq' = Append(inputq, packet)
          /\ UNCHANGED <<pending, notifying>>
       \/ /\ ~Accepts(packet)
          /\ ReleaseHold("actor", packet)
          /\ UNCHANGED inputq
  /\ UNCHANGED <<unread, reader, writing, gone, childUp, exited, taken>>

(* A client leaves the books: it closed, detached, or was too slow. *)
DropClient(c) ==
  /\ c \notin gone
  /\ gone' = gone \cup {c}
  /\ UNCHANGED <<pending, unread, reader, mailbox, inputq, writing, notifying,
                 childUp, exited, taken>>

ChildExits ==
  /\ childUp
  /\ childUp' = FALSE
  /\ UNCHANGED <<pending, unread, reader, mailbox, inputq, writing, notifying,
                 gone, exited, taken>>

(* Msg::ChildExited: child_status is set. *)
OnChildExited ==
  /\ ~childUp /\ ~exited
  /\ exited' = TRUE
  /\ UNCHANGED <<pending, unread, reader, mailbox, inputq, writing, notifying,
                 gone, childUp, taken>>

----------------------------------------------------------------------------
(* The pty-input thread: session.input returns when the kernel has taken *)
(* every byte, or with an error once the child is gone; either way the *)
(* hold is dropped. *)

BeginWrite ==
  /\ writing = <<>>
  /\ "writer" \notin notifying
  /\ inputq # <<>>
  /\ writing' = <<Head(inputq)>>
  /\ inputq' = Tail(inputq)
  /\ UNCHANGED <<pending, unread, reader, mailbox, notifying, gone, childUp,
                 exited, taken>>

EndWrite ==
  /\ writing # <<>>
  /\ taken' = IF childUp THEN taken \o writing ELSE taken
  /\ writing' = <<>>
  /\ ReleaseHold("writer", Head(writing))
  /\ UNCHANGED <<unread, reader, mailbox, inputq, gone, childUp, exited>>

Threads ==
  \/ \E c \in Clients : Hold(c) \/ SendPacket(c)
  \/ \E t \in {"actor", "writer"} : NotifyAll(t)
  \/ OnData
  \/ OnChildExited
  \/ BeginWrite
  \/ EndWrite

InputNext ==
  \/ Threads
  \/ \E c \in Clients : DropClient(c)
  \/ ChildExits

(* Every thread runs, and the child keeps reading until it exits: EndWrite *)
(* is enabled for as long as a write is under way. *)
InputFairness ==
  /\ \A c \in Clients : WF_invars(Hold(c)) /\ WF_invars(SendPacket(c))
  /\ \A t \in {"actor", "writer"} : WF_invars(NotifyAll(t))
  /\ WF_invars(OnData) /\ WF_invars(OnChildExited)
  /\ WF_invars(BeginWrite) /\ WF_invars(EndWrite)

InputSpec == InputInit /\ [][InputNext]_invars /\ InputFairness

----------------------------------------------------------------------------
PacketSet == UNION {{Packets(c)[i] : i \in 1..Len(Script[c])} : c \in Clients}

(* Every variable keeps its type. *)
InputTypeOK ==
  /\ pending \in Nat
  /\ unread \in [Clients -> Seq(PacketSet)]
  /\ reader \in [Clients -> ReaderStates]
  /\ mailbox \in Seq(PacketSet)
  /\ inputq \in Seq(PacketSet)
  /\ writing \in Seq(PacketSet) /\ Len(writing) <= 1
  /\ notifying \subseteq {"actor", "writer"}
  /\ gone \subseteq Clients
  /\ childUp \in BOOLEAN /\ exited \in BOOLEAN
  /\ taken \in Seq(PacketSet)

(* The packets some InputHold stands for, wherever they are. *)
Granted == {c \in Clients : reader[c] = "granted"}
HeldPackets ==
  {Head(unread[c]) : c \in Granted} \cup ToSet(mailbox) \cup ToSet(inputq)
    \cup ToSet(writing)

(* The daemon never holds more unwritten client input than INPUT_BUDGET, *)
(* except one packet that is larger than the whole budget, alone: the *)
(* bound input_budget.rs exists for, whatever the readers, the actor and *)
(* the writer interleave. *)
BudgetBoundsInput ==
  LET bytes == FoldSet(LAMBDA p, sum : sum + p.size, 0, HeldPackets) IN
    bytes <= Limit \/ Cardinality(HeldPackets) <= 1

(* What the child was given or is to be given, in order, and how many *)
(* packets of c its reader has passed on. *)
OnTheWay == taken \o writing \o inputq \o mailbox
Sent(c) == Len(Script[c]) - Len(unread[c])

(* Nothing is dropped and nothing is reordered: while the child runs, a *)
(* writable client that stays on the books has every byte it sent either *)
(* taken by the child or queued behind those, in the order it sent them. *)
NothingDroppedOrReordered ==
  \A c \in Clients \ (Readonly \cup gone) :
    childUp =>
      LET mine == {i \in DOMAIN OnTheWay : OnTheWay[i].client = c} IN
        /\ unread[c] = SubSeq(Packets(c), Sent(c) + 1, Len(Script[c]))
        /\ {OnTheWay[i] : i \in mine} = {Packets(c)[j] : j \in 1..Sent(c)}
        /\ \A i, j \in mine : i < j => OnTheWay[i].at < OnTheWay[j].at

AllRead == \A c \in Clients : unread[c] = <<>>

(* Every reader gets past its packets, whatever their size: no wakeup is *)
(* lost, and an oversize packet passes once nothing else is pending. *)
EverythingPasses == <>AllRead
============================================================================
