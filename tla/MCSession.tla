-------------------------- MODULE MCSession --------------------------
(* A session's daemon: its attached clients, their input, its record, the *)
(* pty under it and its event log with a follower, each looked at by itself *)
(* in one run. *)
EXTENDS ClientInput, SessionClients

CONSTANTS
  Parts,                          \* the components this run looks at, one at a time
  MaxChanges, MaxLocks, MaxCas,   \* SessionRecord, with MaxOutput
  Capacity, END_RETRIES, INPUT_QUEUE_DEPTH, Scenes, MaxOut, MaxCalls, \* PtySubstrate
  MAX_LINES, KEEP_LINES, TRUNCATE_CHECK_INTERVAL, Inodes, MaxEvents, MaxHolds,
  MaxGen,                         \* EventLog
  Writers, Ops, EventWait, PatchWait, MaxOps, MaxForeign, MaxTick \* MetadataPatch

(* An inode that exists has a number, retention keeps no more than it *)
(* looks at and looks every so many appends, a writer is nobody's *)
(* placeholder (0) and not the launch (99), an attachment has some room *)
(* (Capacity), and nobody retries or waits for less than no time. *)
ASSUME SessionAssumption ==
  /\ Inodes # {} /\ 0 \notin Inodes
  /\ MAX_LINES \in Nat /\ KEEP_LINES \in 0..MAX_LINES /\ TRUNCATE_CHECK_INTERVAL \in Nat \ {0}
  /\ Capacity \in Nat \ {0} /\ END_RETRIES \in Nat
  /\ Writers \cap {0, 99} = {} /\ EventWait \in Nat /\ PatchWait \in Nat

VARIABLES part, m, child, row, side, files, lock, count, scene, os, ptyChild,
  pid, hit, holders, flight, kernel, wrote, due, ptyReader, ends, reaper,
  signalLock, reaped, cmds, actor, on, queue, got, owner, clients, calls,
  jobs, writer, gate, typed, answers, settler, log, elock, dm, w, meta, claim,
  f, v, n, tags, told, event, creation, wr, pub, begun, now, foreign,
  published, lost

R == INSTANCE SessionRecord
X == INSTANCE PtySubstrate WITH reader <- ptyReader, child <- ptyChild,
  lock <- signalLock
E == INSTANCE EventLog WITH row <- meta
M == INSTANCE MetadataPatch WITH rec <- tags, log <- told

recordVars == <<m, child, row, side, files, lock, count>>
substrateVars == <<scene, os, ptyChild, pid, hit, holders, flight, kernel,
  wrote, due, ptyReader, ends, reaper, signalLock, reaped, cmds, actor, on, queue,
  got, owner, clients, calls, jobs, writer, gate, typed, answers, settler>>
eventsVars == <<log, elock, dm, w, meta, claim, f, v, n>>
patchVars == <<tags, told, event, creation, wr, pub, begun, now, foreign,
  published, lost>>
vars == <<part, invars, dvars, recordVars, substrateVars, eventsVars,
          patchVars>>

(* Packets that fit the budget, fill it and exceed it; p is read-only. *)
MCScript == ("a" :> <<2, 5>>) @@ ("b" :> <<1, 3>>) @@ ("p" :> <<2>>)
MCSizes == {<<1, 2>>, <<2, 1>>}

(* A component that is not looked at has no state. *)
NoInput == pending = 0 /\ unread = 0 /\ reader = 0 /\ mailbox = 0
  /\ inputq = 0 /\ writing = 0 /\ notifying = 0 /\ gone = 0 /\ childUp = 0
  /\ exited = 0 /\ taken = 0
NoClients == d = 0 /\ link = 0 /\ used = 0
NoRecord == m = 0 /\ child = 0 /\ row = 0 /\ side = 0 /\ files = 0 /\ lock = 0
  /\ count = 0
NoSubstrate == scene = 0 /\ os = 0 /\ ptyChild = 0 /\ pid = 0 /\ hit = 0
  /\ holders = 0 /\ flight = 0 /\ kernel = 0 /\ wrote = 0 /\ due = 0 /\ ptyReader = 0
  /\ ends = 0 /\ reaper = 0 /\ signalLock = 0 /\ reaped = 0 /\ cmds = 0
  /\ actor = 0 /\ on = 0 /\ queue = 0 /\ got = 0 /\ owner = 0 /\ clients = 0
  /\ calls = 0 /\ jobs = 0 /\ writer = 0 /\ gate = 0 /\ typed = 0
  /\ answers = 0 /\ settler = 0
NoEvents == log = 0 /\ elock = 0 /\ dm = 0 /\ w = 0 /\ meta = 0 /\ claim = 0
  /\ f = 0 /\ v = 0 /\ n = 0
NoPatch == tags = 0 /\ told = 0 /\ event = 0 /\ creation = 0 /\ wr = 0
  /\ pub = 0 /\ begun = 0 /\ now = 0 /\ foreign = 0 /\ published = 0 /\ lost = 0

Init ==
  /\ part \in Parts
  /\ IF part = "input" THEN InputInit ELSE NoInput
  /\ IF part = "clients" THEN ClientsInit ELSE NoClients
  /\ IF part = "record" THEN R!RecordInit ELSE NoRecord
  /\ IF part = "substrate" THEN X!SubstrateInit ELSE NoSubstrate
  /\ IF part = "events" THEN E!EventsInit ELSE NoEvents
  /\ IF part = "patch" THEN M!PatchInit ELSE NoPatch

InputMoves ==
  part = "input" /\ InputNext /\ UNCHANGED <<part, dvars, recordVars,
    substrateVars, eventsVars, patchVars>>
ClientsMoves ==
  part = "clients" /\ ClientsNext /\ UNCHANGED <<part, invars, recordVars,
    substrateVars, eventsVars, patchVars>>
RecordMoves ==
  part = "record" /\ R!RecordNext /\ UNCHANGED <<part, invars, dvars,
    substrateVars, eventsVars, patchVars>>
SubstrateMoves ==
  part = "substrate" /\ X!SubstrateNext /\ UNCHANGED <<part, invars, dvars,
    recordVars, eventsVars, patchVars>>
EventsMoves ==
  part = "events" /\ E!EventsNext /\ UNCHANGED <<part, invars, dvars,
    recordVars, substrateVars, patchVars>>
PatchMoves ==
  part = "patch" /\ M!PatchNext /\ UNCHANGED <<part, invars, dvars,
    recordVars, substrateVars, eventsVars>>

Next == InputMoves \/ ClientsMoves \/ RecordMoves \/ SubstrateMoves
        \/ EventsMoves \/ PatchMoves

Spec == Init /\ [][Next]_vars
----------------------------------------------------------------------------
(* clients.rs, input budget: input that waits is within the budget (or one *)
(* packet larger than it), and the child gets every packet of an accepted *)
(* client whole and in order. *)
InputIsKept == part = "input" => BudgetBoundsInput /\ NothingDroppedOrReordered

(* clients.rs: a client that stays gets a screen and then everything after *)
(* it; terminal, child and clients agree on the size whenever nothing is *)
(* under way; a slow client never holds more than its byte budget. *)
ClientsAreServed ==
  part = "clients" => LiveClientsSeeEverything /\ EveryoneAgreesOnSize /\ OutboundIsBounded

(* lifecycle.rs, status.rs: the record follows the daemon, and a tree that *)
(* the startup deadline stopped is never left stopped.  mutate.rs: the *)
(* events tell the changes in order, all but those whose append failed or *)
(* whose writer died; no change is lost to another writer, a launch or a *)
(* busy lock. *)
RecordIsTrue ==
  /\ part = "record" => R!RecordFollowsDaemon /\ R!NeverLeftStopped
  /\ part = "patch" => M!EventPerChange /\ M!NoPatchIsLost

(* substrate.rs: a stream that ends has returned, in order and without a *)
(* gap, all that the reader's retries are for, and a signal reaches the *)
(* child or nobody, never a process that got its pid. *)
ChildIsOwn == part = "substrate" => X!StreamIsWhole /\ X!SignalsReachOwnChild

(* follow.rs, cli/events.rs: a line the follower passed was delivered, and *)
(* a waiter's count of unseen lines is right. *)
EventsAreDelivered == part = "events" => E!ReadIsDelivered /\ E!UnseenIsRight

(* The end of a session.  lifecycle.rs: a daemon that lost its name touches *)
(* nothing of its successor's, and a terminal startup value is rewritten *)
(* only by a client's request that expects it, before exit and shutdown. *)
(* follow.rs: a follower that ends on a recorded exit delivered that exit. *)
EndsAreOrderly ==
  [][/\ part = "record" => R!SuccessorUntouched /\ R!FirstTerminalStands
     /\ part = "events" => E!ExitIsDelivered]_vars
============================================================================
