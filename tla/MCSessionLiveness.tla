-------------------------- MODULE MCSessionLiveness --------------------------
(* What must happen in the end while a session runs and when it ends: one *)
(* component is looked at in each behaviour, under its own fairness. *)
EXTENDS Integers, Sequences, TLC

CONSTANT Parts  \* the components this run looks at, one at a time

VARIABLES part, m, recordChild, recordRow, side, files, recordLock, count,
  log, elock, dm, w, eventsRow, claim, f, v, n, a, seen, peer, session, user,
  scene, os, substrateChild, pid, hit, holders, flight, kernel, wrote,
  due, substrateReader, ends, reaper, substrateLock, reaped, cmds, actor, on,
  queue, got, owner, clients, calls, jobs, writer, gate, typed, answers,
  settler, pending, unread, inputReader, mailbox, inputq, writing, notifying,
  gone, childUp, exited, taken

R == INSTANCE SessionRecord WITH MaxChanges <- 0, MaxOutput <- 0,
  MaxLocks <- 1, MaxCas <- 3, child <- recordChild, row <- recordRow,
  lock <- recordLock
E == INSTANCE EventLog WITH MAX_LINES <- 2, KEEP_LINES <- 1,
  TRUNCATE_CHECK_INTERVAL <- 2, Inodes <- {1, 2}, MaxEvents <- 0,
  MaxHolds <- 0, MaxGen <- 2, row <- eventsRow
T == INSTANCE AttachClient WITH MaxOut <- 0, MaxConns <- 1, MaxPressed <- 1,
  Tries <- {1}
X == INSTANCE PtySubstrate WITH Capacity <- 3, END_RETRIES <- 1,
  INPUT_QUEUE_DEPTH <- 1, Scenes <- {"output", "control"}, MaxOut <- 1,
  MaxCalls <- 1, child <- substrateChild, reader <- substrateReader,
  lock <- substrateLock
I == INSTANCE ClientInput WITH Clients <- {"a", "b", "p"}, Readonly <- {"p"},
  Script <- ("a" :> <<5, 2>>) @@ ("b" :> <<3>>) @@ ("p" :> <<2>>),
  Limit <- 3, reader <- inputReader

recordVars == <<m, recordChild, recordRow, side, files, recordLock, count>>
eventsVars == <<log, elock, dm, w, eventsRow, claim, f, v, n>>
attachVars == <<a, seen, peer, session, user>>
substrateVars == <<scene, os, substrateChild, pid, hit, holders, flight,
  kernel, wrote, due, substrateReader, ends, reaper, substrateLock, reaped, cmds,
  actor, on, queue, got, owner, clients, calls, jobs, writer, gate, typed,
  answers, settler>>
inputVars == <<pending, unread, inputReader, mailbox, inputq, writing,
  notifying, gone, childUp, exited, taken>>
vars == <<part, recordVars, eventsVars, attachVars, substrateVars, inputVars>>

(* A component that is not looked at has no state. *)
NoRecord == m = 0 /\ recordChild = 0 /\ recordRow = 0 /\ side = 0 /\ files = 0
  /\ recordLock = 0 /\ count = 0
NoEvents == log = 0 /\ elock = 0 /\ dm = 0 /\ w = 0 /\ eventsRow = 0
  /\ claim = 0 /\ f = 0 /\ v = 0 /\ n = 0
NoAttach == a = 0 /\ seen = 0 /\ peer = 0 /\ session = 0 /\ user = 0
NoSubstrate == scene = 0 /\ os = 0 /\ substrateChild = 0 /\ pid = 0 /\ hit = 0
  /\ holders = 0 /\ flight = 0 /\ kernel = 0 /\ wrote = 0 /\ due = 0
  /\ substrateReader = 0 /\ ends = 0 /\ reaper = 0 /\ substrateLock = 0
  /\ reaped = 0 /\ cmds = 0 /\ actor = 0 /\ on = 0 /\ queue = 0 /\ got = 0
  /\ owner = 0 /\ clients = 0 /\ calls = 0 /\ jobs = 0 /\ writer = 0
  /\ gate = 0 /\ typed = 0 /\ answers = 0 /\ settler = 0
NoInput == pending = 0 /\ unread = 0 /\ inputReader = 0 /\ mailbox = 0
  /\ inputq = 0 /\ writing = 0 /\ notifying = 0 /\ gone = 0 /\ childUp = 0
  /\ exited = 0 /\ taken = 0

Init ==
  /\ part \in Parts
  /\ IF part = "record" THEN R!RecordInit ELSE NoRecord
  /\ IF part = "events" THEN E!EventsInit ELSE NoEvents
  /\ IF part = "attach" THEN T!AttachInit ELSE NoAttach
  /\ IF part = "substrate" THEN X!SubstrateInit ELSE NoSubstrate
  /\ IF part = "input" THEN I!InputInit ELSE NoInput

RecordMoves ==
  part = "record" /\ R!RecordNext /\ UNCHANGED <<part, eventsVars, attachVars,
    substrateVars, inputVars>>
EventsMoves ==
  part = "events" /\ E!EventsNext /\ UNCHANGED <<part, recordVars, attachVars,
    substrateVars, inputVars>>
AttachMoves ==
  part = "attach" /\ T!AttachNext /\ UNCHANGED <<part, recordVars, eventsVars,
    substrateVars, inputVars>>
SubstrateMoves ==
  part = "substrate" /\ X!SubstrateNext /\ UNCHANGED <<part, recordVars,
    eventsVars, attachVars, inputVars>>
InputMoves ==
  part = "input" /\ I!InputNext /\ UNCHANGED <<part, recordVars, eventsVars,
    attachVars, substrateVars>>

Next == RecordMoves \/ EventsMoves \/ AttachMoves \/ SubstrateMoves
        \/ InputMoves

(* The fairness that each component's own specification states, for the *)
(* one that is looked at. *)
RecordFairness ==
  /\ WF_recordVars(part = "record" /\ R!StartupTimer) /\ WF_recordVars(part = "record" /\ R!DeadlinePasses)
  /\ WF_recordVars(part = "record" /\ R!GraceTimer) /\ WF_recordVars(part = "record" /\ R!CloseLease)
  /\ WF_recordVars(part = "record" /\ R!CloseSockets) /\ WF_recordVars(part = "record" /\ R!CloseWaited)
  /\ WF_recordVars(part = "record" /\ R!CloseSettles) /\ WF_recordVars(part = "record" /\ R!CloseReaps)
  /\ WF_recordVars(part = "record" /\ recordLock /\ R!OtherLock)

EventsFairness ==
  /\ WF_eventsVars(part = "events" /\ E!FollowerStep) /\ WF_eventsVars(part = "events" /\ E!WaiterStep)
  /\ WF_eventsVars(part = "events" /\ E!DaemonStep)
  /\ WF_eventsVars(part = "events" /\ (E!RespawnPublishes \/ E!RespawnReleases))
  /\ WF_eventsVars(part = "events" /\ elock = "other" /\ E!HoldLock)

AttachFairness ==
  /\ WF_attachVars(part = "attach" /\ T!SocketReadable) /\ WF_attachVars(part = "attach" /\ T!TryReconnect)
  /\ WF_attachVars(part = "attach" /\ T!Detach) /\ WF_attachVars(part = "attach" /\ T!Sigwinch)
  /\ WF_attachVars(part = "attach" /\ T!PeerServes)

SubstrateFairness ==
  /\ WF_substrateVars(part = "substrate" /\ X!ReaderNext) /\ WF_substrateVars(part = "substrate" /\ X!ReaperNext)
  /\ WF_substrateVars(part = "substrate" /\ X!WriterNext) /\ WF_substrateVars(part = "substrate" /\ X!ActorNext)
  /\ WF_substrateVars(part = "substrate" /\ substrateChild = "exiting" /\ X!ChildExits)

InputFairness ==
  /\ \A c \in {"a", "b", "p"} : /\ WF_inputVars(part = "input" /\ I!Hold(c))
                                /\ WF_inputVars(part = "input" /\ I!SendPacket(c))
  /\ \A t \in {"actor", "writer"} : WF_inputVars(part = "input" /\ I!NotifyAll(t))
  /\ WF_inputVars(part = "input" /\ I!OnData) /\ WF_inputVars(part = "input" /\ I!OnChildExited)
  /\ WF_inputVars(part = "input" /\ I!BeginWrite) /\ WF_inputVars(part = "input" /\ I!EndWrite)

Fairness == RecordFairness /\ EventsFairness /\ AttachFairness
            /\ SubstrateFairness /\ InputFairness

Spec == Init /\ [][Next]_vars /\ Fairness
----------------------------------------------------------------------------
(* Whatever the child does with its terminal, its end reaches whoever waits *)
(* for it: the pty's owner is told (EXIT_OUTPUT_DRAIN), and a command that *)
(* waits for an event of the session is answered (events follow). *)
ExitsAreTold ==
  (\/ part = "substrate" /\ substrateChild = "dead"
   \/ part = "events" /\ E!WaitingOnEntry) ~>
  (\/ part = "substrate" /\ X!ExitTold
   \/ part = "events" /\ E!WaiterAnswered)

(* No wait is for ever: input of any size gets past the budget (InputBudget), *)
(* the input of a pty whose child is gone is answered (InputGate), a daemon *)
(* whose startup lease ran out or that was told to shut down ends (close), *)
(* and a detach key that is not doubled ends the attachment. *)
WaitsEnd ==
  (\/ part = "input"
   \/ part = "substrate" /\ gate # "open"
   \/ part = "record" /\ (R!DeadlineMissed \/ R!MustEnd)
   \/ part = "attach" /\ a.armed) ~>
  (\/ part = "input" /\ I!AllRead
   \/ part = "substrate" /\ X!InputAnswered
   \/ part = "record" /\ R!LeaseObeyed
   \/ part = "attach" /\ (~a.armed \/ ~T!Running))
============================================================================
