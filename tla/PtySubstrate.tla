---------------------------- MODULE PtySubstrate ----------------------------
(***************************************************************************)
(* The pty substrate (crates/pty-spawn/src/substrate.rs): the owner actor  *)
(* of one terminal and its child, the reader, reaper and writer threads it *)
(* starts, the bounded event queues of its attachments, and the fence that *)
(* keeps a signal from a pid that was reused.  And the other way a signal  *)
(* is sent: a recovery that pins a recorded process first (exact.rs).      *)
(***************************************************************************)
EXTENDS Integers, Sequences, FiniteSets, SequencesExt

CONSTANTS
  Capacity,           \* an attachment's capacity; an event costs 1, a byte 1
  END_RETRIES,        \* reads of the end before it is believed
  INPUT_QUEUE_DEPTH,  \* input jobs behind the one being written
  Scenes,             \* which of "output", "control", "settle" is explored
  MaxOut,             \* bound: bytes written to the terminal
  MaxCalls            \* bound: client calls

VARIABLES
  scene, os,
  child,     \* running, stopped, exiting, dead (a zombie) or gone (collected)
  pid,       \* whom the child's pid names: child, nobody or other
  hit,       \* whom a signal reached
  holders,   \* who has the slave open: child and descendants ("kin")
  flight,    \* bytes written that have not reached the master
  kernel,    \* bytes at the master
  wrote,     \* bytes written so far; the n-th byte is n
  due,       \* ghost: what the reader's retries are for, see Waiting
  reader, ends, reaper,
  lock, reaped,   \* ChildSignals
  cmds,      \* the actor's channel
  actor,     \* Actor: life, told (published), timer, closed, late, pc
  on,        \* Actor::attachments
  queue, got,  \* the attachments' queues and what their streams returned
  owner, clients, calls,
  jobs, writer, gate, typed, \* input: the queue, the job being written, InputGate, bytes in the terminal
  answers,
  settler    \* the recovery: pc, pin, watch, answer

childvars == <<child, pid, hit>>
termvars == <<holders, flight, kernel, wrote, due>>
fencevars == <<lock, reaped>>
streamvars == <<on, queue, got>>
inputvars == <<jobs, writer, gate, typed, answers>>
threadvars == <<reader, ends, reaper>>
callvars == <<owner, clients, calls>>
xvars == <<scene, os, childvars, termvars, threadvars, fencevars, cmds, actor, streamvars, callvars, inputvars, settler>>

Streams == {1, 2}   \* the owner's pre-registered stream, one attached later
OnFull(s) == IF s = 1 THEN "HoldReader" ELSE "Detach"
Event(t, v) == <<t, v>>
EventCost(e) == IF e[1] = "data" THEN 2 ELSE 1
NewQueue(there) ==
  [events |-> <<>>, queued |-> 0, reserved |-> 0, overflowed |-> FALSE, sender_gone |-> FALSE, receiver_gone |-> ~there]
InputSize == 2   \* bytes of one input call
InputRoom == 1   \* bytes the terminal holds unread

----------------------------------------------------------------------------
(* Queue::push.  A finished attachment takes nothing. *)
Finished(q) == q.receiver_gone \/ q.overflowed
Reserved(q, e) == IF e[1] = "data" /\ q.reserved > 0 THEN q.reserved - 1 ELSE q.reserved
Overflows(s, q, e) == OnFull(s) = "Detach" /\ q.queued + EventCost(e) > Capacity
Push(s, q, e) ==
  IF Finished(q) THEN q
  ELSE IF Overflows(s, q, e) THEN [q EXCEPT !.overflowed = TRUE, !.reserved = Reserved(q, e)]
  ELSE [q EXCEPT !.events = Append(@, e), !.queued = @ + EventCost(e), !.reserved = Reserved(q, e)]
(* Actor::broadcast: who refuses the event is forgotten, and a forgotten *)
(* attachment closes its stream (Attachment's drop). *)
Refused(s, q, e) == Finished(q) \/ Overflows(s, q, e)
Broadcast(qs, ons, e) ==
  [s \in Streams |-> IF s \notin ons THEN qs[s]
                     ELSE [Push(s, qs[s], e) EXCEPT !.sender_gone = Refused(s, qs[s], e)]]
Kept(qs, ons, e) == {s \in ons : ~Refused(s, qs[s], e)}
Broadcasts(e) == queue' = Broadcast(queue, on, e) /\ on' = Kept(queue, on, e) /\ UNCHANGED got
(* Actor::publish_lifecycle, after the actor's other fields changed to a. *)
PublishLifecycle(a, qs, ons) ==
  LET e == Event("life", a.life)
      told == a.told # a.life
  IN  /\ actor' = [a EXCEPT !.told = a.life, !.timer = FALSE]
      /\ queue' = IF told THEN Broadcast(qs, ons, e) ELSE qs
      /\ on' = IF told THEN Kept(qs, ons, e) ELSE ons
      /\ UNCHANGED got
(* AttachStream::recv, with and without a timeout, and its drop. *)
Pop(s) ==
  LET q == queue[s]
  IN  /\ ~q.receiver_gone /\ (s = 1 \/ got[s] # <<>> \/ q.events # <<>>)
      /\ \/ /\ q.events # <<>>
            /\ queue' = [queue EXCEPT ![s].events = Tail(@), ![s].queued = @ - EventCost(Head(q.events))]
            /\ got' = [got EXCEPT ![s] = Append(@, Head(q.events))]
         \/ /\ q.events = <<>> /\ (q.overflowed \/ q.sender_gone) /\ ~\E i \in DOMAIN got[s] : got[s][i][1] = "error"
            /\ got' = [got EXCEPT ![s] = Append(@, Event("error", IF q.overflowed THEN "overflowed" ELSE "closed"))]
            /\ UNCHANGED queue
      /\ UNCHANGED <<scene, os, childvars, termvars, threadvars, fencevars, cmds, actor, on, callvars, inputvars, settler>>
DropStream(s) ==
  /\ s \in on /\ ~queue[s].receiver_gone
  /\ queue' = [queue EXCEPT ![s] = [@ EXCEPT !.receiver_gone = TRUE, !.events = <<>>, !.queued = 0]]
  /\ UNCHANGED <<scene, os, childvars, termvars, threadvars, fencevars, cmds, actor, on, got, callvars, inputvars, settler>>

----------------------------------------------------------------------------
NewActor ==
  [life |-> "running", told |-> "running", timer |-> FALSE, closed |-> FALSE, late |-> FALSE, pc |-> "idle", ended |-> FALSE]
(* external_owned_pair_attached pre-registers the owner's stream; *)
(* external_owned does not. *)
Registered(there) == Push(1, NewQueue(there), Event("life", "running"))
(* start_owner: the four threads. *)
SubstrateInit ==
  /\ scene \in Scenes
  /\ os \in (CASE scene = "output" -> {"linux"} [] scene = "control" -> {"linux", "macos"} [] OTHER -> {"linux", "macos", "other"})
  /\ child = "running" /\ pid = "child" /\ hit = {}
  /\ holders \in (IF scene = "output" THEN {{"child"}, {"child", "kin"}} ELSE {{"child"}}) /\ flight = <<>> /\ kernel = <<>> /\ wrote = 0
  /\ due = [upto |-> 0, waited |-> 0, slow |-> FALSE]
  /\ reader = (IF scene = "settle" THEN "done" ELSE "room") /\ ends = 0 /\ reaper = "wait" /\ lock = "" /\ reaped = FALSE /\ cmds = <<>>
  /\ actor = NewActor
  /\ \E there \in (IF scene = "output" THEN BOOLEAN ELSE {FALSE}) :
       /\ on = IF there THEN {1} ELSE {}
       /\ queue = [s \in Streams |-> IF s = 1 THEN Registered(there) ELSE NewQueue(TRUE)]
  /\ got = [s \in Streams |-> <<>>]
  /\ owner = TRUE /\ clients = TRUE /\ calls = 0
  /\ jobs = <<>> /\ writer = [job |-> 0, left |-> 0] /\ gate = "open" /\ typed = <<>> /\ answers = <<>>
  /\ settler \in [pc : {IF scene = "settle" THEN "start" ELSE "none"}, pin : {"none"}, watch : {"none"}, answer : {""},
                  boot : IF scene = "settle" THEN {"here", "other", "legacy", "unreadable"} ELSE {"here"}]

----------------------------------------------------------------------------
(* The child and its terminal. *)
World == UNCHANGED <<scene, os, threadvars, fencevars, cmds, actor, streamvars, callvars, jobs, writer, gate, answers, settler>>
Writes(h) ==
  /\ scene = "output" /\ h \in holders /\ wrote < MaxOut /\ (h = "child" => child = "running")
  /\ wrote' = wrote + 1 /\ flight' = Append(flight, wrote + 1)
  /\ due' = IF due.waited = 0 THEN [due EXCEPT !.upto = wrote + 1] ELSE due
  /\ UNCHANGED <<childvars, holders, kernel, typed>> /\ World
Arrives ==
  /\ flight # <<>> /\ kernel' = Append(kernel, Head(flight)) /\ flight' = Tail(flight)
  /\ UNCHANGED <<childvars, holders, wrote, due, typed>> /\ World
(* A live child may close the terminal and open /dev/tty again. *)
ChildReopens ==
  /\ scene = "output" /\ child = "running"
  /\ holders' = IF "child" \in holders THEN holders \ {"child"} ELSE holders \union {"child"}
  /\ UNCHANGED <<childvars, flight, kernel, wrote, due, typed>> /\ World
ChildExits ==
  /\ child \in {"running", "exiting"}
  /\ child' = IF child = "running" THEN "exiting" ELSE "dead"
  /\ holders' = holders \ {"child"}
  /\ UNCHANGED <<pid, hit, flight, kernel, wrote, due, typed>> /\ World
KinLeaves ==
  /\ "kin" \in holders /\ holders' = holders \ {"kin"}
  /\ UNCHANGED <<childvars, flight, kernel, wrote, due, typed>> /\ World
ChildReadsInput ==
  /\ child = "running" /\ typed # <<>> /\ typed' = Tail(typed)
  /\ UNCHANGED <<childvars, termvars>> /\ World
PidReused ==
  /\ pid = "nobody" /\ pid' = "other"
  /\ UNCHANGED <<child, hit, termvars, typed>> /\ World
(* A signal reaches whoever has the pid. *)
Signalled(who, sig) ==
  /\ hit' = hit \union ({who} \ {"nobody"})
  /\ child' = IF who # "child" \/ child \notin {"running", "stopped"} THEN child
              ELSE CASE sig = "kill" -> "exiting"
                     [] sig = "stop" -> "stopped"
                     [] OTHER -> IF child = "running" THEN "exiting" ELSE child   \* a TERM waits while stopped

----------------------------------------------------------------------------
(* read_master. *)
ReaderGuard == UNCHANGED <<scene, os, childvars, holders, flight, wrote, reaper, fencevars, actor, on, got, callvars, inputvars, settler>>
WaitForRoom ==
  /\ reader = "room"
  /\ queue[1].receiver_gone \/ queue[1].sender_gone \/ queue[1].queued + queue[1].reserved < Capacity
  /\ reader' = "read"
  /\ UNCHANGED <<kernel, ends, due, cmds, queue>> /\ ReaderGuard
ReadsData ==
  /\ reader = "read" /\ kernel # <<>>
  /\ kernel' = Tail(kernel) /\ ends' = 0 /\ reader' = "room"
  /\ due' = [due EXCEPT !.upto = wrote, !.waited = 0]
  /\ queue' = [queue EXCEPT ![1].reserved = IF queue[1].receiver_gone THEN @ ELSE @ + 1]
  /\ cmds' = Append(cmds, [t |-> "output", v |-> Head(kernel)])
  /\ ReaderGuard
CanReopenTerminal == ~reaped
(* Mutant: the first end of a child that was collected is believed. *)
BelievesAtOnce == ~CanReopenTerminal
(* A last write may reach the master after the first end was read (the *)
(* comment in read_master). *)
BelievesEnd == ends >= END_RETRIES /\ ~CanReopenTerminal
(* Ghost: the bytes written before an end was read, counted from the last *)
(* byte read, are due; one that is still on its way after END_RETRIES ends *)
(* is slower than the retries allow for.  A byte written later, by a child *)
(* that opened its terminal again, is not due: the ends count on. *)
Waiting ==
  due' = [due EXCEPT !.waited = IF @ < END_RETRIES THEN @ + 1 ELSE @,
                     !.slow = @ \/ (due.waited >= END_RETRIES /\ flight # <<>> /\ Head(flight) <= due.upto)]
ReadsEnd ==
  /\ reader = "read" /\ kernel = <<>> /\ holders = {}
  /\ Waiting
  /\ reader' = IF BelievesEnd THEN "done" ELSE "room"
  /\ ends' = IF ends < END_RETRIES THEN ends + 1 ELSE ends
  /\ cmds' = IF BelievesEnd THEN Append(cmds, [t |-> "closed", v |-> 0]) ELSE cmds
  /\ UNCHANGED <<kernel, queue>> /\ ReaderGuard

----------------------------------------------------------------------------
(* reap_child: wait without collecting, then collect under the fence. *)
ReaperGuard == UNCHANGED <<scene, os, hit, termvars, reader, ends, actor, streamvars, callvars, inputvars, settler>>
(* Mutant: macOS reports a stopped child here, and that ends the wait. *)
WaitUntilExitedOrStopped == child = "dead" \/ (os = "macos" /\ child = "stopped")
(* wait_until_exited: reports of a stop are consumed and waited past. *)
WaitUntilExited == child = "dead"
ReaperWakes ==
  /\ scene # "settle" /\ reaper = "wait" /\ WaitUntilExited /\ reaper' = "lock"
  /\ UNCHANGED <<child, pid, fencevars, cmds>> /\ ReaperGuard
ReaperLocks ==
  /\ reaper = "lock" /\ lock = "" /\ lock' = "reaper" /\ reaper' = "collect"
  /\ UNCHANGED <<child, pid, reaped, cmds>> /\ ReaperGuard
CollectFenced ==
  /\ reaper = "collect" /\ child = "dead"
  /\ child' = "gone" /\ pid' = "nobody" /\ reaped' = TRUE /\ lock' = "" /\ reaper' = "tell"
  /\ UNCHANGED cmds /\ ReaperGuard
ReaperTells ==
  /\ reaper = "tell" /\ reaper' = "done"
  /\ cmds' = Append(cmds, [t |-> "reaped", v |-> 0])
  /\ UNCHANGED <<child, pid, fencevars>> /\ ReaperGuard

----------------------------------------------------------------------------
(* What clients and the owner ask of the actor. *)
AskGuard == UNCHANGED <<scene, os, childvars, termvars, threadvars, fencevars, actor, streamvars, jobs, writer, gate, typed, settler>>
Requests(kind, stale) ==
  /\ scene = "control" /\ clients /\ calls < MaxCalls /\ ~actor.ended
  /\ calls' = calls + 1 /\ answers' = Append(answers, "waiting")
  /\ cmds' = Append(cmds, [t |-> kind, v |-> calls + 1, stale |-> stale])
  /\ UNCHANGED <<owner, clients>> /\ AskGuard
Attaches(stale) ==
  /\ scene = "output" /\ owner /\ calls = 0
  /\ calls' = 1 /\ cmds' = Append(cmds, [t |-> "attach", v |-> 2, stale |-> stale])
  /\ UNCHANGED <<owner, clients, answers>> /\ AskGuard
(* The last SessionOwner is dropped, or lose_ownership is called. *)
OwnerDrops ==
  /\ owner /\ scene = "control" /\ owner' = FALSE /\ cmds' = Append(cmds, [t |-> "lost", v |-> 0])
  /\ UNCHANGED <<clients, calls, answers>> /\ AskGuard
ClientsDrop ==
  /\ ~owner /\ clients /\ clients' = FALSE
  /\ UNCHANGED <<owner, calls, cmds, answers>> /\ AskGuard

----------------------------------------------------------------------------
(* Actor::handle, one command at a time. *)
Handles(t) == scene # "settle" /\ actor.pc = "idle" /\ ~actor.ended /\ cmds # <<>> /\ Head(cmds).t = t /\ cmds' = Tail(cmds)
ActorGuard == UNCHANGED <<scene, os, termvars, threadvars, reaped, callvars, writer, typed, settler>>
Quiet == UNCHANGED <<childvars, lock, jobs, gate, answers>>
Reply(c, a) == answers' = [answers EXCEPT ![c] = a]
(* check, then running: why a request is refused. *)
Refusal(c) ==
  CASE c.stale -> "stale"
    [] actor.life = "exited" -> "exited"
    [] actor.life = "lost" -> "lost"
    [] OTHER -> ""
HandleAttach ==
  /\ Handles("attach")
  /\ IF Head(cmds).stale THEN UNCHANGED <<queue, on>>
     ELSE LET first == Push(2, queue[2], Event("life", actor.told))
              whole == IF actor.closed THEN Push(2, first, Event("closed", 0)) ELSE first
          IN  queue' = [queue EXCEPT ![2] = whole] /\ on' = on \union {2}
  /\ UNCHANGED <<actor, got>> /\ Quiet /\ ActorGuard
(* submit_input: the writer answers, unless its queue is full. *)
HandleInput ==
  /\ Handles("input")
  /\ LET c == Head(cmds)
     IN  CASE Refusal(c) # "" -> Reply(c.v, Refusal(c)) /\ UNCHANGED jobs
           [] Len(jobs) >= INPUT_QUEUE_DEPTH -> Reply(c.v, "backpressure") /\ UNCHANGED jobs
           [] OTHER -> jobs' = Append(jobs, c.v) /\ UNCHANGED answers
  /\ UNCHANGED <<childvars, lock, gate, actor, streamvars>> /\ ActorGuard
HandleQuery(kind) ==   \* lifecycle, resize
  /\ Handles(kind)
  /\ LET c == Head(cmds)
     IN  Reply(c.v, IF c.stale THEN "stale"
                    ELSE IF kind = "query" THEN actor.life
                    ELSE IF Refusal(c) # "" THEN Refusal(c) ELSE "ok")
  /\ UNCHANGED <<childvars, lock, jobs, gate, actor, streamvars>> /\ ActorGuard
(* Mutant: the fence is looked at and let go before the kill. *)
SendPeeks(c, sig, after) ==
  IF reaped THEN actor' = [after EXCEPT !.pc = "idle"] /\ UNCHANGED lock
  ELSE actor' = [after EXCEPT !.pc = sig] /\ UNCHANGED lock
(* ChildSignals::send: the kill happens with the fence held. *)
SendLocks(c, sig, after) ==
  IF reaped THEN actor' = [after EXCEPT !.pc = "idle"] /\ UNCHANGED lock
  ELSE actor' = [after EXCEPT !.pc = sig] /\ lock' = "actor"
Sends(c, sig, after) == lock = "" /\ SendLocks(c, sig, after)
HandleSignal(sig) ==
  /\ Handles(sig)
  /\ LET c == Head(cmds)
     IN  IF Refusal(c) # "" THEN Reply(c.v, Refusal(c)) /\ UNCHANGED <<actor, lock>>
         ELSE Sends(c.v, sig, actor) /\ Reply(c.v, "ok")
  /\ UNCHANGED <<childvars, jobs, gate, streamvars>> /\ ActorGuard
SendKills ==
  /\ actor.pc \in {"kill", "stop", "term"}
  /\ Signalled(pid, actor.pc) /\ actor' = [actor EXCEPT !.pc = "idle"] /\ lock' = ""
  /\ UNCHANGED <<pid, cmds, jobs, gate, answers, streamvars>> /\ ActorGuard
HandleOutput ==
  /\ Handles("output")
  /\ IF actor.closed THEN UNCHANGED <<queue, on, got>> ELSE Broadcasts(Event("data", Head(cmds).v))
  /\ UNCHANGED actor /\ Quiet /\ ActorGuard
CloseGate(reason) == gate' = IF gate = "open" THEN reason ELSE gate
(* Mutant: the exit waits for the terminal to close, however long it takes. *)
HandleReapedPatient ==
  /\ Handles("reaped")
  /\ IF actor.life # "running" THEN UNCHANGED <<actor, streamvars, gate>>
     ELSE /\ CloseGate("exited")
          /\ IF actor.closed THEN PublishLifecycle([actor EXCEPT !.life = "exited"], queue, on)
             ELSE actor' = [actor EXCEPT !.life = "exited"] /\ UNCHANGED streamvars
  /\ UNCHANGED <<childvars, lock, jobs, answers>> /\ ActorGuard
(* The exit is published after the output, or EXIT_OUTPUT_DRAIN later. *)
HandleReaped ==
  /\ Handles("reaped")
  /\ IF actor.life # "running" THEN UNCHANGED <<actor, streamvars, gate>>
     ELSE /\ CloseGate("exited")
          /\ IF actor.closed THEN PublishLifecycle([actor EXCEPT !.life = "exited"], queue, on)
             ELSE actor' = [actor EXCEPT !.life = "exited", !.timer = TRUE] /\ UNCHANGED streamvars
  /\ UNCHANGED <<childvars, lock, jobs, answers>> /\ ActorGuard
DrainEnds ==
  /\ actor.timer /\ actor.pc = "idle"
  /\ PublishLifecycle([actor EXCEPT !.late = TRUE], queue, on)
  /\ UNCHANGED cmds /\ Quiet /\ ActorGuard
HandleReaderClosed ==
  /\ Handles("closed")
  /\ LET e == Event("closed", 0)
     IN  PublishLifecycle([actor EXCEPT !.closed = TRUE], Broadcast(queue, on, e), Kept(queue, on, e))
  /\ Quiet /\ ActorGuard
HandleOwnerLost ==
  /\ Handles("lost")
  /\ IF actor.life # "running" THEN UNCHANGED <<actor, lock, streamvars, gate>>
     ELSE LET e == Event("life", "lost")
          IN  /\ CloseGate("lost")
              /\ queue' = Broadcast(queue, on, e) /\ on' = Kept(queue, on, e) /\ UNCHANGED got
              /\ Sends(0, "term", [actor EXCEPT !.life = "lost", !.told = "lost", !.timer = FALSE])
  /\ UNCHANGED <<childvars, jobs, answers>> /\ ActorGuard
(* Every sender is gone: the run loop ends. *)
ActorEnds ==
  /\ scene # "settle" /\ ~actor.ended /\ actor.pc = "idle" /\ cmds = <<>>
  /\ reader = "done" /\ reaper = "done" /\ ~owner /\ ~clients
  /\ actor' = [actor EXCEPT !.ended = TRUE, !.told = actor.life] /\ CloseGate("closed")
  /\ queue' = [s \in Streams |-> IF s \in on THEN [queue[s] EXCEPT !.sender_gone = TRUE] ELSE queue[s]] /\ on' = {}
  /\ UNCHANGED <<childvars, lock, jobs, answers, got, cmds>> /\ ActorGuard

----------------------------------------------------------------------------
(* write_input: the only thread that waits for the child to read. *)
WriterGuard == UNCHANGED <<scene, os, childvars, termvars, threadvars, fencevars, cmds, actor, streamvars, callvars, gate, settler>>
WriterTakes ==
  /\ writer.job = 0 /\ jobs # <<>> /\ jobs' = Tail(jobs)
  /\ IF gate # "open" THEN Reply(Head(jobs), gate) /\ UNCHANGED writer
     ELSE writer' = [job |-> Head(jobs), left |-> InputSize] /\ UNCHANGED answers
  /\ UNCHANGED typed /\ WriterGuard
WriteWithoutBlocking ==
  /\ writer.job # 0 /\ Len(typed) < InputRoom
  /\ typed' = Append(typed, writer.job)
  /\ writer' = IF writer.left = 1 THEN [job |-> 0, left |-> 0] ELSE [writer EXCEPT !.left = @ - 1]
  /\ IF writer.left = 1 THEN Reply(writer.job, "ok") ELSE UNCHANGED answers
  /\ UNCHANGED jobs /\ WriterGuard
(* Mutant: a full terminal is retried whatever became of the child. *)
InputGateWaitForever == FALSE
InputGateWait == gate # "open"
WriterGivesUp ==
  /\ writer.job # 0 /\ Len(typed) >= InputRoom /\ InputGateWait
  /\ Reply(writer.job, gate) /\ writer' = [job |-> 0, left |-> 0]
  /\ UNCHANGED <<jobs, typed>> /\ WriterGuard

----------------------------------------------------------------------------
(* kill_recorded: pin, check the identity, signal, see the exit. *)
SettleGuard == UNCHANGED <<scene, os, pid, termvars, threadvars, fencevars, cmds, actor, streamvars, callvars, inputvars>>
(* ProcessId::liveness of the recorded child, by the table read now. *)
LivenessNow ==
  CASE settler.boot = "unreadable" -> "unknown"
    [] settler.boot = "other" -> "gone"
    [] pid # "child" \/ child = "dead" -> "gone"
    [] child = "exiting" \/ settler.boot = "legacy" -> "unknown"
    [] OTHER -> "live"
Answered(a) == settler' = [settler EXCEPT !.pc = "done", !.answer = a]
SettleStarts ==
  /\ settler.pc = "start"
  /\ IF LivenessNow # "live" THEN Answered(LivenessNow) ELSE settler' = [settler EXCEPT !.pc = "pin"]
  /\ UNCHANGED <<child, hit>> /\ SettleGuard
(* pin_pid with a pidfd, which names one process for good. *)
PinPidfd(refused) ==
  /\ settler.pc = "pin" /\ os = "linux"
  /\ CASE refused -> Answered("unknown")
       [] pid = "nobody" -> Answered(LivenessNow)
       [] OTHER -> settler' = [settler EXCEPT !.pc = "check", !.pin = pid, !.watch = pid]
  /\ UNCHANGED <<child, hit>> /\ SettleGuard
(* token_of: the audit token of whoever has the pid. *)
PinToken(refused) ==
  /\ settler.pc = "pin" /\ os = "macos"
  /\ CASE pid = "nobody" -> Answered(LivenessNow)
       [] refused -> Answered("unknown")
       [] OTHER -> settler' = [settler EXCEPT !.pc = "arm", !.pin = pid]
  /\ UNCHANGED <<child, hit>> /\ SettleGuard
(* Watch::arm is refused with ESRCH once the process has begun to exit. *)
PinWatch(refused) ==
  /\ settler.pc = "arm"
  /\ CASE refused -> Answered("unknown")
       [] pid = "nobody" \/ (pid = "child" /\ child \in {"exiting", "dead"}) -> Answered(LivenessNow)
       [] OTHER -> settler' = [settler EXCEPT !.pc = "check", !.watch = pid]
  /\ UNCHANGED <<child, hit>> /\ SettleGuard
PinUnsupported ==
  /\ settler.pc = "pin" /\ os = "other" /\ Answered("unknown")
  /\ UNCHANGED <<child, hit>> /\ SettleGuard
(* Mutant: what was pinned is taken to be what was recorded. *)
PinTrusts ==
  /\ settler.pc = "check" /\ settler' = [settler EXCEPT !.pc = "signal"]
  /\ UNCHANGED <<child, hit>> /\ SettleGuard
Pin ==
  /\ settler.pc = "check"
  /\ IF LivenessNow = "live" THEN settler' = [settler EXCEPT !.pc = "signal"] ELSE Answered(LivenessNow)
  /\ UNCHANGED <<child, hit>> /\ SettleGuard
(* The signal reaches the pinned process or, if that is gone, nobody. *)
ExactSignal(refused) ==
  /\ settler.pc = "signal"
  /\ IF refused THEN Answered("unknown") /\ UNCHANGED <<child, hit>>
     ELSE /\ settler' = [settler EXCEPT !.pc = "wait"]
          /\ Signalled(IF pid = settler.pin THEN pid ELSE "nobody", "kill")
  /\ SettleGuard
Exited(who) == who = "child" /\ child \in {"dead", "gone"}
(* wait_exit: the exit seen on the pin, or five seconds without it. *)
WaitExit ==
  /\ settler.pc = "wait"
  /\ \/ Exited(settler.watch) /\ settler' = [settler EXCEPT !.pc = "after"]
     \/ ~Exited(settler.watch) /\ Answered("live")
  /\ UNCHANGED <<child, hit>> /\ SettleGuard
LivenessAfterExit ==
  /\ settler.pc = "after" /\ Answered(LivenessNow)
  /\ UNCHANGED <<child, hit>> /\ SettleGuard
(* Whoever started the held child collects it in its own time. *)
ParentCollects ==
  /\ scene = "settle" /\ child = "dead" /\ child' = "gone" /\ pid' = "nobody"
  /\ UNCHANGED <<hit, termvars, typed>> /\ World
SettleNext ==
  \/ SettleStarts \/ PinUnsupported \/ Pin \/ WaitExit \/ LivenessAfterExit \/ ParentCollects
  \/ \E refused \in BOOLEAN : PinPidfd(refused) \/ PinToken(refused) \/ PinWatch(refused) \/ ExactSignal(refused)

----------------------------------------------------------------------------
WorldNext ==
  \/ \E h \in {"child", "kin"} : Writes(h)
  \/ Arrives \/ ChildReopens \/ ChildExits \/ KinLeaves \/ ChildReadsInput \/ PidReused
ReaderNext == WaitForRoom \/ ReadsData \/ ReadsEnd
ReaperNext == ReaperWakes \/ ReaperLocks \/ CollectFenced \/ ReaperTells
ClientNext ==
  \/ \E kind \in {"input", "query", "resize", "kill", "stop"}, stale \in BOOLEAN : Requests(kind, stale)
  \/ \E stale \in BOOLEAN : Attaches(stale)
  \/ OwnerDrops \/ ClientsDrop
  \/ \E s \in Streams : DropStream(s)
ActorNext ==
  \/ HandleAttach \/ HandleInput \/ HandleQuery("query") \/ HandleQuery("resize")
  \/ HandleSignal("kill") \/ HandleSignal("stop") \/ SendKills
  \/ HandleOutput \/ HandleReaped \/ DrainEnds \/ HandleReaderClosed \/ HandleOwnerLost \/ ActorEnds
WriterNext == WriterTakes \/ WriteWithoutBlocking \/ WriterGivesUp
SubstrateNext ==
  \/ WorldNext \/ ReaderNext \/ ReaperNext \/ ClientNext \/ ActorNext \/ WriterNext \/ SettleNext
  \/ \E s \in Streams : Pop(s)
SubstrateSpec == SubstrateInit /\ [][SubstrateNext]_xvars
(* Threads are scheduled, an exiting process ends, and nobody need read, *)
(* write, attach, drop or let go of the terminal. *)
SubstrateFairness ==
  /\ WF_xvars(ReaderNext) /\ WF_xvars(ReaperNext) /\ WF_xvars(WriterNext)
  /\ WF_xvars(ActorNext) /\ WF_xvars(child = "exiting" /\ ChildExits)

----------------------------------------------------------------------------
SubstrateTypeOK ==
  /\ child \in {"running", "stopped", "exiting", "dead", "gone"} /\ pid \in {"child", "nobody", "other"}
  /\ lock \in {"", "actor", "reaper"} /\ reaped = (child = "gone" /\ scene # "settle")
  /\ Len(jobs) <= INPUT_QUEUE_DEPTH
All(s) == got[s] \o queue[s].events
DataAt(s) == {i \in DOMAIN All(s) : All(s)[i][1] = "data"}
Bytes(s) == {All(s)[i][2] : i \in DataAt(s)}
Pos(s, t, v) == {i \in DOMAIN All(s) : All(s)[i][1] = t /\ All(s)[i][2] = v}
(* A stream's bytes are a run of what the child wrote, in order and with *)
(* nothing left out; the owner's stream starts at the first byte and, once *)
(* told the output closed, has all that were written before the reader met *)
(* the end and took no longer to arrive than it tried again; a late tail, *)
(* of a child that opened its terminal again, may be lost, but nothing *)
(* before it.  No byte follows OutputClosed, and *)
(* the exit comes after the output unless the drain bound ran out; a *)
(* stream the actor no longer fills still has what was queued before; and *)
(* a stream that is detached when it is full never exceeds its capacity, *)
(* while one that holds the reader back exceeds it by what was reserved *)
(* and each event costs beside its bytes.  (module doc of substrate.rs; *)
(* Queue, Actor::handle, read_master) *)
StreamIsWhole ==
  \A s \in Streams : ~queue[s].receiver_gone =>
    /\ \A i, j \in DataAt(s) : i < j => All(s)[i][2] < All(s)[j][2]
    /\ \A x, y \in Bytes(s) : x..y \subseteq Bytes(s)
    /\ s = 1 /\ Bytes(s) # {} => 1 \in Bytes(s)
    /\ Bytes(s) \subseteq 1..wrote
    /\ s = 1 /\ Pos(s, "closed", 0) # {} /\ ~due.slow => 1..due.upto \subseteq Bytes(s)
    /\ \A i \in Pos(s, "closed", 0), j \in DataAt(s) : j < i
    /\ s = 1 /\ ~actor.late => \A i \in Pos(s, "life", "exited") : \E j \in Pos(s, "closed", 0) : j < i
    /\ queue[s].queued <= IF OnFull(s) = "Detach" THEN Capacity ELSE 2 * Capacity + 2
(* The module doc: "Bytes the child wrote before it exited are forwarded *)
(* until the PTY closes, however the reader and the reaper race".  Not so *)
(* when a child that had closed its terminal opens it again, writes and *)
(* exits: ends counted meanwhile are believed while the bytes are on the *)
(* way. *)
NothingIsLost == ~queue[1].receiver_gone /\ ~due.slow /\ Pos(1, "closed", 0) # {} => Bytes(1) = 1..wrote
(* A signal reaches the child or its corpse, never a process that has its *)
(* pid now; the fence is not held while the child lives, so that a stopped *)
(* child can still be killed; and a recovery that says the recorded *)
(* process is gone is right.  (ChildSignals, wait_until_exited, Exact) *)
SignalsReachOwnChild ==
  /\ "other" \notin hit
  /\ lock = "reaper" => child = "dead"
  /\ settler.answer = "gone" /\ settler.boot # "other" => child \in {"dead", "gone"}
ExitTold == actor.told # "running"
InputAnswered == jobs = <<>> /\ writer.job = 0
(* Whatever the child does with its terminal and its input, its exit is *)
(* told, and input that waits for it is answered.  (EXIT_OUTPUT_DRAIN, *)
(* InputGate) *)
ExitReachesEveryone ==
  /\ (scene # "settle" /\ child = "dead") ~> ExitTold
  /\ (gate # "open") ~> InputAnswered
=============================================================================
