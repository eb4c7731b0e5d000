------------------------------ MODULE EventLog ------------------------------
(***************************************************************************)
(* <name>.events.jsonl (events/mod.rs): the daemon's background writer and *)
(* the one-shot writers under the event lock, retention, and the readers:  *)
(* a follower (events/follow.rs) and the command that waits for an event   *)
(* (cli/events.rs).                                                        *)
(*                                                                         *)
(* A line is a number: e > 0 an ordinary event, -g the session_exit of the *)
(* daemon of generation g.  All lines have the same length, so the length  *)
(* of a file is its number of lines.  A snapshot is published by rename:   *)
(* a read sees one whole snapshot, and the new file's inode may be one     *)
(* that an earlier snapshot had.                                           *)
(***************************************************************************)
EXTENDS Integers, Sequences, SequencesExt

CONSTANTS
  MAX_LINES, KEEP_LINES,      \* retention: at MAX_LINES keep the last KEEP_LINES
  TRUNCATE_CHECK_INTERVAL,    \* the daemon checks retention every so many appends
  Inodes,                     \* inodes the file system hands out
  MaxEvents,                  \* bound: ordinary events
  MaxHolds,                   \* bound: times another process keeps the event lock
  MaxGen                      \* bound: daemons of the name, one after another

VARIABLES
  log,     \* the file: its inode (0: absent) and its lines
  elock,   \* the event lock: "none", "writer" or "other"
  dm,      \* the daemon of the session
  w,       \* its EventWriter
  row,     \* the metadata: state and generation
  claim,   \* is the creation lock held by a respawn?
  f,       \* the follower's thread
  v,       \* the waiting command
  n        \* events and holds so far

evars == <<log, elock, dm, w, row, claim, f, v, n>>

Exit(g) == -g
Lines == ToSet(log.lines)

----------------------------------------------------------------------------
(* Retention and the two ways to append. *)

RetainedSuffix(lines) ==
  IF Len(lines) < MAX_LINES THEN lines
  ELSE SubSeq(lines, Len(lines) - KEEP_LINES + 1, Len(lines))

(* append_line: every line is longer than the 40 bytes of the size gate. *)
AppendLine(lines, e) == RetainedSuffix(Append(lines, e))

(* append_batch, one line: a cut that is no shorter than the published *)
(* file is preceded by the full file. *)
AddToBatch(acc, e) ==
  LET all == Append(acc.lines, e)
      cut == RetainedSuffix(all)
      due == acc.count + 1 >= TRUNCATE_CHECK_INTERVAL
  IN  CASE ~due -> [acc EXCEPT !.lines = all, !.count = @ + 1, !.dirty = TRUE]
        [] due /\ cut = all -> [acc EXCEPT !.lines = all, !.count = 0, !.dirty = TRUE]
        [] OTHER -> [lines |-> cut, count |-> 0, dirty |-> FALSE, length |-> Len(cut),
                     out |-> acc.out \o (IF Len(cut) >= acc.length THEN <<all>> ELSE <<>>)
                             \o <<cut>>]

(* append_batch: the snapshots it publishes, one rename each. *)
AppendBatch(lines, events, count) ==
  LET end == FoldLeft(AddToBatch, [lines |-> lines, count |-> count, dirty |-> FALSE,
                                   length |-> Len(lines), out |-> <<>>], events)
  IN  IF end.dirty THEN Append(end.out, end.lines) ELSE end.out

BatchCount(count, events) == (count + Len(events)) % TRUNCATE_CHECK_INTERVAL

(* atomic_write: a temporary file exists beside the old one, so its inode *)
(* is another one. *)
AtomicWrite(lines) == \E i \in Inodes \ {log.ino} : log' = [ino |-> i, lines |-> lines]

----------------------------------------------------------------------------
(* The daemon and its writer. *)

Idle(x) == x.queue = <<>> /\ x.pending = <<>> /\ ~x.publish

NewWriter == [queue |-> <<>>, pending |-> <<>>, due |-> FALSE, publish |-> FALSE,
              count |-> 0, out |-> <<>>, lost |-> {}]

EventsInit ==
  /\ \E want \in {"exit", "user", "all"} :
       v = [want |-> want, pc |-> "recorded", gen |-> 0, result |-> "none", recorded |-> FALSE]
  /\ log = [ino |-> CHOOSE i \in Inodes : TRUE, lines |-> <<>>]
  /\ elock = "none" /\ claim = FALSE
  /\ dm = [gen |-> 1, pc |-> "run"]
  /\ w = NewWriter
  /\ row = [state |-> "running", gen |-> 1]
  /\ f = [pc |-> "off", offset |-> 0, snap |-> <<>>, ino |-> 0, seen |-> FALSE,
          exited |-> FALSE, got |-> {}, hist |-> {}, why |-> "none"]
  /\ n = [event |-> 0, hold |-> 0]

(* forward_terminal_events and publish_session: an event is queued. *)
QueueEvent ==
  /\ dm.pc = "run" /\ n.event < MaxEvents
  /\ w' = [w EXCEPT !.queue = Append(@, n.event + 1)]
  /\ n' = [n EXCEPT !.event = @ + 1]
  /\ UNCHANGED <<log, elock, dm, row, claim, f, v>>

(* Mutant: the exit is saved in the metadata before it is in the log. *)
FinalizeEarly ==
  /\ dm.pc = "run" /\ row.gen = dm.gen /\ row.state = "running"
  /\ w' = [w EXCEPT !.queue = Append(@, Exit(dm.gen))]
  /\ dm' = [dm EXCEPT !.pc = "done"]
  /\ row' = [row EXCEPT !.state = "exited"]
  /\ UNCHANGED <<log, elock, claim, f, v, n>>

(* finalize_exit queues session_exit and flushes: a Flush message is 0. *)
FinalizeExit ==
  /\ dm.pc = "run"
  /\ w' = [w EXCEPT !.queue = @ \o <<Exit(dm.gen), 0>>]
  /\ dm' = [dm EXCEPT !.pc = "flush"]
  /\ UNCHANGED <<log, elock, row, claim, f, v, n>>

(* The flush is answered; the exit goes into the metadata. *)
SaveExit ==
  /\ dm.pc = "flush" /\ Idle(w)
  /\ dm' = [dm EXCEPT !.pc = "done"]
  /\ row' = IF row.gen = dm.gen THEN [row EXCEPT !.state = "exited"] ELSE row
  /\ UNCHANGED <<log, elock, w, claim, f, v, n>>

(* The daemon is killed, with what its writer still held. *)
Crash ==
  /\ dm.pc \in {"run", "flush"}
  /\ dm' = [dm EXCEPT !.pc = "killed"]
  /\ w' = [NewWriter EXCEPT !.lost = {Exit(dm.gen)}]
  /\ elock' = IF elock = "writer" THEN "none" ELSE elock
  /\ UNCHANGED <<log, row, claim, f, v, n>>

(* One pass of EventWriter::run: a message, or the 250 ms deadline. *)
WriterRun ==
  /\ ~w.publish
  /\ \/ /\ w.queue # <<>>
        /\ LET e == Head(w.queue)
               took == [w EXCEPT !.queue = Tail(@)]
           IN  w' = IF e = 0 THEN [took EXCEPT !.publish = w.pending # <<>>, !.due = FALSE]
                    ELSE [took EXCEPT !.pending = Append(@, e), !.due = e > 0, !.publish = e < 0]
     \/ w.due /\ w' = [w EXCEPT !.publish = TRUE, !.due = FALSE]
  /\ UNCHANGED <<log, elock, dm, row, claim, f, v, n>>

(* publish: the lock once per batch. *)
WriterLocks ==
  /\ w.publish /\ elock = "none"
  /\ elock' = "writer"
  /\ w' = [w EXCEPT !.out = AppendBatch(log.lines, w.pending, w.count),
                    !.count = BatchCount(w.count, w.pending)]
  /\ UNCHANGED <<log, dm, row, claim, f, v, n>>

(* The lock stayed with another process for five seconds: dropped. *)
WriterGivesUp ==
  /\ w.publish /\ elock = "other"
  /\ w' = [w EXCEPT !.publish = FALSE, !.pending = <<>>, !.lost = @ \cup ToSet(w.pending)]
  /\ UNCHANGED <<log, elock, dm, row, claim, f, v, n>>

WriterPublishes ==
  /\ elock = "writer"
  /\ AtomicWrite(Head(w.out))
  /\ LET last == Len(w.out) = 1 IN
     /\ elock' = IF last THEN "none" ELSE elock
     /\ w' = IF last THEN [w EXCEPT !.publish = FALSE, !.pending = <<>>, !.out = <<>>]
             ELSE [w EXCEPT !.out = Tail(@)]
  /\ UNCHANGED <<dm, row, claim, f, v, n>>

----------------------------------------------------------------------------
(* The other processes. *)

(* append_event: pty emit under the lock. *)
EmitUserEvent ==
  /\ elock = "none" /\ n.event < MaxEvents /\ row.state # "none"
  /\ AtomicWrite(AppendLine(log.lines, n.event + 1))
  /\ n' = [n EXCEPT !.event = @ + 1]
  /\ UNCHANGED <<elock, dm, w, row, claim, f, v>>

HoldLock ==
  /\ \/ elock = "none" /\ n.hold < MaxHolds /\ elock' = "other" /\ n' = [n EXCEPT !.hold = @ + 1]
     \/ elock = "other" /\ elock' = "none" /\ UNCHANGED n
  /\ UNCHANGED <<log, dm, w, row, claim, f, v>>

(* A command removes the dead session: remove_events, then the metadata. *)
RemoveSession ==
  /\ dm.pc \in {"done", "killed"} /\ row.state # "none" /\ ~claim /\ elock = "none"
  /\ log' = [ino |-> 0, lines |-> <<>>]
  /\ row' = [row EXCEPT !.state = "none"]
  /\ UNCHANGED <<elock, dm, w, claim, f, v, n>>

(* A respawn keeps its creation claim from the cleanup to the publication. *)
RespawnCleans ==
  /\ dm.pc \in {"done", "killed"} /\ dm.gen < MaxGen /\ ~claim /\ row.state # "none"
  /\ claim' = TRUE
  /\ row' = [row EXCEPT !.state = "none"]
  /\ UNCHANGED <<log, elock, dm, w, f, v, n>>

(* publish_session: clear_events_with_wait, and session_start is flushed. *)
RespawnPublishes ==
  /\ claim /\ row.state = "none" /\ elock = "none"
  /\ AtomicWrite(<<>>)
  /\ dm' = [gen |-> dm.gen + 1, pc |-> "run"]
  /\ w' = NewWriter
  /\ row' = [state |-> "running", gen |-> dm.gen + 1]
  /\ UNCHANGED <<elock, claim, f, v, n>>

RespawnReleases ==
  /\ claim /\ row.state # "none"
  /\ claim' = FALSE
  /\ UNCHANGED <<log, elock, dm, w, row, f, v, n>>

----------------------------------------------------------------------------
(* The follower. *)

(* Mutant: a rewritten log that grew past the offset is read on from it. *)
ReadNewLinesByLength(t) ==
  LET lines == log.lines
      off == IF Len(lines) < t.offset THEN 0 ELSE t.offset
  IN  IF log.ino = 0 \/ (t.ino = log.ino /\ Len(lines) = Len(t.snap)) THEN t
      ELSE [t EXCEPT !.ino = log.ino, !.snap = lines, !.offset = Len(lines),
                     !.got = @ \cup ToSet(SubSeq(lines, off + 1, Len(lines)))]

(* read_new_lines: a shrink or a changed consumed prefix restarts at 0. *)
ReadNewLines(t) ==
  LET lines == log.lines
      off == IF \/ Len(lines) < t.offset
                \/ SubSeq(lines, 1, t.offset) # SubSeq(t.snap, 1, t.offset)
             THEN 0 ELSE t.offset
  IN  IF log.ino = 0 \/ (t.ino = log.ino /\ Len(lines) = Len(t.snap)) THEN t
      ELSE [t EXCEPT !.ino = log.ino, !.snap = lines, !.offset = Len(lines),
                     !.got = @ \cup ToSet(SubSeq(lines, off + 1, Len(lines)))]

Go(pc) == f' = [f EXCEPT !.pc = pc] /\ UNCHANGED <<log, elock, dm, w, row, claim, v, n>>
Ends(t, why) == [t EXCEPT !.pc = "ended", !.why = why]
Follow(t) == f' = t /\ UNCHANGED <<log, elock, dm, w, row, claim, v, n>>

(* One pass of run's loop over the source, a step per look at the disk. *)
Scan ==
  /\ f.pc = "scan"
  /\ LET t == ReadNewLines(f) IN
     Follow([t EXCEPT !.pc = IF v.want = "all" THEN "wait" ELSE "present",
                      !.exited = \E g \in 1..MaxGen : Exit(g) \in t.got \ f.got])

Present ==
  /\ f.pc = "present"
  /\ Follow([f EXCEPT !.pc = IF row.state = "none" /\ f.seen THEN "claimed" ELSE "retained",
                      !.seen = @ \/ row.state # "none"])

(* registry_entry_removed: the claim first, then the metadata again. *)
Claimed == f.pc = "claimed" /\ Go(IF claim THEN "retained" ELSE "missing")
Missing == f.pc = "missing" /\ Go(IF row.state = "none" THEN "removed" ELSE "retained")

(* finalize_exit may have flushed and saved after the first read. *)
RetainedExit ==
  /\ f.pc \in {"removed", "retained"}
  /\ LET retained == row.state = "exited"
         t == IF retained THEN ReadNewLines(f) ELSE f
     IN  Follow(IF f.exited \/ retained \/ f.pc = "removed"
                THEN Ends(t, IF f.exited \/ retained THEN "exit" ELSE "removed")
                ELSE [t EXCEPT !.pc = "vanish"])

(* Mutant: a row without an exit is always taken for a running session. *)
VanishNever == f.pc = "vanish" /\ Go("wait")

(* daemon_vanished: a dead daemon's row, and then no claim on the name. *)
Vanish ==
  /\ f.pc = "vanish"
  /\ Go(IF row.state = "running" /\ dm.pc \in {"done", "killed"} THEN "unclaimed" ELSE "wait")

Unclaimed ==
  /\ f.pc = "unclaimed"
  /\ Follow(IF claim THEN [f EXCEPT !.pc = "wait"] ELSE Ends(ReadNewLines(f), "vanished"))

WaitForChange == f.pc = "wait" /\ Go("scan")

----------------------------------------------------------------------------
(* pty events --wait for the exit or for a user event, or --all, which *)
(* prints every event and has no end of its own. *)

Answer(result) ==
  v' = [v EXCEPT !.pc = "done", !.result = result,
                 !.recorded = row = [state |-> "exited", gen |-> v.gen]]

Wants(e) == IF e < 0 THEN v.want = "exit" ELSE v.want = "user"

Waits(pc) == v' = [v EXCEPT !.pc = pc]

(* Mutant: what the follower's start may have missed is not looked up. *)
PrintRecordedExitOnce ==
  /\ v.pc \in {"recorded", "again", "over"}
  /\ IF v.want = "exit" /\ row.state = "exited" /\ v.pc = "recorded" THEN Answer("seen")
     ELSE Waits(CASE v.pc = "recorded" -> "target" [] v.pc = "again" -> "recv" [] OTHER -> "none")
  /\ UNCHANGED <<log, elock, dm, w, row, claim, f, n>>

(* print_recorded_exit, before the subscription, after it, and at the end. *)
PrintRecordedExit ==
  /\ v.pc \in {"recorded", "again", "over"}
  /\ IF v.want = "exit" /\ row.state = "exited" THEN Answer("seen")
     ELSE Waits(CASE v.pc = "recorded" -> "target" [] v.pc = "again" -> "checked" [] OTHER -> "none")
  /\ UNCHANGED <<log, elock, dm, w, row, claim, f, n>>

Gone == row.state = "none"
Vanished == row.state = "running" /\ dm.pc \in {"done", "killed"}

(* check_wait_target: an absent or vanished session is refused. *)
CheckWaitTarget ==
  /\ v.pc \in {"target", "checked"}
  /\ IF Gone \/ (v.want = "exit" /\ Vanished) THEN Answer("refused")
     ELSE Waits(IF v.pc = "target" THEN "subscribe" ELSE "recv")
  /\ UNCHANGED <<log, elock, dm, w, row, claim, f, n>>

(* EventFollower::start returns once the ends of the logs are known. *)
Subscribe ==
  /\ v.pc = "subscribe"
  /\ f' = [f EXCEPT !.pc = "scan", !.snap = log.lines, !.offset = Len(log.lines),
                    !.hist = Lines, !.seen = row.state # "none"]
  /\ v' = [v EXCEPT !.pc = "again", !.gen = row.gen]
  /\ UNCHANGED <<log, elock, dm, w, row, claim, n>>

Recv ==
  /\ v.pc = "recv"
  /\ \/ (\E e \in f.got : Wants(e)) /\ Answer("seen")
     \/ (\A e \in f.got : ~Wants(e)) /\ f.pc = "ended" /\ Waits("over")
  /\ UNCHANGED <<log, elock, dm, w, row, claim, f, n>>

(* The deadline of -t. *)
TimesOut ==
  /\ v.pc = "recv" /\ Answer("timeout")
  /\ UNCHANGED <<log, elock, dm, w, row, claim, f, n>>

(* "vanished" or "ended before it was observed". *)
ReportNone ==
  /\ v.pc = "none" /\ Answer("unseen")
  /\ UNCHANGED <<log, elock, dm, w, row, claim, f, n>>

DaemonStep == WriterRun \/ WriterLocks \/ WriterGivesUp \/ WriterPublishes \/ SaveExit
FollowerStep == Scan \/ Present \/ Claimed \/ Missing \/ RetainedExit \/ Vanish \/ Unclaimed
                \/ WaitForChange
WaiterStep == PrintRecordedExit \/ CheckWaitTarget \/ Subscribe \/ Recv \/ ReportNone

EventsNext ==
  \/ QueueEvent \/ FinalizeExit \/ SaveExit \/ Crash
  \/ WriterRun \/ WriterLocks \/ WriterGivesUp \/ WriterPublishes
  \/ EmitUserEvent \/ HoldLock \/ RemoveSession
  \/ RespawnCleans \/ RespawnPublishes \/ RespawnReleases
  \/ Scan \/ Present \/ Claimed \/ Missing \/ RetainedExit \/ Vanish \/ Unclaimed
  \/ WaitForChange
  \/ PrintRecordedExit \/ CheckWaitTarget \/ Subscribe \/ Recv \/ TimesOut \/ ReportNone

(* The follower polls every 250 ms, the command and the writer run on, and *)
(* a respawn finishes what it claimed. *)
EventsFairness ==
  /\ WF_evars(FollowerStep) /\ WF_evars(WaiterStep) /\ WF_evars(DaemonStep)
  /\ WF_evars(RespawnPublishes \/ RespawnReleases) /\ WF_evars(elock = "other" /\ HoldLock)

EventsSpec == EventsInit /\ [][EventsNext]_evars /\ EventsFairness

----------------------------------------------------------------------------
(* Properties. *)

(* Another snapshot with the inode and the length of the last one read. *)
LooksUnchanged == f.ino = log.ino /\ Len(f.snap) = Len(log.lines) /\ f.snap # log.lines

(* What the follower has read it has delivered, or it was history when it *)
(* started: also when retention cut the log and it grew past the offset *)
(* again between two scans (read_new_lines). *)
ReadIsDelivered == ToSet(SubSeq(f.snap, 1, f.offset)) \subseteq f.got \cup f.hist

(* A follower that ends because the exit is recorded has delivered the *)
(* session_exit of that daemon, unless the writer gave it up on a held *)
(* lock, it was history, retention or a respawn took it from the log (and *)
(* the writer no longer has it), or the rewritten log looks unchanged. *)
ExitIsDelivered ==
  f.pc # "ended" /\ f'.pc = "ended" /\ f'.why = "exit" /\ row.state = "exited"
    => \/ Exit(row.gen) \in f'.got \cup f.hist \cup w.lost
       \/ Exit(row.gen) \notin Lines \cup ToSet(w.queue \o w.pending)
       \/ LooksUnchanged

(* read_new_lines says: "A shrink or changed consumed prefix restarts at *)
(* 0, even if retention regrew between scans."  After a scan the follower *)
(* knows the log as it is. *)
RegrowthIsNoticed ==
  [][f.pc = "scan" /\ f'.pc # "scan" /\ log.ino # 0 => f'.snap = log.lines]_evars

(* A wait for session_exit that was not satisfied is right: the daemon it *)
(* was about had no exit on record when the command said so, whatever *)
(* happened between its looks at the disk. *)
UnseenIsRight == v.want = "exit" /\ v.result = "unseen" => ~v.recorded

(* "Close the state-read/subscribe race, including removal before the *)
(* follower observed the registry entry" (cli/events.rs): a session that *)
(* has ended for good does not keep a waiting command. *)
WaiterIsAnswered ==
  (v.pc # "done" /\ v.want # "all") ~> (v.pc = "done" \/ dm.pc = "run")

WaitingOnEntry == f.seen /\ v.want # "all"
WaiterAnswered == v.pc = "done" \/ dm.pc = "run"

(* A session that has ended for good ends its follower and answers the *)
(* waiting command, once the follower has seen the session's entry. *)
SourceEnds == WaitingOnEntry ~> WaiterAnswered
=============================================================================
