--------------------------- MODULE SessionRecord ---------------------------
(***************************************************************************)
(* A daemon and the registry files of its session, from the first output  *)
(* to the end of the process (daemon/lifecycle.rs): clientGeneration and  *)
(* lastAttachAt, the output-activity sidecar, the startup lease with its  *)
(* lifecycle tag and deadline, the exit record, close() with its hard     *)
(* deadline, and the removal of the files.                                *)
(*                                                                         *)
(* Other commands hold the record's lock for a while, and a newer daemon  *)
(* may take the name.  A write under a held lock, or one that found the   *)
(* record rewritten, is "busy"; a timer may fire whenever it is armed.     *)
(***************************************************************************)
EXTENDS Integers, FiniteSets

CONSTANTS
  MaxChanges,   \* bound: changes of the client facts
  MaxOutput,    \* bound: outputs of the child
  MaxLocks,     \* bound: times another command holds the record's lock
  MaxCas        \* bound: lifecycle requests and changes of the client facts together

VARIABLES
  m,       \* the daemon
  child,   \* "up", "stopped" by the deadline's freeze, or "gone"
  row,     \* <name>.json: its generation and the fields this daemon writes
  side,    \* .activity/<name>.json: the generation that wrote it and its stamp
  files,   \* the generation whose <name>.sock and <name>.pid exist, or "none"
  lock,    \* <name>.lock, as this daemon meets it: held by another process?
  count    \* how often each bounded thing happened

rvars == <<m, child, row, side, files, lock, count>>

Terminal == {"exit", "deadline", "unavailable", "client"}
Causes(complete) == IF complete THEN "deadline" ELSE "unavailable"

----------------------------------------------------------------------------
(* mutate_metadata_under_lock fenced on this daemon's generation. *)

(* Mutant: the write is not fenced on the generation. *)
StatusUnfenced(s) == CASE s.lock -> "busy" [] ~s.lock /\ s.row.gen = "none" -> "missing"
                       [] OTHER -> "ok"

Status(s) == CASE s.lock -> "busy"
               [] ~s.lock /\ s.row.gen = "none" -> "missing"
               [] ~s.lock /\ s.row.gen = "other" -> "mismatch"
               [] OTHER -> "ok"

(* The record with the client facts, where the write is let through. *)
ClientRow(s) ==
  IF Status(s) # "ok" THEN s.row
  ELSE [s.row EXCEPT !.cgen = s.m.cgen, !.attach = IF s.m.stamp = 0 THEN @ ELSE s.m.stamp]

(* Mutant: a write that met the lock is not tried again. *)
WriteClientGenerationOnce(s, late) ==
  IF Status(s) = "busy" THEN s
  ELSE [s EXCEPT !.row = ClientRow(s), !.m.stamp = 0, !.m.retry = FALSE, !.m.lost = FALSE]

(* write_client_generation: late is the end of its two seconds. *)
WriteClientGeneration(s, late) ==
  IF Status(s) = "busy"
  THEN [s EXCEPT !.m.retry = ~(@ /\ late), !.m.lost = s.m.retry /\ late]
  ELSE [s EXCEPT !.row = ClientRow(s), !.m.stamp = 0, !.m.retry = FALSE, !.m.lost = FALSE]

(* note_client_change of facts that moved, or of an attach (stamp > 0). *)
NoteClientChange(s, stamp, late) ==
  WriteClientGeneration([s EXCEPT !.m.cgen = @ + 1,
                                  !.m.stamp = IF stamp = 0 THEN @ ELSE stamp,
                                  !.m.retry = FALSE], late)

(* publish_output_activity, from the timer persist_output_activity. *)
PersistOutputActivity(s) ==
  LET t == [s EXCEPT !.m.activity = FALSE] IN
  CASE s.m.exited -> t
    [] ~s.m.exited /\ Status(s) = "busy" -> s
    [] ~s.m.exited /\ Status(s) = "ok" -> [t EXCEPT !.side = [gen |-> "us", stamp |-> s.m.out]]
    [] OTHER -> t

(* save_exit_metadata: the exit, the last stamp, and the sidecar retired *)
(* in the same critical section. *)
SaveExitMetadata(s) ==
  IF Status(s) # "ok" THEN s
  ELSE [s EXCEPT !.row = [@ EXCEPT !.exit = TRUE, !.out = s.m.out],
                 !.side = [gen |-> "none", stamp |-> 0]]

----------------------------------------------------------------------------
(* The startup lease. *)

(* settle_startup_lifecycle returned a value when m.terminal # "none". *)
SettleStartupLifecycle(s, cause, force) ==
  IF \/ s.m.lease = "none" \/ s.m.terminal # "none"
     \/ s.m.disarmed /\ ~force
  THEN s
  ELSE CASE Status(s) = "ok" ->
              [s EXCEPT !.row.tag = cause, !.m.terminal = cause,
                        !.m.disarmed = TRUE, !.m.timer = FALSE]
         [] Status(s) = "mismatch" -> [s EXCEPT !.m.disarmed = TRUE, !.m.timer = FALSE]
         [] OTHER -> s

(* freeze_child_tree, once: complete says whether all of it was observed. *)
FreezeChildTree(s, complete) ==
  IF s.m.tree # "none" THEN s
  ELSE [s EXCEPT !.m.tree = IF complete THEN "complete" ELSE "partial",
                 !.m.frozen = TRUE,
                 !.child = IF @ = "up" THEN "stopped" ELSE @]

(* Mutant: a tree whose deadline is refused for good stays stopped. *)
ResumeFrozenTreeNever(s) == s

ResumeFrozenTree(s) ==
  IF ~s.m.frozen THEN s
  ELSE [s EXCEPT !.m.frozen = FALSE, !.m.tree = "none",
                 !.child = IF @ = "stopped" THEN "up" ELSE @]

SettleStartupDeadline(s, complete) ==
  LET frozen  == FreezeChildTree(s, complete)
      settled == SettleStartupLifecycle(frozen, Causes(frozen.m.tree = "complete"), FALSE)
  IN  IF settled.m.terminal = "none" /\ settled.m.disarmed
      THEN ResumeFrozenTree(settled) ELSE settled

Expired(s) == s.m.lease = "timed" /\ ~s.m.disarmed /\ s.m.late

(* compare_and_set_lifecycle for a request that names this generation. *)
CompareAndSetLifecycle(s, expected, value, complete) ==
  IF s.row.gen # "us" THEN s
  ELSE IF s.m.exited THEN SettleStartupLifecycle(s, "exit", TRUE)
  ELSE IF Expired(s)
       THEN LET t == SettleStartupDeadline(s, complete)
            IN  IF t.m.terminal = "none" THEN t
                ELSE [t EXCEPT !.m.pending = TRUE, !.m.timer = TRUE]
  ELSE IF Status(s) # "ok" \/ s.row.tag # expected THEN s
  ELSE LET leased == s.m.lease # "none"
           set == [s EXCEPT !.row.tag = value]
           off == IF leased /\ expected = "starting" /\ value # "starting"
                  THEN [set EXCEPT !.m.disarmed = TRUE, !.m.timer = FALSE] ELSE set
       IN  IF leased /\ value = "client" THEN [off EXCEPT !.m.terminal = value] ELSE off

(* The startup timer's branch of service_timers. *)
LeaseTimer(s, complete) ==
  CASE s.m.pending -> [s EXCEPT !.m.pending = FALSE, !.m.timer = FALSE,
                                !.m.external = TRUE, !.m.shut = TRUE]
    [] ~s.m.pending /\ (s.m.disarmed \/ s.m.lease # "timed") -> [s EXCEPT !.m.timer = FALSE]
    [] ~s.m.pending /\ Expired(s) ->
         LET t == SettleStartupDeadline(s, complete)
         IN  IF t.m.terminal = "none" THEN [t EXCEPT !.m.timer = TRUE]
             ELSE [t EXCEPT !.m.external = TRUE, !.m.shut = TRUE]
    [] OTHER -> s

----------------------------------------------------------------------------
(* The child's exit. *)

FinalizeExit(s) ==
  LET t == [SettleStartupLifecycle(s, "exit", TRUE) EXCEPT
              !.m.exited = TRUE, !.m.drain = FALSE]
  IN  [SaveExitMetadata(t) EXCEPT !.m.exitRetry = Status(t) = "busy",
                                  !.m.grace = ~s.m.shut]

(* Msg::ChildExited and Msg::PtyEof: whichever comes second, or the drain *)
(* deadline after the status, records the exit. *)
OnChildExited(s) ==
  LET t == [s EXCEPT !.m.status = TRUE] IN
  IF s.m.eof THEN IF s.m.exited THEN t ELSE FinalizeExit(t)
  ELSE [t EXCEPT !.m.drain = TRUE]

OnPtyEof(s) ==
  LET t == [s EXCEPT !.m.eof = TRUE]
  IN  IF s.m.status /\ ~s.m.exited THEN FinalizeExit(t) ELSE t

OnDrained(s) ==
  LET t == [s EXCEPT !.m.drain = FALSE]
  IN  IF s.m.exited THEN t ELSE FinalizeExit(t)

----------------------------------------------------------------------------
(* Removing the files: only under the lock and only this generation's own. *)

Owned(s) == s.row.gen \in {"us", "none"} /\ s.files \in {"us", "none"}

CleanupOwnedSocket(s) ==
  IF s.lock \/ ~Owned(s) THEN s ELSE [s EXCEPT !.files = "none"]

CleanupOwnedAll(s) ==
  IF s.lock \/ ~Owned(s) THEN s
  ELSE [s EXCEPT !.files = "none", !.row.gen = "none",
                 !.side = [gen |-> "none", stamp |-> 0]]

(* reap_at_exit: never with a lease, never after a kill from outside of a *)
(* session that is not ephemeral; wanted is what its tags ask for. *)
ReapAtExit(s) ==
  /\ s.row.gen # "other" /\ s.m.lease = "none"
  /\ s.m.external => s.m.ephemeral
  /\ s.m.wanted

----------------------------------------------------------------------------
State == [m |-> m, child |-> child, row |-> row, side |-> side, files |-> files,
          lock |-> lock, count |-> count]

Commit(s) == /\ m' = s.m /\ child' = s.child /\ row' = s.row /\ side' = s.side
             /\ files' = s.files /\ lock' = s.lock /\ count' = s.count

Once(what, bound) == [State EXCEPT !.count[what] = @ + 1]
CanStill(what, bound) == count[what] < bound
CanAsk == count.cas + count.change < MaxCas

RecordInit ==
  /\ \E lease \in {"none", "untimed", "timed"}, ephemeral, wanted \in BOOLEAN :
       m = [phase |-> "serving", status |-> FALSE, eof |-> FALSE, drain |-> FALSE,
            exited |-> FALSE, exitRetry |-> FALSE, grace |-> FALSE, shut |-> FALSE,
            external |-> FALSE, activity |-> FALSE, out |-> 0,
            lease |-> lease, timer |-> lease = "timed", late |-> FALSE,
            disarmed |-> FALSE, terminal |-> "none", pending |-> FALSE,
            tree |-> "none", frozen |-> FALSE, backstop |-> FALSE, skipped |-> FALSE,
            cgen |-> 0, stamp |-> 0, retry |-> FALSE, lost |-> FALSE,
            ephemeral |-> ephemeral, wanted |-> wanted]
  /\ child = "up"
  /\ row = [gen |-> "us", cgen |-> 0, attach |-> 0, exit |-> FALSE, out |-> 0,
            tag |-> IF m.lease = "none" THEN "none" ELSE "starting"]
  /\ side = [gen |-> "none", stamp |-> 0]
  /\ files = "us"
  /\ lock = FALSE
  /\ count = [change |-> 0, lock |-> 0, cas |-> 0, attach |-> 0]

Serving == m.phase = "serving" /\ ~m.shut

ClientChange ==
  /\ Serving /\ CanStill("change", MaxChanges) /\ CanAsk
  /\ \E attach, late \in BOOLEAN :
       LET s == [Once("change", MaxChanges) EXCEPT
                   !.count.attach = IF attach THEN @ + 1 ELSE @]
       IN  Commit(NoteClientChange(s, IF attach THEN s.count.attach ELSE 0, late))

ClientRetry ==
  /\ Serving /\ m.retry
  /\ \E late \in BOOLEAN : Commit(WriteClientGeneration(State, late))

(* on_pty_data: the stamp, and a write made pending. *)
PtyData ==
  /\ Serving /\ child = "up" /\ m.out < MaxOutput
  /\ Commit([State EXCEPT !.m.out = @ + 1, !.m.activity = TRUE])

ActivityTimer == Serving /\ m.activity /\ Commit(PersistOutputActivity(State))

ChildDies ==
  /\ child \in {"up", "stopped"}
  /\ child' = "gone"
  /\ UNCHANGED <<m, row, side, files, lock, count>>

(* The bridge's two messages, in either order, while serving or waiting *)
(* for the child in close(). *)
Bridged == m.phase = "waiting" \/ Serving

ChildExited == Bridged /\ child = "gone" /\ ~m.status /\ Commit(OnChildExited(State))
PtyEof == Bridged /\ child = "gone" /\ ~m.eof /\ Commit(OnPtyEof(State))
DrainTimer == Bridged /\ m.drain /\ Commit(OnDrained(State))

(* late is the end of the 400 ms. *)
ExitRetryTimer ==
  /\ Serving /\ m.exitRetry
  /\ \E late \in BOOLEAN :
       Commit([SaveExitMetadata(State) EXCEPT !.m.exitRetry = Status(State) = "busy" /\ ~late])

DeadlinePasses ==
  /\ m.lease = "timed" /\ ~m.late
  /\ m' = [m EXCEPT !.late = TRUE]
  /\ UNCHANGED <<child, row, side, files, lock, count>>

StartupTimer ==
  /\ Serving /\ m.timer
  /\ m.pending \/ m.late \/ m.disarmed
  /\ \E complete \in BOOLEAN : Commit(LeaseTimer(State, complete))

(* A request may expect any value, a terminal one too; "client" stands for *)
(* every terminal value a client writes. *)
LifecycleCas ==
  /\ Serving /\ CanAsk
  /\ \E expected \in {"starting", "ready"} \cup Terminal, value \in {"starting", "ready", "client"},
        complete \in BOOLEAN :
       Commit(CompareAndSetLifecycle(Once("cas", MaxCas), expected, value, complete))

GraceTimer ==
  /\ Serving /\ m.grace
  /\ Commit([State EXCEPT !.m.grace = FALSE, !.m.shut = TRUE])

ExternalKill ==
  /\ Serving
  /\ Commit([State EXCEPT !.m.external = TRUE, !.m.shut = TRUE])

----------------------------------------------------------------------------
(* close(), one step per stretch between its waits. *)

(* settle_startup_lifecycle_before_close retries while the lock is held, *)
(* for two seconds (late). *)
CloseLease ==
  /\ m.phase = "serving" /\ m.shut
  /\ \E late \in BOOLEAN :
       LET s == SettleStartupLifecycle(State, "exit", TRUE) IN
       /\ s.m.lease = "none" \/ s.m.terminal # "none" \/ row.gen # "us" \/ late
       /\ Commit([s EXCEPT !.m.phase = "sockets", !.m.backstop = TRUE,
                           !.m.tree = IF s.m.external /\ @ = "none" THEN "complete" ELSE @])

(* The exit record once more, clients destroyed, the socket file removed, *)
(* the child hung up, or killed when the freeze has stopped it. *)
CloseSockets ==
  /\ m.phase = "sockets"
  /\ LET saved == IF m.exited THEN SaveExitMetadata(State) ELSE State
         swept == CleanupOwnedSocket(saved)
     IN  \E dies \in BOOLEAN :
           Commit([swept EXCEPT !.m.phase = "waiting",
                     !.child = IF @ = "stopped" \/ (@ = "up" /\ dies) THEN "gone" ELSE @])

(* wait_child_exit twice: SIGKILL after the first, then on in any case. *)
CloseWaited ==
  /\ m.phase = "waiting"
  /\ Commit([State EXCEPT !.m.phase = "settling",
                          !.child = IF m.exited THEN @ ELSE "gone"])

(* save_exit_metadata_until_settled, for two seconds (late), then the reap.*)
CloseSettles ==
  /\ m.phase = "settling"
  /\ \E late \in BOOLEAN :
       LET s == IF m.exited THEN SaveExitMetadata(State) ELSE State IN
       /\ ~m.exited \/ Status(State) # "busy" \/ late
       /\ Commit([s EXCEPT !.m.phase = "reaping",
                           !.m.skipped = m.exited /\ Status(State) = "busy"])

CloseReaps ==
  /\ m.phase = "reaping"
  /\ Commit([(IF ReapAtExit(State) THEN CleanupOwnedAll(State) ELSE State)
               EXCEPT !.m.phase = "ended"])

(* start_backstop: the hard deadline of a close that takes too long. *)
Backstop ==
  /\ m.backstop /\ m.phase # "ended"
  /\ LET s == [State EXCEPT !.child = "gone", !.m.skipped = TRUE]
     IN  Commit([(IF ReapAtExit(s) THEN CleanupOwnedAll(s) ELSE CleanupOwnedSocket(s))
                   EXCEPT !.m.phase = "ended"])

----------------------------------------------------------------------------
(* The other processes. *)

OtherLock ==
  /\ \/ lock /\ lock' = FALSE /\ UNCHANGED count
     \/ ~lock /\ CanStill("lock", MaxLocks) /\ lock' = TRUE
        /\ count' = [count EXCEPT !.lock = @ + 1]
  /\ UNCHANGED <<m, child, row, side, files>>

(* A newer daemon publishes under the name, and writes its own sidecar. *)
Replace ==
  /\ ~lock /\ row.gen # "other"
  /\ row' = [row EXCEPT !.gen = "other", !.exit = FALSE, !.tag = "none"]
  /\ files' = "other"
  /\ side' = [gen |-> "other", stamp |-> 0]
  /\ UNCHANGED <<m, child, lock, count>>

RecordNext ==
  \/ ClientChange \/ ClientRetry \/ PtyData \/ ActivityTimer \/ ChildDies
  \/ ChildExited \/ PtyEof \/ DrainTimer \/ ExitRetryTimer \/ DeadlinePasses
  \/ StartupTimer \/ LifecycleCas \/ GraceTimer \/ ExternalKill
  \/ CloseLease \/ CloseSockets \/ CloseWaited \/ CloseSettles \/ CloseReaps
  \/ Backstop \/ OtherLock \/ Replace

(* The daemon's threads run, its timers fire, and close() goes on.  The *)
(* lease timer and the exit are retried until a held lock is free. *)
RecordFairness ==
  /\ WF_rvars(StartupTimer) /\ WF_rvars(DeadlinePasses) /\ WF_rvars(GraceTimer)
  /\ WF_rvars(CloseLease) /\ WF_rvars(CloseSockets) /\ WF_rvars(CloseWaited)
  /\ WF_rvars(CloseSettles) /\ WF_rvars(CloseReaps)
  /\ WF_rvars(lock /\ OtherLock)

RecordSpec == RecordInit /\ [][RecordNext]_rvars /\ RecordFairness

----------------------------------------------------------------------------
(* Properties. *)

(* A daemon whose name was taken over writes nothing of its successor: *)
(* not its record, sidecar, socket or pid file, from any of its timers, *)
(* from close() or from the backstop. *)
SuccessorUntouched ==
  /\ row.gen = "other" => row' = row
  /\ side.gen = "other" => side' = side
  /\ files = "other" => files' = files

(* The record follows the daemon.  A write that neither waits for a retry *)
(* nor was given up has landed; the stamp of the last attach is in the *)
(* record or waits for the next write; a close that ended by itself leaves *)
(* the exit of its child recorded, with the last output, unless the lock *)
(* was held to the end of its patience. *)
RecordFollowsDaemon ==
  row.gen = "us" =>
    /\ ~m.retry /\ ~m.lost => row.cgen = m.cgen /\ m.stamp = 0
    /\ count.attach \in {row.attach, m.stamp}
    /\ m.phase = "ended" /\ m.exited /\ ~m.skipped => row.exit /\ row.out = m.out

(* The daemon writes one terminal value of a startup lifecycle: an exit *)
(* never rewrites a deadline or a client's value, nor a deadline an exit, *)
(* and no timer, close() or backstop does.  Only a client's request that *)
(* expects the value replaces it, before the exit and the shutdown. *)
FirstTerminalStands ==
  row.gen = "us" /\ row'.gen = "us" /\ row.tag \in Terminal /\ row'.tag # row.tag =>
    Serving /\ ~m.exited /\ count'.cas = count.cas + 1

(* A tree stopped by the deadline is killed or resumed: it is never left *)
(* stopped by a daemon that has ended, nor by one that serves on with its *)
(* lease over and no terminal value written. *)
NeverLeftStopped ==
  child = "stopped" =>
    /\ m.frozen /\ m.phase # "ended"
    /\ m.terminal # "none" \/ ~m.disarmed \/ m.shut

DeadlineMissed == m.lease = "timed" /\ m.late /\ ~m.disarmed
MustEnd == m.terminal \in {"deadline", "unavailable"} \/ m.shut
(* Requests rewrote the deadline to "starting" and then disarmed it: the *)
(* timer of the shutdown it announced is gone. *)
Undone == m.pending /\ ~m.timer
LeaseObeyed == m.phase = "ended" \/ (m.disarmed /\ ~MustEnd) \/ Undone

(* An armed lease is enforced: a daemon whose deadline passes before the *)
(* lease is disarmed ends, and so does every daemon told to shut down, *)
(* unless requests that expect the deadline's value undo it. *)
LeaseIsEnforced == (DeadlineMissed \/ MustEnd) ~> LeaseObeyed
============================================================================
