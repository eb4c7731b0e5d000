--------------------------- MODULE SessionControl ---------------------------
(***************************************************************************)
(* The commands that end, signal or remove a session (stop.rs, signal.rs,  *)
(* remove.rs, cleanup.rs, evidence.rs) and the collectors that do so on    *)
(* their own (gc.rs, retention.rs).  A command is a sequence of steps with *)
(* the world moving between them; a step that holds both of the name's     *)
(* locks is one action.                                                    *)
(*                                                                         *)
(* The world is one session name as the commands meet it: its files in the *)
(* registry, its daemon, the processes its daemon started, and a machine   *)
(* that hands a pid out again once it is free.  Launchers, the user's tags *)
(* and time go on changing it while a command runs.  A process carries,    *)
(* beyond what the table shows, ses: the generation of the session it      *)
(* belongs to, 0 for a stranger.                                           *)
(***************************************************************************)
EXTENDS ProcessTable

CONSTANTS
  Pids,        \* pids the machine may use; > 1
  MaxToken,    \* bound: processes ever started
  Boots        \* boot identities a launcher may record: "here", or "none" for a legacy one

ASSUME MachineAssumption ==
  /\ Pids \subseteq Nat \ {0, 1} /\ Pids # {} /\ MaxToken \in Nat
  /\ Boots \subseteq {"here", "none"}

VARIABLES
  procs,    \* the machine: pid -> process
  fork,     \* processes started so far
  row,      \* the session's files: record, pid file, socket
  tagged    \* the user has tagged the record since it was published

wvars == <<procs, fork, row, tagged>>

Boot == "here"

(* The record of a generation: the daemon's identity, whether its exit is *)
(* recorded, the tags that decide over it, and the collectors' notes: the *)
(* stamp of a loss without an exit, and whether the retention window (old) *)
(* and keep's (spent) have passed since the exit or the stamp, and keep's *)
(* since the creation (aged). *)
Record(gen, pid, tok, boot, perm) ==
  [gen |-> gen, pid |-> pid, tok |-> tok, boot |-> boot, exited |-> FALSE, perm |-> perm,
   keep |-> FALSE, stamp |-> FALSE, old |-> FALSE, spent |-> FALSE, aged |-> FALSE,
   fails |-> 0, flapping |-> FALSE, orphan |-> FALSE, idle |-> FALSE]

NoRec == Record(0, 0, 0, "none", FALSE)
NoRow == [rec |-> NoRec, sidecar |-> 0, socket |-> FALSE]

Add(rows, p, q) == [x \in DOMAIN rows \cup {p} |-> IF x = p THEN q ELSE rows[x]]
Reap(rows, dead) ==
  [x \in DOMAIN rows \ dead |->
     IF rows[x].ppid \in dead THEN [rows[x] EXCEPT !.ppid = 1] ELSE rows[x]]

DaemonOf(r) == IF r.gen = 0 THEN {} ELSE {p \in DOMAIN procs \cap {r.pid} : procs[p].tok = r.tok}
DaemonLives == DaemonOf(row.rec) # {}

Proc(tok, ppid, pgid, ses) ==
  [tok |-> tok, ppid |-> ppid, pgid |-> pgid, state |-> "run", ses |-> ses]

(* A daemon d and its child c, in a group of its own, with a published row. *)
Launched(d, c, boot, perm) ==
  LET gen == fork + 1 IN
  /\ procs' = Add(Add(procs, d, Proc(fork + 1, 1, d, gen)), c, Proc(fork + 2, d, c, gen))
  /\ fork' = fork + 2
  /\ row' = [rec |-> Record(gen, d, fork + 1, boot, perm), sidecar |-> d, socket |-> TRUE]
  /\ tagged' = FALSE

(* A launcher under the creation lock replaces a row whose owner is lost. *)
Launch(d, c) ==
  /\ d # c /\ {d, c} \subseteq Pids \ DOMAIN procs /\ fork + 2 <= MaxToken
  /\ \/ row = NoRow
     \/ CheckRecordIdentityIn(row.sidecar, row.socket, row.rec, procs, Boot) \in {"gone", "mismatch"}
  /\ \E boot \in Boots, perm \in BOOLEAN :
       Launched(d, c, boot, perm)

(* finalize_exit: the daemon records its exit and takes its socket and pid *)
(* file away; a session nobody keeps takes its whole row with it. *)
DaemonRecordsExit ==
  /\ DaemonLives /\ ~row.rec.exited
  /\ \/ row' = [rec |-> [row.rec EXCEPT !.exited = TRUE], sidecar |-> 0, socket |-> FALSE]
     \/ ~row.rec.keep /\ ~row.rec.perm /\ row' = NoRow
  /\ UNCHANGED <<procs, fork, tagged>>

(* The daemon ends, with or without its record; its tree may outlive it. *)
DaemonEnds ==
  \E d \in {p \in DOMAIN procs : procs[p].ses # 0 /\ procs[p].ppid = 1} :
    \E dead \in SUBSET Walk(d, procs) :
      /\ procs' = Reap(procs, dead \cup {d})
      /\ UNCHANGED <<fork, row, tagged>>

ChildForks(p, q) ==
  /\ p \in DOMAIN procs /\ procs[p].ses # 0 /\ procs[p].ppid # 1
  /\ q \in Pids \ DOMAIN procs /\ fork < MaxToken
  /\ procs' = Add(procs, q, [procs[p] EXCEPT !.tok = fork + 1, !.ppid = p])
  /\ fork' = fork + 1
  /\ UNCHANGED <<row, tagged>>

ProcessExits(p) ==
  /\ p \in DOMAIN procs /\ p \notin DaemonOf(row.rec)
  /\ procs' = Reap(procs, {p})
  /\ UNCHANGED <<fork, row, tagged>>

(* A stranger gets a free pid; the kernel hands out no pid that still *)
(* names a group. *)
Stranger(p) ==
  /\ p \in Pids \ DOMAIN procs /\ fork < MaxToken
  /\ \A q \in DOMAIN procs : procs[q].pgid # p
  /\ procs' = Add(procs, p, Proc(fork + 1, 1, p, 0))
  /\ fork' = fork + 1
  /\ UNCHANGED <<row, tagged>>

(* The user keeps the session, or makes it permanent (update_tags). *)
UserTags ==
  /\ row.rec.gen # 0 /\ ~tagged
  /\ tagged' = TRUE
  /\ \/ row' = [row EXCEPT !.rec.keep = TRUE]
     \/ row' = [row EXCEPT !.rec.perm = TRUE]
  /\ UNCHANGED <<procs, fork>>

(* loss_anchor: the exit, or the stamp of a loss without one. *)
Anchored(rec) == rec.exited \/ rec.stamp

(* Time passes: the windows of retention and keep, counted from the exit or *)
(* the stamp, the age of the record, the idle limit, the parent's life. *)
TimePasses(what) ==
  /\ row.rec.gen # 0
  /\ \/ "old" \in what /\ Anchored(row.rec) /\ row' = [row EXCEPT !.rec.old = TRUE]
     \/ "spent" \in what /\ Anchored(row.rec) /\ row' = [row EXCEPT !.rec.spent = TRUE]
     \/ "aged" \in what /\ row' = [row EXCEPT !.rec.aged = TRUE]
     \/ "idle" \in what /\ row' = [row EXCEPT !.rec.idle = TRUE]
     \/ "orphan" \in what /\ row' = [row EXCEPT !.rec.orphan = TRUE]
  /\ row' # row
  /\ UNCHANGED <<procs, fork, tagged>>

WorldInit ==
  /\ \E boot \in Boots, perm \in BOOLEAN :
       row = [rec |-> Record(1, 2, 1, boot, perm), sidecar |-> 2, socket |-> TRUE]
  /\ procs = [p \in {2, 3} |-> Proc(p - 1, p - 1, p, 1)]
  /\ fork = 2 /\ tagged = FALSE

WorldStep ==
  \/ \E p, q \in Pids : ChildForks(p, q)
  \/ \E p \in Pids : ProcessExits(p) \/ Stranger(p)
  \/ DaemonRecordsExit \/ DaemonEnds \/ UserTags

(* One read of the process table: it may fail, or miss a row that was *)
(* refused to it. *)
TableReads ==
  {[rows |-> procs, readable |-> TRUE, complete |-> TRUE], Unreadable} \cup
  {[rows |-> [x \in DOMAIN procs \ {p} |-> procs[x]], readable |-> TRUE, complete |-> FALSE] :
     p \in DOMAIN procs}

----------------------------------------------------------------------------
(* What a command reads of the row. *)

(* daemon_identity, known_owner_lost, is_permanent. *)
DaemonIdentity == CheckRecordIdentityIn(row.sidecar, row.socket, row.rec, procs, Boot)
KnownOwnerLost(check) == check \in {"gone", "mismatch"}
OwnerLost == KnownOwnerLost(DaemonIdentity)

(* get_session_by_name, scan_sessions: the status of the row. *)
SessionStatus ==
  IF row.rec.exited THEN "exited" ELSE IF OwnerLost THEN "vanished" ELSE "running"

(* read_control_target_with: the pid a command may act on, 0 for none. *)
ControlTarget(rec) ==
  IF ControlAuthority(row.sidecar, rec, procs, Boot) = "none" THEN 0
  ELSE IF row.sidecar # 0 THEN row.sidecar ELSE rec.pid

(* metadata_matches_observation. *)
MatchesObservation(seen) == row.rec.gen # 0 /\ row.rec.gen = seen.gen

(* is_current_generation_owner: a missing record or pid file denies nothing. *)
IsCurrentGenerationOwner(gen, pid) ==
  (row.rec.gen # 0 => row.rec.gen = gen) /\ row.sidecar \in {0, pid}

----------------------------------------------------------------------------
(* The commands. *)
CONSTANTS Ops,       \* the commands the instance runs
          FailLimit  \* fast fails after which a permanent session flaps

VARIABLE cmd   \* the command under way

cvars == <<procs, fork, row, tagged, cmd>>

(* obs: the record it observed; pid, pin: the daemon it acts on and the *)
(* token of the process it holds a descriptor of; before, groups: the tree *)
(* and groups seen before the signal; tree: what the tree really was; left: *)
(* what its aftermath found; unseen: what lived but was missing from the *)
(* table its aftermath read; hit: every process it signalled. *)
Idle(op) ==
  [op |-> op, pc |-> "idle", obs |-> NoRec, pid |-> 0, pin |-> 0, auth |-> "none",
   before |-> {}, groups |-> {}, tree |-> {}, pins |-> {}, left |-> {}, unseen |-> {},
   cleaned |-> FALSE, result |-> "none", hit |-> {}]

At(op, pc) == cmd.op = op /\ cmd.pc = pc
Goto(pc) == cmd' = [cmd EXCEPT !.pc = pc]
Finish(result) == cmd' = [cmd EXCEPT !.pc = "done", !.result = result]
Ready(op) == At(op, "idle")

(* The command observes the row and goes on with its pid. *)
Begin(pc, pid) == cmd' = [cmd EXCEPT !.pc = pc, !.obs = row.rec, !.pid = pid]

----------------------------------------------------------------------------
(* DaemonHandle: identity, descriptor, identity again. *)

(* require_identity: of a person's command, and of the collectors'. *)
Authority == IF cmd.op = "stop"
             THEN IF ControlTarget(cmd.obs) = cmd.pid
                  THEN ControlAuthority(row.sidecar, cmd.obs, procs, Boot) ELSE "none"
             ELSE IF CheckDaemonIdentity(cmd.pid, cmd.obs, procs, Boot) = "match" THEN "match" ELSE "none"

RequireIdentity == Authority = cmd.auth /\ cmd.auth # "none"

(* open_with: whoever has the pid now is read, pinned, and must be the *)
(* same when its life is checked. *)
HandleOpens(op, next) ==
  /\ At(op, "open")
  /\ IF cmd.pid \in DOMAIN procs
     THEN cmd' = [cmd EXCEPT !.auth = Authority, !.pin = procs[cmd.pid].tok, !.pc = next]
     ELSE Finish("signal_failed")
  /\ UNCHANGED wvars

(* Exact::signal: the process the descriptor was opened on, or nobody. *)
Held == {p \in DOMAIN procs \cap {cmd.pid} : procs[p].tok = cmd.pin}
Struck(ps) == {[tok |-> procs[p].tok, ses |-> procs[p].ses] : p \in ps}

(* Exact::wait_exit: the descriptor becomes readable, or the time is up. *)
HeldExited == Held = {}

----------------------------------------------------------------------------
(* stop. *)

StopLooks ==
  /\ Ready("stop")
  /\ IF SessionStatus = "running" /\ ControlTarget(row.rec) # 0
     THEN Begin("open", ControlTarget(row.rec)) ELSE Finish("refused")
  /\ UNCHANGED wvars

StopOpens == HandleOpens("stop", "check")

StopChecks ==
  /\ At("stop", "check")
  /\ IF RequireIdentity /\ ~HeldExited
     THEN Goto(IF cmd.obs.perm THEN "tag" ELSE "snapshot") ELSE Finish("signal_failed")
  /\ UNCHANGED wvars

(* update_tags: the strategy tag goes from the record that has the name. *)
StopDropsStrategy ==
  /\ At("stop", "tag")
  /\ row' = IF row.rec.gen = 0 THEN row ELSE [row EXCEPT !.rec.perm = FALSE]
  /\ Goto("snapshot")
  /\ UNCHANGED <<procs, fork, tagged>>

StopSnapshots ==
  /\ At("stop", "snapshot")
  /\ IF RequireIdentity
     THEN \E t \in TableReads :
            cmd' = [cmd EXCEPT !.before = SnapshotFromTable(cmd.pid, t.rows),
                               !.groups = GroupsInTree(cmd.pid, t.rows),
                               !.tree = SnapshotFromTable(cmd.pid, procs), !.pc = "signal"]
     ELSE Finish("signal_failed")
  /\ UNCHANGED wvars

(* Mutant: the signal goes to the number. *)
StopSignalsByNumber ==
  /\ At("stop", "signal")
  /\ cmd' = [cmd EXCEPT !.hit = @ \cup Struck(DOMAIN procs \cap {cmd.pid}), !.pc = "wait"]
  /\ UNCHANGED wvars

StopSignals ==
  /\ At("stop", "signal")
  /\ IF RequireIdentity
     THEN cmd' = [cmd EXCEPT !.hit = @ \cup Struck(Held), !.pc = "wait"]
     ELSE Finish("signal_failed")
  /\ UNCHANGED wvars

StopWaits ==
  /\ At("stop", "wait")
  /\ IF HeldExited THEN Goto("cleanup") ELSE Finish("still_running")
  /\ UNCHANGED wvars

CleanupSocket(r) == [r EXCEPT !.sidecar = 0, !.socket = FALSE]

(* cleanup_owned_socket, under the creation lock, which may be busy. *)
StopCleans ==
  /\ At("stop", "cleanup")
  /\ \/ /\ IsCurrentGenerationOwner(cmd.obs.gen, cmd.pid)
        /\ row' = CleanupSocket(row)
        /\ cmd' = [cmd EXCEPT !.cleaned = TRUE, !.pc = "aftermath"]
     \/ UNCHANGED row /\ Goto("aftermath")
  /\ UNCHANGED <<procs, fork, tagged>>

(* Mutant: what could not be measured is gone. *)
AftermathHopeful(t) == {i \in cmd.before : IsSameProcess(i, t.rows)}

(* aftermath: a pid the table does not show has exited, another token is *)
(* another process, an unreadable table answers for nobody. *)
Aftermath(t) ==
  IF ~t.readable THEN cmd.before ELSE {i \in cmd.before : IsSameProcess(i, t.rows)}

(* What lives although the table that was read does not show it. *)
Unseen(t) ==
  IF t.readable THEN {i \in StillLive(cmd.before, procs) : i.pid \notin DOMAIN t.rows} ELSE {}

StopMeasures ==
  /\ At("stop", "aftermath")
  /\ \E t, u \in TableReads :
       LET left == Aftermath(t) IN
       cmd' = IF left = {} /\ MembersOfGroups(cmd.groups, u.rows) = {}
              THEN [cmd EXCEPT !.left = left, !.unseen = Unseen(t), !.pc = "report"]
              ELSE [cmd EXCEPT !.pc = "term"]
  /\ UNCHANGED wvars

(* escalate_over_groups: group by group, on a whole table whose every *)
(* member of the group is exactly a process of the snapshot, all of them *)
(* pinned before any is signalled. *)
GroupIsOwned(g, t) ==
  LET members == MembersOfGroups({g}, t.rows) IN
  t.complete /\ members # {} /\ \A p \in members : Identity(t.rows, p) \in cmd.before

(* sweep_groups: after each signal the groups are looked at, until they *)
(* are empty or the time is up. *)
SweepOn(c) ==
  \E t \in TableReads :
    cmd' = [c EXCEPT !.pins = {}, !.pc = IF c.pc = "term" /\ MembersOfGroups(c.groups, t.rows) # {}
                                        THEN "kill" ELSE "remeasure"]

SweepPins ==
  /\ cmd.op = "stop" /\ cmd.pc \in {"term", "kill"} /\ cmd.pins = {}
  /\ \E t \in TableReads :
       LET owned == {g \in cmd.groups : GroupIsOwned(g, t)}
           pins == {Identity(t.rows, p) : p \in MembersOfGroups(owned, t.rows)}
       IN  IF pins = {} THEN SweepOn(cmd) ELSE cmd' = [cmd EXCEPT !.pins = pins]
  /\ UNCHANGED wvars

(* signal_pinned_members: TERM may be ignored, KILL may not. *)
SweepSignals ==
  /\ cmd.op = "stop" /\ cmd.pc \in {"term", "kill"} /\ cmd.pins # {}
  /\ LET struck == {i.pid : i \in StillLive(cmd.pins, procs)} IN
     /\ \E spared \in IF cmd.pc = "term" THEN {{}, struck} ELSE {{}} : procs' = Reap(procs, struck \ spared)
     /\ SweepOn([cmd EXCEPT !.hit = @ \cup Struck(struck)])
  /\ UNCHANGED <<fork, row, tagged>>

StopRemeasures ==
  /\ At("stop", "remeasure")
  /\ \E t, u \in TableReads :
       cmd' = [cmd EXCEPT !.left = Aftermath(t) \cup
                            {Identity(u.rows, p) : p \in MembersOfGroups(cmd.groups, u.rows)},
                          !.unseen = Unseen(t), !.pc = "report"]
  /\ UNCHANGED wvars

(* verified_empty: nothing of the snapshot, and nothing of the groups. *)
StopReports ==
  /\ At("stop", "report")
  /\ Finish(IF ~cmd.cleaned THEN "signal_failed" ELSE IF cmd.left = {} THEN "verified" ELSE "left")
  /\ UNCHANGED wvars

----------------------------------------------------------------------------
(* signal: the daemon that answers STATUS must be the one the record *)
(* names; its child is then signalled by number, the documented window. *)

SignalLooks ==
  /\ Ready("signal")
  /\ IF ControlTarget(row.rec) # 0
     THEN Begin("status", ControlTarget(row.rec)) ELSE Finish("not_running")
  /\ UNCHANGED wvars

SignalAsks ==
  /\ At("signal", "status")
  /\ LET answers == DaemonOf(row.rec)
         kids == {p \in DOMAIN procs : procs[p].ppid \in answers /\ procs[p].pgid = p}
     IN  IF ~row.socket \/ answers # {cmd.pid} \/ kids = {} THEN Finish("refused")
         ELSE \E k \in kids : cmd' = [cmd EXCEPT !.pid = k, !.pin = procs[k].tok, !.pc = "send"]
  /\ UNCHANGED wvars

SignalSends ==
  /\ At("signal", "send")
  /\ cmd' = [cmd EXCEPT !.hit = Struck({p \in DOMAIN procs : procs[p].pgid = cmd.pid}),
                        !.pc = "done", !.result = "signalled"]
  /\ UNCHANGED wvars

----------------------------------------------------------------------------
(* rm: wait for the recorded owner to be gone, then remove what is still *)
(* the same generation's. *)

RemoveLooks ==
  /\ Ready("rm") /\ row # NoRow
  /\ IF \/ DaemonIdentity = "unknown" /\ ControlTarget(row.rec) = 0
        \/ SessionStatus = "running"
     THEN Finish("refused")
     ELSE Begin("wait", IF row.sidecar # 0 THEN row.sidecar ELSE row.rec.pid)
  /\ UNCHANGED wvars

(* wait_for_recorded_daemon_exit, one look; it gives up after seven seconds. *)
RemoveWaits ==
  /\ At("rm", "wait")
  /\ LET check == IF cmd.obs.boot = "none" THEN CheckControlIdentity(cmd.pid, cmd.obs, procs, Boot)
                  ELSE CheckDaemonIdentity(cmd.pid, cmd.obs, procs, Boot)
     IN  CASE KnownOwnerLost(check) -> Goto("remove")
           [] check = "unknown" -> Finish("unverified")
           [] OTHER -> UNCHANGED cmd \/ Finish("did_not_exit")
  /\ UNCHANGED wvars

(* Mutant: the row is removed by its name. *)
RemoveByName ==
  /\ At("rm", "remove")
  /\ row' = NoRow /\ Finish("removed")
  /\ UNCHANGED <<procs, fork, tagged>>

(* cleanup_owned_all under both locks. *)
RemoveRemoves ==
  /\ At("rm", "remove")
  /\ IF IsCurrentGenerationOwner(cmd.obs.gen, cmd.pid)
     THEN row' = NoRow /\ Finish("removed")
     ELSE UNCHANGED row /\ Finish("replaced")
  /\ UNCHANGED <<procs, fork, tagged>>

(* remove_session_generation: both reads, both identity checks and the *)
(* removal under both locks, metadata last. *)
RemoveGeneration ==
  /\ Ready("rmgen") /\ row.rec.gen # 0
  /\ \E expected \in {row.rec.gen, 0} :
       IF expected = row.rec.gen /\ OwnerLost
       THEN row' = NoRow /\ Finish("removed")
       ELSE UNCHANGED row /\ Finish("refused")
  /\ UNCHANGED <<procs, fork, tagged>>

(* get_session_exit_evidence under the creation lock. *)
ExitEvidence ==
  /\ Ready("evidence")
  /\ Finish(CASE row.rec.gen = 0 -> "missing"
              [] row.rec.gen # 0 /\ DaemonIdentity = "match" -> "running"
              [] row.rec.gen # 0 /\ DaemonIdentity = "unknown" -> "invalid"
              [] OTHER -> IF row.rec.exited THEN "exited" ELSE "vanished")
  /\ UNCHANGED wvars

(* retire_stale_daemon_observation: a row of another boot, or whose pid is *)
(* someone else's, unless it is kept or permanent. *)
RetireStale ==
  /\ Ready("retire") /\ row.rec.gen # 0 /\ ~row.rec.keep /\ ~row.rec.perm
  /\ CheckRecordIdentity(row.sidecar, row.rec, procs, Boot) = "mismatch"
  /\ row' = NoRow /\ Finish("retired")
  /\ UNCHANGED <<procs, fork, tagged>>

----------------------------------------------------------------------------
(* gc.  Its stages observe a list of sessions and act on each later. *)

(* reap_observed_session of an orphan or an abandoned session, first part: *)
(* under the locks, only a proven daemon is signalled, through a descriptor. *)
ReapLooks ==
  /\ \/ Ready("orphan") /\ row.rec.orphan /\ DaemonIdentity # "unknown" /\ Begin("first", 0)
     \/ Ready("abandon") /\ row.rec.perm /\ row.rec.idle /\ Begin("first", 0)
  /\ UNCHANGED wvars

Reaping == cmd.op \in {"orphan", "abandon"}
Eligible == MatchesObservation(cmd.obs) /\ (cmd.op = "abandon" => row.rec.perm /\ row.rec.idle)

ReapFirst ==
  /\ Reaping /\ cmd.pc = "first"
  /\ CASE ~Eligible -> Finish("skipped")
       [] Eligible /\ DaemonIdentity = "unknown" -> Finish("skipped")
       [] Eligible /\ OwnerLost -> Goto("second")
       [] OTHER -> LET pid == IF row.sidecar # 0 THEN row.sidecar ELSE row.rec.pid IN
                   cmd' = [cmd EXCEPT !.pid = pid, !.pin = procs[pid].tok, !.obs = row.rec,
                                      !.auth = "match", !.pc = "signal"]
  /\ UNCHANGED wvars

(* signal_daemon: the identity once more, then the pinned process. *)
ReapSignals ==
  /\ Reaping /\ cmd.pc = "signal"
  /\ IF RequireIdentity THEN cmd' = [cmd EXCEPT !.hit = Struck(Held), !.pc = "wait"] ELSE Finish("skipped")
  /\ UNCHANGED wvars

(* Seven seconds without the locks. *)
ReapWaits ==
  /\ Reaping /\ cmd.pc = "wait"
  /\ IF HeldExited THEN Goto("second") ELSE Finish("skipped")
  /\ UNCHANGED wvars

(* Mutant: the second part trusts the first. *)
ReapSecondBlind ==
  /\ Reaping /\ cmd.pc = "second"
  /\ row' = NoRow /\ Finish("reaped")
  /\ UNCHANGED <<procs, fork, tagged>>

(* Second part, under the locks again: the same generation, its owner lost. *)
ReapSecond ==
  /\ Reaping /\ cmd.pc = "second"
  /\ IF MatchesObservation(cmd.obs) /\ OwnerLost
     THEN row' = NoRow /\ Finish("reaped") ELSE UNCHANGED row /\ Finish("skipped")
  /\ UNCHANGED <<procs, fork, tagged>>

(* removable_finished, and the keep window, counted from the exit or the *)
(* creation (is_keep_expired). *)
RemovableFinished == row.rec.gen # 0 /\ SessionStatus # "running" /\ OwnerLost /\ ~row.rec.perm
KeepHolds(rec) == rec.keep /\ ~(IF rec.exited THEN rec.spent ELSE rec.aged)

SweepLooks ==
  /\ Ready("sweep") /\ RemovableFinished /\ ~KeepHolds(row.rec)
  /\ Begin("clean", 0)
  /\ UNCHANGED wvars

(* cleanup_observed_session: the generation and the loss are checked again, *)
(* the tags are not. *)
CleanupObservedSession ==
  /\ At("sweep", "clean")
  /\ IF MatchesObservation(cmd.obs) /\ OwnerLost
     THEN row' = NoRow /\ Finish("swept") ELSE UNCHANGED row /\ Finish("stale")
  /\ UNCHANGED <<procs, fork, tagged>>

(* reconcile_permanent: fast fails are counted, and past the limit the *)
(* session is marked instead of started (classify_flapping); what comes *)
(* before the old row is taken away may fail and leaves it; a pty.toml *)
(* read again may have dropped the strategy tag (respawn_params). *)
ReconcileLooks ==
  /\ Ready("reconcile") /\ row.rec.gen # 0 /\ row.rec.perm /\ SessionStatus # "running" /\ OwnerLost
  /\ Begin("decide", 0)
  /\ UNCHANGED wvars

ReconcileDecides ==
  /\ At("reconcile", "decide")
  /\ IF ~(MatchesObservation(cmd.obs) /\ row.rec.perm /\ OwnerLost) THEN UNCHANGED row /\ Finish("stale")
     ELSE \E fast, changed, perm \in BOOLEAN :
       LET fails == IF changed \/ ~fast THEN 0 ELSE row.rec.fails + 1 IN
       \/ UNCHANGED row /\ Finish("failed")
       \/ CASE row.rec.flapping /\ ~changed -> UNCHANGED row /\ Finish("flapping_skipped")
            [] ~(row.rec.flapping /\ ~changed) /\ fails >= FailLimit ->
                 \/ row' = [row EXCEPT !.rec.flapping = TRUE, !.rec.fails = fails] /\ Finish("flapped")
                 \/ UNCHANGED row /\ Finish("stale")
            [] OTHER ->
                 /\ row' = NoRow
                 /\ cmd' = [cmd EXCEPT !.pc = "spawn",
                              !.obs = [row.rec EXCEPT !.fails = fails, !.flapping = FALSE, !.perm = perm]]
  /\ UNCHANGED <<procs, fork, tagged>>

(* The new daemon publishes under the delegated lock, whatever is then *)
(* reported of the launch; one that failed before that puts the record *)
(* back for the next pass, if the write succeeds. *)
ReconcileSpawns(d, c) ==
  /\ At("reconcile", "spawn")
  /\ d # c /\ {d, c} \subseteq Pids \ DOMAIN procs /\ fork + 2 <= MaxToken
  /\ LET gen == fork + 1 IN
     /\ procs' = Add(Add(procs, d, Proc(fork + 1, 1, d, gen)), c, Proc(fork + 2, d, c, gen))
     /\ row' = [rec |-> [Record(gen, d, fork + 1, Boot, cmd.obs.perm) EXCEPT
                           !.fails = cmd.obs.fails, !.keep = cmd.obs.keep],
                sidecar |-> d, socket |-> TRUE]
  /\ fork' = fork + 2 /\ tagged' = FALSE
  /\ Finish("respawned") \/ Finish("failed")

(* Mutant: the failed launch leaves nothing. *)
ReconcileForgets ==
  /\ At("reconcile", "spawn") /\ Finish("failed")
  /\ UNCHANGED wvars

ReconcileFails ==
  /\ At("reconcile", "spawn") /\ Finish("failed")
  /\ UNCHANGED row \/ (row.rec.gen = 0 /\ row' = [row EXCEPT !.rec = cmd.obs])
  /\ UNCHANGED <<procs, fork, tagged>>

(* retention.rs, decide: a loss without an exit is stamped and ages from *)
(* there; keep has the longer of the two windows.  Ages are as of seen, *)
(* the record when the sweep took the time. *)
Decide(rec, seen) ==
  CASE ~Anchored(rec) -> "stamp"
    [] Anchored(rec) /\ seen.old /\ (rec.keep => seen.spent) -> "remove"
    [] OTHER -> "none"

RetentionLooks ==
  /\ Ready("retain") /\ RemovableFinished /\ Decide(row.rec, row.rec) # "none"
  /\ Begin("act", 0)
  /\ UNCHANGED wvars

(* Mutant: the record is not read again. *)
RetentionActsOnObserved ==
  /\ At("retain", "act")
  /\ IF MatchesObservation(cmd.obs)
     THEN row' = IF Decide(cmd.obs, cmd.obs) = "remove" THEN NoRow ELSE [row EXCEPT !.rec.stamp = TRUE]
     ELSE UNCHANGED row
  /\ Finish("acted")
  /\ UNCHANGED <<procs, fork, tagged>>

(* act: everything is decided again from the record as it is now; the *)
(* write of the stamp may fail. *)
RetentionActs ==
  /\ At("retain", "act")
  /\ IF /\ MatchesObservation(cmd.obs) /\ OwnerLost /\ ~row.rec.perm
        /\ Decide(row.rec, cmd.obs) = Decide(cmd.obs, cmd.obs)
     THEN \/ /\ row' = IF Decide(row.rec, cmd.obs) = "remove" THEN NoRow
                      ELSE [row EXCEPT !.rec.stamp = TRUE]
             /\ Finish("acted")
          \/ Decide(row.rec, cmd.obs) = "stamp" /\ UNCHANGED row /\ Finish("stale")
     ELSE UNCHANGED row /\ Finish("stale")
  /\ UNCHANGED <<procs, fork, tagged>>

----------------------------------------------------------------------------
(* Of the time that passes, what the command looks at. *)
Reads ==
  CASE cmd.op = "orphan" -> {"orphan"} [] cmd.op = "abandon" -> {"idle"}
    [] cmd.op = "sweep" -> {"spent", "aged"} [] cmd.op = "retain" -> {"old", "spent"} [] OTHER -> {}

ControlInit == WorldInit /\ \E op \in Ops : cmd = Idle(op)

(* The world until the command has ended; launchers wait for its lock. *)
WorldMoves ==
  /\ cmd.pc # "done"
  /\ \/ WorldStep \/ TimePasses(Reads)
     \/ cmd.pc # "spawn" /\ \E p, q \in Pids : Launch(p, q)
  /\ UNCHANGED cmd

ControlNext ==
  \/ WorldMoves
  \/ \E p, q \in Pids : ReconcileSpawns(p, q)
  \/ StopLooks \/ StopOpens \/ StopChecks \/ StopDropsStrategy \/ StopSnapshots \/ StopSignals
  \/ StopWaits \/ StopCleans \/ StopMeasures \/ SweepPins \/ SweepSignals \/ StopRemeasures \/ StopReports
  \/ SignalLooks \/ SignalAsks \/ SignalSends
  \/ RemoveLooks \/ RemoveWaits \/ RemoveRemoves \/ RemoveGeneration \/ ExitEvidence \/ RetireStale
  \/ ReapLooks \/ ReapFirst \/ ReapSignals \/ ReapWaits \/ ReapSecond
  \/ SweepLooks \/ CleanupObservedSession
  \/ ReconcileLooks \/ ReconcileDecides \/ ReconcileFails \/ RetentionLooks \/ RetentionActs

ControlSpec == ControlInit /\ [][ControlNext]_cvars

----------------------------------------------------------------------------
(* Whoever stop and the collectors signal belongs to the session they *)
(* observed: a pid that was handed out again between the look and the *)
(* signal is never theirs, however often they look. *)
StrangersAreSpared ==
  cmd.op # "signal" => \A h \in cmd.hit : h.ses = cmd.obs.gen

(* A stop that reports the tree verified empty has seen every process of *)
(* its snapshot go, but for one whose row the table its aftermath read did *)
(* not have: a pid that is not shown counts as exited. *)
VerifiedSnapshotIsGone ==
  cmd.op = "stop" /\ cmd.result = "verified" => StillLive(cmd.before, procs) \subseteq cmd.unseen

(* No command takes the files of a session whose daemon lives: whatever *)
(* happened between its look and its removal, the row it removes has lost *)
(* its owner. *)
LiveSessionKeepsRow ==
  cmd' # cmd /\ DaemonLives => row'.rec.gen = row.rec.gen

(* No collector takes a row its owner asked to keep, as far as it looks: *)
(* what gc's sweep removes was neither permanent nor kept when gc looked, *)
(* what it gives up as abandoned was permanent and idle, the retiring of *)
(* stale rows spares what is permanent or kept at the removal itself, and *)
(* retention what is permanent then, or kept and within the longer of its *)
(* windows; and reconcile, which takes a permanent row away to start it *)
(* again, leaves the fails counted and the tags where it leaves a record, *)
(* and no record only where it reports that it failed. *)
AskedToStay ==
  /\ cmd' # cmd /\ row.rec.gen # 0 /\ row'.rec.gen = 0 =>
       /\ cmd.op = "sweep" => row.rec.gen = cmd.obs.gen /\ ~cmd.obs.perm /\ ~KeepHolds(cmd.obs)
       /\ cmd.op = "abandon" => row.rec.gen = cmd.obs.gen /\ cmd.obs.perm /\ cmd.obs.idle
       /\ cmd.op = "retire" => ~row.rec.perm /\ ~row.rec.keep
       /\ cmd.op = "retain" => ~row.rec.perm /\ cmd.obs.old /\ (row.rec.keep => cmd.obs.spent)
       /\ cmd.op = "reconcile" => row.rec.perm
       /\ cmd.op \notin {"stop", "signal", "evidence"}
  /\ cmd.op = "reconcile" /\ cmd.pc = "spawn" /\ cmd'.pc = "done" =>
       IF row'.rec.gen = 0 THEN cmd'.result = "failed"
       ELSE row'.rec.fails = cmd.obs.fails /\ row'.rec.perm = cmd.obs.perm /\ row'.rec.keep = cmd.obs.keep

(* The next tick of gc can retry a permanent session whose launch failed. *)
RetryIsKept ==
  [][cmd.op = "reconcile" /\ cmd.pc = "spawn" /\ cmd'.pc = "done" => row'.rec.gen # 0]_cvars

(* gc's sweep proves again, before it removes, that the session is not *)
(* permanent. *)
SweepSparesPermanent ==
  [][At("sweep", "clean") /\ row.rec.gen # 0 /\ row'.rec.gen = 0 => ~row.rec.perm]_cvars

(* The keep tag holds a finished session against the sweep of gc. *)
KeepHoldsAgainstSweep ==
  [][At("sweep", "clean") /\ row.rec.gen # 0 /\ row'.rec.gen = 0 => ~KeepHolds(row.rec)]_cvars

(* A stop touches nothing of a replacement: the record it changes is the *)
(* one it observed. *)
StopTouchesObservedOnly ==
  [][cmd.op = "stop" /\ cmd' # cmd /\ row' # row => row.rec.gen = cmd.obs.gen]_cvars

(* A stop that reports the tree verified empty leaves nothing of what it *)
(* remembered of the tree, or of the tree as it then was. *)
VerifiedMeansGone ==
  cmd.op = "stop" /\ cmd.result = "verified" => StillLive(cmd.before, procs) = {}
VerifiedMeansEmpty ==
  cmd.op = "stop" /\ cmd.result = "verified" => StillLive(cmd.tree, procs) = {}
=============================================================================
