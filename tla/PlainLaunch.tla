---------------------------- MODULE PlainLaunch ----------------------------
(***************************************************************************)
(* The commands that start a daemon for one session name without a launch  *)
(* operation: run, attach -r, restart and up (crates/pty/src/cli), through *)
(* spawn_daemon of pty-lifecycle/src/launch.rs, against the daemons they   *)
(* start and against each other.                                           *)
(*                                                                         *)
(* A daemon is its number; numbers grow with time and stand for pid, start *)
(* token and generation at once.  What the creation claim is made of is    *)
(* CreationClaim's subject: here it is its holder, and the daemon that     *)
(* has it pinned.                                                          *)
(***************************************************************************)
EXTENDS Integers, FiniteSets

CONSTANTS
  Users,       \* people at a shell, each running one command
  UserCommands,    \* what they run: "run", "attach", "restart", "up", "down"
  Images,      \* the publishers a run may name: "unbound", "able", "unable", ...
  MaxDaemons   \* bound: daemons ever started

ASSUME LaunchAssumption == MaxDaemons \in Nat \ {0}

VARIABLES
  dmn,      \* every daemon: where it is, its claim, SIGTERM sent, readiness told
  row,      \* the name's files: record, socket, session_start in the log, exit recorded
  elock,    \* holder of the event lock
  clock,    \* holder of the creation lock
  pin,      \* the daemon that has the claim pinned, or 0
  usr       \* every user's command

lvars == <<dmn, row, elock, clock, pin, usr>>

Daemons == 1..MaxDaemons
Free == <<"free", 0>>
User(u) == <<"user", u>>
Dmn(d) == <<"daemon", d>>

NoRow == [rec |-> 0, sock |-> FALSE, started |-> FALSE, exited |-> FALSE]
Unborn == [st |-> "none", by |-> Free, term |-> FALSE, told |-> FALSE]
Idle(op, img) ==
  [op |-> op, img |-> img, pc |-> "idle", obs |-> 0, names |-> FALSE, d |-> 0, result |-> "none"]

Live(d) == d # 0 /\ dmn[d].st \notin {"none", "dead"}
ClaimFree == clock = Free /\ pin = 0

(* get_session_by_name: running while the record's daemon lives and has *)
(* recorded no exit; a record without its daemon is gone. *)
NewSession ==
  CASE row.rec = 0 -> "none"
    [] row.rec # 0 /\ Live(row.rec) /\ ~row.exited -> "running"
    [] OTHER -> "gone"

OwnerLost == ~Live(row.rec)

(* The fields of f replace those of the user's command. *)
Set(u, f) == usr' = [usr EXCEPT ![u] = [k \in DOMAIN @ |-> IF k \in DOMAIN f THEN f[k] ELSE @[k]]]
At(u, pc) == usr[u].pc = pc
Finished(u, result) == [pc |-> "done", result |-> result]
Locks == <<elock, clock, pin>>

----------------------------------------------------------------------------
(* Looking, before any lock. *)

(* run: an id that is alive is refused; -a attaches to it instead. *)
RunLooks(u) ==
  /\ At(u, "idle") /\ usr[u].op = "run"
  /\ Set(u, IF NewSession = "running" THEN Finished(u, "running") ELSE [pc |-> "elock", obs |-> 0])
  /\ UNCHANGED <<dmn, row, Locks>>

(* attach_session and handle_dead_session, up to the wait for the owner. *)
AttachLooks(u) ==
  /\ At(u, "idle") /\ usr[u].op = "attach"
  /\ Set(u, CASE NewSession = "none" -> Finished(u, "missing")
              [] NewSession = "running" -> Finished(u, "running")
              [] OTHER -> [pc |-> "loss", obs |-> row.rec])
  /\ UNCHANGED <<dmn, row, Locks>>

(* restart: the record is remembered; a running session is stopped first. *)
RestartLooks(u) ==
  /\ At(u, "idle") /\ usr[u].op = "restart"
  /\ Set(u, CASE NewSession = "none" -> Finished(u, "missing")
              [] NewSession = "running" -> [pc |-> "stop", obs |-> row.rec]
              [] OTHER -> [pc |-> "loss", obs |-> row.rec])
  /\ UNCHANGED <<dmn, row, Locks>>

(* stop, of the remembered generation; a session of another one is not *)
(* touched, and a stop that cannot be verified ends the command. *)
RestartStops(u) ==
  /\ At(u, "stop")
  /\ IF row.rec = usr[u].obs /\ Live(row.rec)
     THEN /\ dmn' = [dmn EXCEPT ![row.rec].term = TRUE]
          /\ Set(u, IF usr[u].op = "restart" THEN [pc |-> "loss"] ELSE Finished(u, "stopped"))
     ELSE Set(u, Finished(u, "changed")) /\ UNCHANGED dmn
  /\ UNCHANGED <<row, Locks>>

(* wait_for_recorded_owner_loss: bounded. *)
OwnerLossWaits(u) ==
  /\ At(u, "loss")
  /\ \/ ~Live(usr[u].obs) /\ Set(u, [pc |-> "elock"])
     \/ Live(usr[u].obs) /\ Set(u, Finished(u, "stays"))
  /\ UNCHANGED <<dmn, row, Locks>>

(* up and down: the listing is read once, for the whole manifest; up reads *)
(* a second one, for the names that are taken. *)
ManifestLooks(u) ==
  /\ At(u, "idle") /\ usr[u].op \in {"up", "down"}
  /\ Set(u, [obs |-> row.rec,
             pc |-> CASE NewSession = "running" -> IF usr[u].op = "up" THEN "done" ELSE "stop"
                      [] NewSession = "gone" -> IF usr[u].op = "up" THEN "names" ELSE "remove"
                      [] OTHER -> IF usr[u].op = "up" THEN "names" ELSE "done"])
  /\ UNCHANGED <<dmn, row, Locks>>

UpLists(u) ==
  /\ At(u, "names")
  /\ Set(u, [names |-> row.rec # 0, pc |-> IF usr[u].obs # 0 THEN "remove" ELSE "id"])
  /\ UNCHANGED <<dmn, row, Locks>>

(* pty_client::remove, under both locks: a row whose owner is lost. *)
ManifestRemoves(u) ==
  /\ At(u, "remove")
  /\ IF elock = Free /\ ClaimFree /\ OwnerLost
     THEN /\ row' = NoRow
          /\ Set(u, IF usr[u].op = "up" THEN [pc |-> "id"] ELSE Finished(u, "removed"))
     ELSE Set(u, Finished(u, "skipped")) /\ UNCHANGED row
  /\ UNCHANGED <<dmn, Locks>>

(* The manifest's id against the names that were listed, or a random name. *)
UpChooses(u) ==
  /\ At(u, "id")
  /\ Set(u, IF usr[u].names THEN Finished(u, "taken") ELSE [pc |-> "spawn"])
  /\ UNCHANGED <<dmn, row, Locks>>

----------------------------------------------------------------------------
(* Under the locks: run tries each once, attach and restart wait for them. *)

TakesEvents(u) ==
  /\ At(u, "elock")
  /\ \/ elock = Free /\ elock' = User(u) /\ Set(u, [pc |-> "clock"])
     \/ elock # Free /\ Set(u, Finished(u, "busy")) /\ UNCHANGED elock
  /\ UNCHANGED <<dmn, row, clock, pin>>

TakesCreation(u) ==
  /\ At(u, "clock")
  /\ \/ ClaimFree /\ clock' = User(u) /\ Set(u, [pc |-> "check"]) /\ UNCHANGED elock
     \/ ~ClaimFree /\ elock' = Free /\ Set(u, Finished(u, "busy")) /\ UNCHANGED clock
  /\ UNCHANGED <<dmn, row, pin>>

(* Mutant: create_or_attach trusts what it saw before it had the locks. *)
ChecksEarlier(u) ==
  /\ At(u, "check")
  /\ row' = NoRow /\ elock' = Free /\ Set(u, [pc |-> "spawn"]) /\ UNCHANGED clock
  /\ UNCHANGED <<dmn, pin>>

(* create_or_attach looks again; attach and restart compare the record *)
(* with the one they remember.  Who goes on cleans up what is gone and *)
(* lends the claim to the daemon it is about to start. *)
Checks(u) ==
  /\ At(u, "check")
  /\ LET refused == IF usr[u].op = "run" THEN NewSession = "running"
                    ELSE row.rec = 0 \/ row.rec # usr[u].obs
     IN  IF refused
         THEN Set(u, Finished(u, "changed")) /\ clock' = Free /\ UNCHANGED row
         ELSE Set(u, [pc |-> "spawn"]) /\ row' = NoRow /\ UNCHANGED clock
  /\ elock' = Free
  /\ UNCHANGED <<dmn, pin>>

----------------------------------------------------------------------------
(* spawn_prepared_daemon. *)

(* prepare_daemon: a launch bound to a publication operation pins a native *)
(* image and asks it what it can do, for two seconds and 64 KiB at most. *)
PrepareDaemon(img) ==
  CASE img = "unbound" -> "plain"
    [] img \in {"wrapper", "silent", "oversized", "unable"} -> "error"
    [] OTHER -> "pinned"

(* executable_for_spawn: a bound launch starts nothing but a pinned image. *)
MayStart(u) == PrepareDaemon(usr[u].img) # "error"

(* start_daemon_process; up lends no claim.  It may fail. *)
Starts(u) ==
  /\ At(u, "spawn")
  /\ \/ MayStart(u) /\ \E d \in {x \in Daemons : dmn[x].st = "none" /\ \A y \in 1..(x - 1) : dmn[y].st # "none"} :
          /\ dmn' = [dmn EXCEPT ![d] = [Unborn EXCEPT !.st = "born",
                                        !.by = IF usr[u].op = "up" THEN Free ELSE User(u)]]
          /\ Set(u, [pc |-> "socket", d |-> d])
     \/ Set(u, [pc |-> "release", result |-> "error"]) /\ UNCHANGED dmn
  /\ UNCHANGED <<row, Locks>>

Stops(d) == dmn' = [dmn EXCEPT ![d].term = TRUE]

(* Mutant: a launch that gives up leaves its daemon alone. *)
GivesUpQuietly(u) ==
  /\ Set(u, [pc |-> "release", result |-> "timeout"]) /\ UNCHANGED dmn

(* The errors of wait_for_publication that end in SIGTERM to the child, *)
(* which is not reaped yet, so its pid is its own. *)
GivesUp(u) ==
  /\ Set(u, [pc |-> "release", result |-> "timeout"]) /\ Stops(usr[u].d)

(* check_early_exit. *)
SeesEarlyExit(u) ==
  /\ usr[u].pc \in {"socket", "publication"} /\ ~Live(usr[u].d)
  /\ Set(u, [pc |-> "release", result |-> "exited"])
  /\ UNCHANGED <<dmn, row, Locks>>

(* wait_for_socket: any socket at the path will do. *)
WaitsForSocket(u) ==
  /\ At(u, "socket") /\ Live(usr[u].d)
  /\ \/ row.sock /\ Set(u, [pc |-> "publication"]) /\ UNCHANGED dmn
     \/ ~row.sock /\ GivesUp(u)
  /\ UNCHANGED <<row, Locks>>

(* published_generation_by and the readiness byte. *)
SeesPublication(u) ==
  /\ At(u, "publication")
  /\ row.rec = usr[u].d /\ row.started /\ dmn[usr[u].d].told
  /\ Set(u, [pc |-> "release", result |-> "ok"])
  /\ UNCHANGED <<dmn, row, Locks>>

(* published_by_another. *)
SeesAnother(u) ==
  /\ At(u, "publication")
  /\ row.rec \notin {0, usr[u].d} /\ Live(row.rec) /\ row.started
  /\ GivesUp(u)
  /\ UNCHANGED <<row, Locks>>

PublicationTimeout(u) ==
  /\ At(u, "publication") /\ Live(usr[u].d) /\ GivesUp(u)
  /\ UNCHANGED <<row, Locks>>

(* The creation guard is dropped after the spawn, whatever came of it. *)
Releases(u) ==
  /\ At(u, "release")
  /\ clock' = IF clock = User(u) THEN Free ELSE clock
  /\ Set(u, [pc |-> "done"])
  /\ UNCHANGED <<dmn, row, elock, pin>>

----------------------------------------------------------------------------
(* The daemon: prepare_publication, publish_session, and the rest of run. *)

Dies(d) ==
  /\ dmn' = [dmn EXCEPT ![d].st = "dead"]
  /\ pin' = IF pin = d THEN 0 ELSE pin
  /\ clock' = IF clock = Dmn(d) THEN Free ELSE clock
  /\ elock' = IF elock = Dmn(d) THEN Free ELSE elock

(* Mutant: prepare_publication does not look whether the name is in use. *)
PreparesBlindly(d) ==
  /\ dmn[d].st = "born"
  /\ \/ dmn[d].by # Free /\ clock = dmn[d].by /\ pin = 0 /\ pin' = d /\ UNCHANGED clock
     \/ dmn[d].by = Free /\ ClaimFree /\ clock' = Dmn(d) /\ pin' = d
  /\ dmn' = [dmn EXCEPT ![d].st = "pinned"]
  /\ UNCHANGED <<row, elock, usr>>

(* prepare_publication: pin the lent claim, or take one; refuse a name in *)
(* use. *)
Prepares(d) ==
  /\ dmn[d].st = "born" /\ UNCHANGED <<row, usr>>
  /\ \/ /\ NewSession # "running"
        /\ \/ dmn[d].by # Free /\ clock = dmn[d].by /\ pin = 0 /\ pin' = d /\ UNCHANGED clock
           \/ dmn[d].by = Free /\ ClaimFree /\ clock' = Dmn(d) /\ pin' = d
        /\ dmn' = [dmn EXCEPT ![d].st = "pinned"]
        /\ UNCHANGED elock
     \/ /\ NewSession = "running" \/ pin # 0 \/ clock # dmn[d].by
        /\ Dies(d)

(* publish_session: the log is emptied under the event lock; a lock that *)
(* stays taken ends the launch.  The socket file is replaced by its own. *)
ClearsAndBinds(d) ==
  /\ dmn[d].st = "pinned" /\ UNCHANGED usr
  /\ \/ /\ elock = Free
        /\ row' = [row EXCEPT !.started = FALSE, !.sock = TRUE]
        /\ dmn' = [dmn EXCEPT ![d].st = "bound"]
        /\ UNCHANGED Locks
     \/ elock # Free /\ Dies(d) /\ UNCHANGED row

WritesRecord(d) ==
  /\ dmn[d].st = "bound"
  /\ row' = [row EXCEPT !.rec = d, !.exited = FALSE]
  /\ dmn' = [dmn EXCEPT ![d].st = "recorded"]
  /\ UNCHANGED <<Locks, usr>>

(* session_start, the child, hand_back or drop of the claim; a child that *)
(* cannot be started takes the socket away again and ends the daemon. *)
StartsChild(d) ==
  /\ dmn[d].st = "recorded" /\ UNCHANGED usr
  /\ \/ /\ row' = [row EXCEPT !.started = TRUE]
        /\ dmn' = [dmn EXCEPT ![d].st = "serving"]
        /\ pin' = 0 /\ clock' = IF clock = Dmn(d) THEN Free ELSE clock
        /\ UNCHANGED elock
     \/ row' = [row EXCEPT !.started = TRUE, !.sock = FALSE] /\ Dies(d)

Notifies(d) ==
  /\ dmn[d].st = "serving" /\ ~dmn[d].told
  /\ dmn' = [dmn EXCEPT ![d].told = TRUE]
  /\ UNCHANGED <<row, Locks, usr>>

(* The daemon ends: at SIGTERM, with its child, or without a word.  One *)
(* that serves records its exit if the row is still its own. *)
Ends(d) ==
  /\ Live(d) /\ Dies(d) /\ UNCHANGED usr
  /\ \/ UNCHANGED row
     \/ dmn[d].st = "serving" /\ row.rec = d /\ row' = [row EXCEPT !.exited = TRUE, !.sock = FALSE]

----------------------------------------------------------------------------
(* The name is new, or has a daemon: one that serves, or one just started *)
(* by an up that was interrupted. *)
LaunchInit ==
  /\ \E was \in {"none", "born", "serving"} :
       /\ dmn = [d \in Daemons |-> IF d = 1 THEN [Unborn EXCEPT !.st = was, !.told = (was = "serving")]
                                   ELSE Unborn]
       /\ row = IF was = "serving" THEN [rec |-> 1, sock |-> TRUE, started |-> TRUE, exited |-> FALSE]
                ELSE NoRow
  /\ elock = Free /\ clock = Free /\ pin = 0
  /\ \E ops \in [Users -> UserCommands] :
       \E imgs \in [Users -> Images] :
         /\ \A u \in Users : ops[u] # "run" => imgs[u] = "unbound"
         /\ usr = [u \in Users |-> Idle(ops[u], imgs[u])]

Looks(u) == RunLooks(u) \/ AttachLooks(u) \/ RestartLooks(u) \/ ManifestLooks(u)
Waits(u) == WaitsForSocket(u) \/ SeesPublication(u) \/ SeesAnother(u) \/ SeesEarlyExit(u)
UserStep(u) ==
  \/ Looks(u) \/ RestartStops(u) \/ OwnerLossWaits(u) \/ UpLists(u)
  \/ ManifestRemoves(u) \/ UpChooses(u)
  \/ TakesEvents(u) \/ TakesCreation(u) \/ Checks(u) \/ Starts(u)
  \/ Waits(u) \/ PublicationTimeout(u) \/ Releases(u)
DaemonStep(d) ==
  Prepares(d) \/ ClearsAndBinds(d) \/ WritesRecord(d) \/ StartsChild(d) \/ Notifies(d)

LaunchNext ==
  \/ \E u \in Users : UserStep(u)
  \/ \E d \in Daemons : DaemonStep(d) \/ Ends(d)

LaunchSpec == LaunchInit /\ [][LaunchNext]_lvars

(* Every command goes on, every daemon publishes, SIGTERM is obeyed. *)
LaunchFairness ==
  /\ \A u \in Users : WF_lvars(UserStep(u))
  /\ \A d \in Daemons : WF_lvars(DaemonStep(d)) /\ WF_lvars(dmn[d].term /\ Ends(d))

----------------------------------------------------------------------------
(* However the commands interleave, two daemons that nobody has told to *)
(* stop never serve the name at once: the locks, the second look under *)
(* them and the daemon's own look at the name leave one. *)
OneDaemonServes ==
  \A d, e \in Daemons :
    (\A x \in {d, e} : dmn[x].st \in {"recorded", "serving"} /\ ~dmn[x].term) => d = e

(* A daemon that serves and was not told to stop keeps its record: no run, *)
(* attach, restart, up or down that looked earlier removes or replaces it. *)
LiveDaemonKeepsRecord ==
  \A d \in Daemons :
    row.rec = d /\ dmn[d].st = "serving" /\ ~dmn[d].term /\ dmn'[d].st = "serving" =>
      row'.rec = d

LaunchGivenUp == \E u \in Users : usr[u].result = "timeout"
NoFailedDaemon ==
  \A u \in Users : usr[u].result = "timeout" => usr[u].d # 0 /\ dmn[usr[u].d].st = "dead"

(* A launch that gave up on its daemon does not leave it behind: the *)
(* daemon ends, also when it publishes just then. *)
FailedLaunchEnds == LaunchGivenUp ~> NoFailedDaemon

(* "Clean up an exited bound session so its slot can be reused": up goes *)
(* on to start the session whose row it has cleaned up. *)
UpReusesSlot ==
  \A u \in Users : usr[u].op = "up" /\ usr[u].result = "taken" => row.rec # 0
=============================================================================
