-------------------------- MODULE LaunchOperation --------------------------
(***************************************************************************)
(* One launch operation from its reservation to its end, across the        *)
(* processes that take part: the launchers (pty/src/cli/run_operation.rs), *)
(* the daemon as the record's producer (pty/src/daemon/operation.rs), the  *)
(* held child (pty/src/daemon/held.rs), `pty operation retire` and `pty    *)
(* operation settle` (pty-core/src/operation/settle.rs), and another       *)
(* session competing for the same name.                                    *)
(*                                                                         *)
(* Every process may die between any two of its steps, and any write of    *)
(* the record may be refused before it lands ("lost") or after             *)
(* ("landed": the rename is done and the directory's fsync fails).         *)
(*                                                                         *)
(* The daemon is modelled at the granularity of its record writes and      *)
(* effects.  Its threads, tickets and queues are in OperationActor.        *)
(***************************************************************************)
EXTENDS Naturals, FiniteSets, TLC

CONSTANTS
  Launchers,   \* the launcher processes that may be started for the operation
  Requests,    \* the request ids `pty operation retire` is called with
  Expected,    \* the envelope names the ended predecessor as expected
  InitialRows, \* what the registry may hold for the name at the start
  MaxCrashes,  \* bound: process deaths
  MaxFaults,   \* bound: record writes that report failure
  MaxRetires   \* bound: invocations of `pty operation retire`

----------------------------------------------------------------------------
(* The durable record (pty-core/src/operation/record.rs) and the *)
(* transitions its writers make.  Timestamps, the envelope and evidence *)
(* are left out.  A process identity is the process itself: the launcher *)
(* that claimed, "the daemon", "the child".  The three causes an owner can *)
(* give (cancel, end of file, malformed input) are "owner"; the two *)
(* occupancy causes are "occupied". *)

States == {"reserved", "pending", "cancelled", "launched", "transferred"}

Phases == {"reserved", "claimed", "daemon-forking", "daemon-gated",
           "child-forking", "child-preparing", "held"}

WriterRoles == {"none", "launcher", "producer", "recovery"}

Causes == {"none", "owner", "occupied", "refused", "withdrawn",
           "producer-lost", "launch"}

RetirementPhases == {"none", "requested", "verified", "incomplete"}

(* "none" before the commit; then `released` is null ("unknown"), true or false. *)
Transfers == {"none", "unknown", "released", "unreleased"}

NoLauncher == "no-launcher"
NoRequest  == "no-request"
ActorRequest == "actor"   \* a retirement the daemon's actor requested

Records ==
  [state      : States,
   phase      : Phases,
   writer     : WriterRoles,
   cause      : Causes,
   launcher   : Launchers \cup {NoLauncher},
   producer   : BOOLEAN,     \* participants.producer is recorded
   child      : BOOLEAN,     \* participants.child is recorded
   incarnation: BOOLEAN,
   retirement : RetirementPhases,
   request    : Requests \cup {NoRequest, ActorRequest},
   transfer   : Transfers]

----------------------------------------------------------------------------
(* OperationRecord::check, the invariants every write must keep. *)

(* Mutant: only the producer may have a retirement requested. *)
CheckWriterProducerOnly(r) ==
  /\ r.retirement = "requested" => r.writer = "producer"
  /\ r.retirement \in {"verified", "incomplete"} => r.writer = "none"

CheckWriter(r) ==
  /\ r.writer = "recovery" => r.retirement = "requested"
  /\ r.writer = "none" => r.retirement # "requested"
  /\ r.retirement \in {"verified", "incomplete"} => r.writer = "none"

CheckState(r) ==
  LET terminal == r.retirement \in {"verified", "incomplete"} IN
  \/ /\ r.state = "reserved"
     /\ r.phase = "reserved"
     /\ r.cause = "none" /\ ~r.incarnation /\ r.transfer = "none"
     /\ r.launcher = NoLauncher /\ ~r.producer /\ ~r.child
     /\ r.writer \in {"none", "recovery"}
     /\ ~terminal
  \/ /\ r.state = "pending"
     /\ r.phase \in {"claimed", "daemon-forking", "daemon-gated"}
     /\ r.cause = "none" /\ ~r.incarnation /\ r.transfer = "none"
     /\ r.launcher # NoLauncher
     /\ r.writer # "none"
     /\ ~terminal
  \/ /\ r.state = "cancelled"
     /\ r.cause \notin {"none", "launch"}
     /\ ~r.incarnation /\ r.transfer = "none"
     /\ r.writer = "none"
     /\ r.retirement # "requested"
  \/ /\ r.state = "launched"
     /\ r.cause = "launch" /\ r.incarnation /\ r.transfer = "none"
     /\ r.phase \in {"daemon-gated", "child-forking", "child-preparing", "held"}
     /\ r.writer # "none" \/ terminal
     /\ r.writer # "launcher"
  \/ /\ r.state = "transferred"
     /\ r.cause = "launch" /\ r.incarnation /\ r.transfer # "none"
     /\ r.phase = "held"
     /\ r.retirement = "none"
     /\ r.writer \in {"producer", "none"}

Check(r) == CheckWriter(r) /\ CheckState(r)

----------------------------------------------------------------------------
(* The records the writers move to. *)

Reserved ==
  [state |-> "reserved", phase |-> "reserved", writer |-> "none",
   cause |-> "none", launcher |-> NoLauncher, producer |-> FALSE,
   child |-> FALSE, incarnation |-> FALSE, retirement |-> "none",
   request |-> NoRequest, transfer |-> "none"]

Claimed(r, l) ==
  [r EXCEPT !.state = "pending", !.phase = "claimed",
            !.writer = "launcher", !.launcher = l]

DaemonForking(r) == [r EXCEPT !.phase = "daemon-forking"]

DaemonGated(r) ==
  [r EXCEPT !.phase = "daemon-gated", !.writer = "producer", !.producer = TRUE]

Cancelled(r, cause) ==
  [r EXCEPT !.state = "cancelled", !.writer = "none", !.cause = cause]

Launched(r) ==
  [r EXCEPT !.state = "launched", !.cause = "launch", !.incarnation = TRUE]

ChildForking(r) == [r EXCEPT !.phase = "child-forking"]

ChildPreparing(r) == [r EXCEPT !.phase = "child-preparing", !.child = TRUE]

Held(r) == [r EXCEPT !.phase = "held"]

Committed(r) == [r EXCEPT !.state = "transferred", !.transfer = "unknown"]

Released(r, written) ==
  [r EXCEPT !.writer = "none", !.transfer = IF written THEN "released" ELSE "unreleased"]

(* The actor keeps its writer role when it requests a retirement; recovery *)
(* takes the role. *)
RetirementRequested(r, role, request) ==
  [r EXCEPT !.writer = role, !.retirement = "requested", !.request = request]

Retired(r, ok) ==
  [r EXCEPT !.writer = "none",
            !.retirement = IF ok THEN "verified" ELSE "incomplete"]

(* Recovery's terminal record: a launch that was never decided is *)
(* cancelled, a launched one is retired. *)
RecoveryTerminal(r, ok) ==
  CASE r.state = "reserved" -> Retired(Cancelled(r, "withdrawn"), TRUE)
    [] r.state = "pending"  -> Retired(Cancelled(r, "producer-lost"), TRUE)
    [] OTHER                -> Retired(r, ok)

(* settle's durable_end: the operation can never launch, or its retirement *)
(* was verified. *)
DurableEnd(r) ==
  \/ r.state = "cancelled" /\ r.cause # "launch"
  \/ r.state = "launched" /\ r.retirement = "verified"

----------------------------------------------------------------------------
(* The processes around it. *)

Rows == {"absent", "predecessor", "mine", "other"}

ASSUME OperationAssumption ==
  /\ IsFiniteSet(Launchers)
  /\ {"free", "daemon", "other", NoLauncher} \cap Launchers = {}
  /\ {"free", "daemon", NoRequest, ActorRequest} \cap Requests = {}
  /\ Launchers \cap Requests = {}
  /\ Expected \in BOOLEAN
  /\ InitialRows \subseteq {"absent", "predecessor", "other"}
  /\ MaxCrashes \in Nat /\ MaxFaults \in Nat /\ MaxRetires \in Nat

VARIABLES
  rec,       \* <root>/operations/<h>.json
  oplock,    \* the process with the exclusive operation lock, or "free"
  faults,    \* record writes that reported failure so far
  launcher,  \* launcher[l]: where launcher l is
  lrec,      \* lrec[l]: the record as launcher l last knew it
  creation,  \* the owner named in the session's creation lock, or "free"
  row,       \* the session's row in the registry
  daemon,    \* the daemon process
  stage,     \* where its actor is
  effect,    \* the ticketed effect under way
  retiring,  \* how far a retirement by the actor is
  published, \* publication was committed: retirement must unwind it
  verified,  \* what the retirement verified so far
  drec,      \* the actor's copy of the record
  child,     \* the held child's process
  recorded,  \* the actor has the child (Completed(Forked) was handled)
  gate,      \* the child's gate
  acked,     \* the child's acknowledgement was written
  execs,     \* how many times the operation's command was started
  rpc, rreq, rrec, rok, \* recovery: step, request id, record, verified
  retires,   \* invocations of retire so far
  spc, srec, sok,       \* settle: step, record read, all evidence verified
  closed,    \* settle has answered noFurtherEffects
  withdrawn, \* the owner cancelled, closed its end, or sent malformed input
  crashes    \* process deaths so far

storeVars    == <<rec, oplock, faults>>
launchVars   == <<launcher, lrec>>
sessionVars  == <<creation, row>>
actorVars    == <<stage, effect, retiring, published, verified, drec,
                  recorded>>
childVars    == <<child, gate, acked, execs>>
recoveryVars == <<rpc, rreq, rrec, rok, retires>>
settleVars   == <<spc, srec, sok, closed>>
envVars      == <<withdrawn, crashes>>

vars == <<storeVars, launchVars, sessionVars, daemon, actorVars, childVars,
          recoveryVars, settleVars, envVars>>

LauncherStates == {"start", "locked", "claimed", "checked", "forking",
                   "spawned", "gated", "handed", "waiting", "done", "dead"}
DaemonStates == {"none", "gated", "opened", "running", "dead"}
Stages == {"deciding", "starting", "held", "releasing", "finishing",
           "serving", "ending"}
Effects == {"none", "publish-issued", "publish", "publish-done",
            "fork-issued", "fork", "fork-done"}

----------------------------------------------------------------------------
(* Liveness of a recorded process. *)

LauncherLives(l) == launcher[l] \notin {"start", "done", "dead"}
DaemonLives == daemon \in {"gated", "opened", "running"}
ChildLives == child \in {"preparing", "held", "running"}

(* The exclusive operation lock can be taken: no writer, and no settle *)
(* holding the shared lock. *)
LockFree == oplock = "free" /\ spc = "idle"

(* The creation lock is free, or a contender can steal it from a dead *)
(* owner. *)
CreationOpen ==
  \/ creation = "free"
  \/ creation \in Launchers /\ ~LauncherLives(creation)
  \/ creation = "daemon" /\ ~DaemonLives

(* OperationStore::write_cas_as: refused unless the record on disk is the *)
(* expected one and the next one passes check(); a fault reports failure *)
(* either before or after the rename. *)
WriteOutcomes == {"ok"} \cup IF faults < MaxFaults THEN {"lost", "landed"}
                                                   ELSE {}

Admissible(expected, next) == rec = expected /\ Check(next)

WriteCas(expected, next, out) ==
  /\ out \in WriteOutcomes
  /\ rec' = IF Admissible(expected, next) /\ out # "lost" THEN next ELSE rec
  /\ faults' = IF out = "ok" THEN faults ELSE faults + 1

Written(expected, next, out) == out = "ok" /\ Admissible(expected, next)

(* observe_occupancy and occupancy_rule: a live row, or an ended one that *)
(* is not the expected predecessor, refuses the launch. *)
Occupied == row = "other" \/ row = "mine" \/ (row = "predecessor" /\ ~Expected)

Init ==
  /\ rec = Reserved /\ oplock = "free" /\ faults = 0
  /\ launcher = [l \in Launchers |-> "start"]
  /\ lrec = [l \in Launchers |-> Reserved]
  /\ creation = "free" /\ row \in InitialRows
  /\ daemon = "none"
  /\ stage = "deciding" /\ effect = "none" /\ retiring = "no"
  /\ published = FALSE /\ verified = TRUE /\ drec = Reserved /\ recorded = FALSE
  /\ child = "none" /\ gate = "open" /\ acked = FALSE /\ execs = 0
  /\ rpc = "idle" /\ rreq = NoRequest /\ rrec = Reserved /\ rok = TRUE
  /\ retires = 0
  /\ spc = "idle" /\ srec = Reserved /\ sok = FALSE /\ closed = FALSE
  /\ withdrawn = FALSE /\ crashes = 0

----------------------------------------------------------------------------
(* The launcher. *)

LauncherAt(l, from, to) ==
  /\ launcher[l] = from
  /\ launcher' = [launcher EXCEPT ![l] = to]

(* It returns: its lock guards and its gate's write end are dropped. *)
LauncherReturns(l) ==
  /\ launcher' = [launcher EXCEPT ![l] = "done"]
  /\ oplock' = IF oplock = l THEN "free" ELSE oplock
  /\ creation' = IF creation = l THEN "free" ELSE creation

LauncherOnly == UNCHANGED <<row, actorVars, childVars, recoveryVars,
                            settleVars, envVars>>

(* The session's event and creation locks, or `session-busy`. *)
TakeSessionLocks(l) ==
  /\ launcher[l] = "start"
  /\ \/ /\ CreationOpen
        /\ creation' = l
        /\ launcher' = [launcher EXCEPT ![l] = "locked"]
     \/ /\ ~CreationOpen
        /\ launcher' = [launcher EXCEPT ![l] = "done"]
        /\ UNCHANGED creation
  /\ UNCHANGED <<storeVars, lrec, daemon>>
  /\ LauncherOnly

(* Claim the reservation: only `reserved` with no writer. *)
Claimable == rec.state = "reserved" /\ rec.writer = "none"

Claim(l) ==
  /\ launcher[l] = "locked" /\ LockFree /\ Claimable
  /\ \E out \in WriteOutcomes :
       /\ WriteCas(rec, Claimed(rec, l), out)
       /\ IF Written(rec, Claimed(rec, l), out)
            THEN /\ LauncherAt(l, "locked", "claimed")
                 /\ oplock' = l
                 /\ lrec' = [lrec EXCEPT ![l] = Claimed(rec, l)]
                 /\ UNCHANGED creation
            ELSE LauncherReturns(l) /\ UNCHANGED lrec
  /\ UNCHANGED daemon
  /\ LauncherOnly

(* `not-claimable`: a writer has the lock, or the record moved on. *)
ClaimRefused(l) ==
  /\ launcher[l] = "locked"
  /\ ~LockFree \/ ~Claimable
  /\ LauncherReturns(l)
  /\ UNCHANGED <<rec, faults, lrec, daemon>>
  /\ LauncherOnly

(* The launcher's `decide`: record why nothing launched, and return. *)
LauncherDecides(l, cause) ==
  /\ \E out \in WriteOutcomes :
       WriteCas(lrec[l], Cancelled(lrec[l], cause), out)
  /\ LauncherReturns(l)
  /\ UNCHANGED lrec
  /\ LauncherOnly

(* peek_withdrawal, then the occupancy rule, under the creation lock. *)
CheckLaunch(l) ==
  /\ launcher[l] = "claimed"
  /\ UNCHANGED daemon
  /\ IF withdrawn THEN LauncherDecides(l, "owner")
     ELSE IF Occupied THEN LauncherDecides(l, "occupied")
     ELSE /\ LauncherAt(l, "claimed", "checked")
          /\ UNCHANGED <<storeVars, lrec, creation>>
          /\ LauncherOnly

RecordForking(l) ==
  /\ launcher[l] = "checked"
  /\ \E out \in WriteOutcomes :
       LET next == DaemonForking(lrec[l]) IN
       /\ WriteCas(lrec[l], next, out)
       /\ IF Written(lrec[l], next, out)
            THEN /\ LauncherAt(l, "checked", "forking")
                 /\ lrec' = [lrec EXCEPT ![l] = next]
                 /\ UNCHANGED <<oplock, creation>>
            ELSE LauncherReturns(l) /\ UNCHANGED lrec
  /\ UNCHANGED daemon
  /\ LauncherOnly

SpawnGatedDaemon(l) ==
  /\ LauncherAt(l, "forking", "spawned")
  /\ daemon' = "gated"
  /\ UNCHANGED <<storeVars, lrec, creation>>
  /\ LauncherOnly

(* The daemon could not be started, or its identity could not be read: it *)
(* is abandoned at its gate and waited for before the refusal is recorded. *)
LaunchRefused(l) ==
  /\ launcher[l] \in {"forking", "spawned"}
  /\ daemon' = IF launcher[l] = "spawned" THEN "dead" ELSE daemon
  /\ LauncherDecides(l, "refused")

RecordDaemon(l) ==
  /\ launcher[l] = "spawned"
  /\ \E out \in WriteOutcomes :
       LET next == DaemonGated(lrec[l]) IN
       /\ WriteCas(lrec[l], next, out)
       /\ IF Written(lrec[l], next, out)
            THEN /\ LauncherAt(l, "spawned", "gated")
                 /\ lrec' = [lrec EXCEPT ![l] = next]
                 /\ UNCHANGED <<oplock, creation>>
            ELSE LauncherReturns(l) /\ UNCHANGED lrec
  /\ UNCHANGED daemon
  /\ LauncherOnly

(* Mutant: the creation lock's old owner is erased, the new one not written.*)
HandOverTruncates(l) ==
  /\ LauncherAt(l, "gated", "handed")
  /\ creation' = "none"
  /\ oplock' = "free"
  /\ UNCHANGED <<rec, faults, lrec, daemon>>
  /\ LauncherOnly

(* LockGuard::hand_over of the creation lock, then the operation lock is *)
(* dropped; if it fails the launcher returns without opening the gate. *)
HandOver(l) ==
  /\ launcher[l] = "gated"
  /\ \/ /\ launcher' = [launcher EXCEPT ![l] = "handed"]
        /\ creation' = "daemon"
        /\ oplock' = "free"
     \/ LauncherReturns(l)
  /\ UNCHANGED <<rec, faults, lrec, daemon>>
  /\ LauncherOnly

(* GatedDaemon::release: the gate byte, then the wait for readiness. *)
OpenGate(l) ==
  /\ LauncherAt(l, "handed", "waiting")
  /\ daemon' = IF daemon = "gated" THEN "opened" ELSE daemon
  /\ UNCHANGED <<storeVars, lrec, creation>>
  /\ LauncherOnly

LauncherEnds(l) ==
  /\ launcher[l] = "waiting"
  /\ LauncherReturns(l)
  /\ UNCHANGED <<rec, faults, lrec, daemon>>
  /\ LauncherOnly

LauncherStep(l) ==
  \/ TakeSessionLocks(l) \/ Claim(l) \/ ClaimRefused(l) \/ CheckLaunch(l)
  \/ RecordForking(l) \/ SpawnGatedDaemon(l) \/ LaunchRefused(l)
  \/ RecordDaemon(l) \/ HandOver(l) \/ OpenGate(l) \/ LauncherEnds(l)

----------------------------------------------------------------------------
(* The daemon. *)

DaemonOnly == UNCHANGED <<launchVars, recoveryVars, settleVars, envVars>>

(* Mutant: the child's gate survives the daemon. *)
DaemonEndsGateOpen ==
  /\ daemon' = "dead"
  /\ oplock' = IF oplock = "daemon" THEN "free" ELSE oplock
  /\ UNCHANGED gate

(* The process ends: the kernel drops its operation lock, and a child *)
(* still at its gate reads end of file.  A creation lock that names it *)
(* stays behind, stale. *)
DaemonEnds ==
  /\ daemon' = "dead"
  /\ oplock' = IF oplock = "daemon" THEN "free" ELSE oplock
  /\ gate' = IF gate = "open" THEN "shut" ELSE gate

(* Mutant: the actor abandons without dropping the operation lock. *)
AbandonKeepsLock ==
  /\ stage' = "ending"
  /\ UNCHANGED oplock

(* Actor::abandon, after a record write that reported failure: no further *)
(* effect, the lock is dropped, the worker or the serving loop is stopped. *)
Abandon ==
  /\ stage' = "ending"
  /\ oplock' = "free"

ReleaseCreation ==
  creation' = IF creation = "daemon" THEN "free" ELSE creation

(* End of file on the gate: the launcher is gone, or returned, without *)
(* opening it. *)
GateClosed ==
  /\ daemon = "gated"
  /\ \A l \in Launchers : launcher[l] \notin {"spawned", "gated", "handed"}
  /\ DaemonEnds
  /\ UNCHANGED <<rec, faults, sessionVars, actorVars, child, acked, execs>>
  /\ DaemonOnly

(* The lock, then the record must name this daemon as its producer. *)
DaemonStarts ==
  /\ daemon = "opened" /\ LockFree
  /\ rec.state = "pending" /\ rec.phase = "daemon-gated"
  /\ rec.writer = "producer"
  /\ daemon' = "running"
  /\ oplock' = "daemon"
  /\ drec' = rec
  /\ UNCHANGED <<rec, faults, sessionVars, stage, effect, retiring, published, verified,
                 recorded, childVars>>
  /\ DaemonOnly

(* Its config, the lock or the record was not as it should be. *)
DaemonRefuses ==
  /\ daemon = "opened"
  /\ DaemonEnds
  /\ UNCHANGED <<rec, faults, sessionVars, actorVars, child, acked, execs>>
  /\ DaemonOnly

Acting(s) == daemon = "running" /\ stage \in s

(* Actor::cancel_before_launch. *)
CancelBeforeLaunch(cause) ==
  LET next == Cancelled(drec, cause) IN
  /\ \E out \in WriteOutcomes :
       /\ WriteCas(drec, next, out)
       /\ IF Written(drec, next, out)
            THEN drec' = next /\ ReleaseCreation
            ELSE UNCHANGED <<drec, creation>>
  /\ Abandon      \* `finish` and `abandon` end the actor alike
  /\ UNCHANGED <<row, daemon, effect, retiring, published, verified, recorded, childVars>>
  /\ DaemonOnly

(* Actor::decide, once everything the owner queued was read: a withdrawal *)
(* wins; then the creation lock must name this daemon and the occupancy *)
(* rule must hold. *)
Decide ==
  /\ Acting({"deciding"})
  /\ IF withdrawn THEN CancelBeforeLaunch("owner")
     ELSE IF creation # "daemon" THEN CancelBeforeLaunch("refused")
     ELSE IF Occupied THEN CancelBeforeLaunch("occupied")
     ELSE LET next == Launched(drec) IN
          /\ \E out \in WriteOutcomes :
               /\ WriteCas(drec, next, out)
               /\ IF Written(drec, next, out)
                    THEN /\ drec' = next
                         /\ stage' = "starting"
                         /\ effect' = "publish-issued"
                         /\ UNCHANGED oplock
                    ELSE Abandon /\ UNCHANGED <<drec, effect>>
          /\ UNCHANGED <<sessionVars, daemon, retiring, published, verified, recorded,
                         childVars>>
          /\ DaemonOnly

(* SIGTERM or SIGINT before the decision. *)
KilledBeforeDecision ==
  /\ Acting({"deciding"})
  /\ CancelBeforeLaunch("refused")

(* The worker's ticket is committed unless a retirement was requested. *)
CommitTicket ==
  /\ Acting({"starting"})
  /\ retiring = "no"
  /\ \/ effect = "publish-issued" /\ effect' = "publish" /\ published' = TRUE
     \/ effect = "fork-issued" /\ effect' = "fork" /\ UNCHANGED published
  /\ UNCHANGED <<storeVars, sessionVars, daemon, stage, retiring, verified,
                 drec, recorded, childVars>>
  /\ DaemonOnly

(* The committed publication: the exact ended predecessor is cleared and *)
(* the row is published.  It goes on even after the actor abandoned. *)
Publish ==
  /\ daemon = "running" /\ effect = "publish"
  /\ row # "other"
  /\ row' = "mine"
  /\ effect' = "publish-done"
  /\ UNCHANGED <<storeVars, creation, daemon, stage, retiring, published, verified, drec,
                 recorded, childVars>>
  /\ DaemonOnly

(* Publication completed: the creation lock is released, and unless the *)
(* operation is retiring the child's fork is recorded and ticketed. *)
Published ==
  /\ Acting({"starting"}) /\ effect = "publish-done"
  /\ ReleaseCreation
  /\ IF retiring # "no"
       THEN effect' = "none" /\ UNCHANGED <<storeVars, stage, drec>>
       ELSE LET next == ChildForking(drec) IN
            \E out \in WriteOutcomes :
              /\ WriteCas(drec, next, out)
              /\ IF Written(drec, next, out)
                   THEN /\ drec' = next
                        /\ effect' = "fork-issued"
                        /\ UNCHANGED <<oplock, stage>>
                   ELSE Abandon /\ effect' = "none" /\ UNCHANGED drec
  /\ UNCHANGED <<row, daemon, retiring, published, verified, recorded, childVars>>
  /\ DaemonOnly

(* The committed fork, after the generation was checked again under the *)
(* metadata lock. *)
ForkHeld ==
  /\ daemon = "running" /\ effect = "fork"
  /\ row = "mine"
  /\ child' = "preparing"
  /\ gate' = "open"
  /\ effect' = "fork-done"
  /\ UNCHANGED <<storeVars, sessionVars, daemon, stage, retiring, published, verified,
                 drec, recorded, acked, execs>>
  /\ DaemonOnly

(* The fork completed: the child is recorded unless the operation is *)
(* retiring, when the actor only keeps it to end it. *)
Forked ==
  /\ Acting({"starting"}) /\ effect = "fork-done"
  /\ recorded' = TRUE
  /\ IF retiring # "no"
       THEN effect' = "none" /\ UNCHANGED <<storeVars, stage, drec>>
       ELSE LET next == ChildPreparing(drec) IN
            \E out \in WriteOutcomes :
              /\ WriteCas(drec, next, out)
              /\ IF Written(drec, next, out)
                   THEN drec' = next /\ effect' = "none" /\ UNCHANGED <<oplock, stage>>
                   ELSE Abandon /\ UNCHANGED <<drec, effect>>
  /\ UNCHANGED <<sessionVars, daemon, retiring, published, verified, childVars>>
  /\ DaemonOnly

(* Actor::retire: the request is durable before any effect of it; issued *)
(* tickets are revoked, a committed one is left to finish. *)
RequestRetirement(completed) ==
  LET next == RetirementRequested(drec, "producer", ActorRequest) IN
  /\ \E out \in WriteOutcomes :
       /\ WriteCas(drec, next, out)
       /\ IF Written(drec, next, out)
            THEN drec' = next /\ retiring' = "requested" /\ UNCHANGED <<stage, oplock>>
            ELSE Abandon /\ UNCHANGED <<drec, retiring>>
  /\ effect' = IF completed \/ effect \in {"publish-issued", "fork-issued"}
                 THEN "none" ELSE effect
  /\ UNCHANGED <<creation, daemon, published, verified, gate, acked, execs>>
  /\ DaemonOnly

(* Mutant: a reason to retire is only heard once the child is held. *)
RetireOnceHeld ==
  /\ Acting({"held"})
  /\ retiring = "no"
  /\ RequestRetirement(FALSE)
  /\ UNCHANGED <<row, recorded, child>>

(* A cancel, the owner's end of file, a kill, a child that exited or could *)
(* not prepare: any of them retires a launched operation. *)
Retire ==
  /\ Acting({"starting", "held"})
  /\ retiring = "no"
  /\ RequestRetirement(FALSE)
  /\ UNCHANGED <<row, recorded, child>>

(* The fork completed but the child is already gone: there is no identity *)
(* to record. *)
ForkedGone ==
  /\ Acting({"starting"}) /\ effect = "fork-done"
  /\ retiring = "no" /\ child = "gone"
  /\ recorded' = TRUE
  /\ RequestRetirement(TRUE)
  /\ UNCHANGED <<row, child>>

(* Startup failed: preparing, publishing (which may leave its row behind) *)
(* or forking (a child nothing can own is killed and reaped).  While *)
(* retiring it only completes the ticket; after the actor abandoned nobody *)
(* hears of it. *)
EffectFails ==
  /\ Acting({"starting", "ending"})
  /\ effect \in {"publish-issued", "publish", "fork-issued", "fork"}
  /\ row' \in IF effect = "publish" /\ row # "other" THEN {row, "mine"} ELSE {row}
  /\ child' \in IF effect = "fork" /\ row = "mine" THEN {child, "gone"} ELSE {child}
  /\ UNCHANGED recorded
  /\ IF stage = "starting" /\ retiring = "no"
       THEN RequestRetirement(TRUE)
       ELSE /\ effect' = "none"
            /\ UNCHANGED <<storeVars, creation, daemon, stage, retiring, published,
                           verified, drec, gate, acked, execs>>
            /\ DaemonOnly

----------------------------------------------------------------------------
(* Actor::complete_retirement, once no committed ticket is in flight. *)

(* Mutant: only the fork counts as an effect in flight. *)
InFlightForkOnly == effect \in {"fork", "fork-done"}

InFlight == effect \in {"publish", "publish-done", "fork", "fork-done"}

(* The gate is shut and the child must be seen gone; one that cannot be *)
(* proved gone makes the retirement incomplete. *)
EndChild ==
  /\ Acting({"starting", "held"})
  /\ retiring = "requested" /\ ~InFlight
  /\ retiring' = "child-ended"
  /\ IF recorded
       THEN /\ gate' = "shut"
            /\ \/ child' = "gone" /\ UNCHANGED verified
               \/ child' = child /\ verified' = FALSE
       ELSE UNCHANGED <<child, gate, verified>>
  /\ UNCHANGED <<storeVars, sessionVars, daemon, stage, effect, published, drec, recorded,
                 acked, execs>>
  /\ DaemonOnly

(* The creation lock is released; unwind_publication then removes only *)
(* this generation's row, under both session locks.  Locks that stay busy *)
(* leave the retirement incomplete. *)
Unwind ==
  /\ Acting({"starting", "held"})
  /\ retiring = "child-ended"
  /\ retiring' = "unwound"
  /\ ReleaseCreation
  /\ \/ ~published /\ UNCHANGED <<row, verified>>
     \/ /\ published
        /\ creation = "daemon" \/ CreationOpen
        /\ row' = IF row = "mine" THEN "absent" ELSE row
        /\ UNCHANGED verified
     \/ published /\ verified' = FALSE /\ UNCHANGED row
  /\ UNCHANGED <<storeVars, daemon, stage, effect, published, drec, recorded,
                 childVars>>
  /\ DaemonOnly

CompleteRetirement ==
  /\ Acting({"starting", "held"})
  /\ retiring = "unwound"
  /\ LET next == Retired(drec, verified) IN
     \E out \in WriteOutcomes :
       /\ WriteCas(drec, next, out)
       /\ drec' = IF Written(drec, next, out) THEN next ELSE drec
  /\ Abandon
  /\ UNCHANGED <<sessionVars, daemon, effect, retiring, published, verified, recorded,
                 childVars>>
  /\ DaemonOnly

----------------------------------------------------------------------------
(* The child acknowledged, and the transfer. *)

HoldChild ==
  /\ Acting({"starting"})
  /\ retiring = "no" /\ recorded /\ acked
  /\ LET next == Held(drec) IN
     \E out \in WriteOutcomes :
       /\ WriteCas(drec, next, out)
       /\ IF Written(drec, next, out)
            THEN drec' = next /\ stage' = "held" /\ UNCHANGED oplock
            ELSE Abandon /\ UNCHANGED drec
  /\ UNCHANGED <<sessionVars, daemon, effect, retiring, published, verified, recorded,
                 childVars>>
  /\ DaemonOnly

(* Mutant: the transfer goes on whether or not its commit was written. *)
CommitTransferRegardless ==
  /\ Acting({"held"})
  /\ retiring = "no"
  /\ \E out \in WriteOutcomes : WriteCas(drec, Committed(drec), out)
  /\ drec' = Committed(drec) /\ stage' = "releasing"
  /\ UNCHANGED <<oplock, sessionVars, daemon, effect, retiring, published, verified,
                 recorded, childVars>>
  /\ DaemonOnly

CommitTransfer ==
  /\ Acting({"held"})
  /\ retiring = "no"
  /\ LET next == Committed(drec) IN
     \E out \in WriteOutcomes :
       /\ WriteCas(drec, next, out)
       /\ IF Written(drec, next, out)
            THEN drec' = next /\ stage' = "releasing" /\ UNCHANGED oplock
            ELSE Abandon /\ UNCHANGED drec
  /\ UNCHANGED <<sessionVars, daemon, effect, retiring, published, verified, recorded,
                 childVars>>
  /\ DaemonOnly

(* The release byte; it cannot be written to a child that is gone. *)
ReleaseTransfer ==
  /\ Acting({"releasing"})
  /\ gate' = IF ChildLives THEN "released" ELSE "shut"
  /\ stage' = "finishing"
  /\ UNCHANGED <<storeVars, sessionVars, daemon, effect, retiring, published, verified,
                 drec, recorded, child, acked, execs>>
  /\ DaemonOnly

(* The last write gives the writer role up; the commit stands either way. *)
FinishTransfer ==
  /\ Acting({"finishing"})
  /\ LET next == Released(drec, gate = "released") IN
     \E out \in WriteOutcomes :
       /\ WriteCas(drec, next, out)
       /\ drec' = IF Written(drec, next, out) THEN next ELSE drec
  /\ oplock' = "free"
  /\ stage' = "serving"
  /\ UNCHANGED <<sessionVars, daemon, effect, retiring, published, verified, recorded,
                 childVars>>
  /\ DaemonOnly

(* The worker stops once a committed effect is done and it no longer waits *)
(* for the child's acknowledgement; a serving daemon ends with its session. *)
DaemonExits ==
  /\ Acting({"ending", "serving"})
  /\ effect \notin {"publish", "fork"}
  /\ ~(child = "preparing" /\ gate = "open")
  /\ DaemonEnds
  /\ child' = IF stage = "serving" /\ child # "none" THEN "gone" ELSE child
  /\ UNCHANGED <<rec, faults, sessionVars, actorVars, acked, execs>>
  /\ DaemonOnly

ActorStep ==
  \/ Decide \/ KilledBeforeDecision \/ CommitTicket \/ Published \/ Forked
  \/ ForkedGone \/ Retire \/ EffectFails \/ EndChild \/ Unwind \/ CompleteRetirement
  \/ HoldChild \/ CommitTransfer \/ ReleaseTransfer \/ FinishTransfer

DaemonStep ==
  \/ GateClosed \/ DaemonStarts \/ DaemonRefuses \/ ActorStep
  \/ Publish \/ ForkHeld \/ DaemonExits

----------------------------------------------------------------------------
(* The held child (held_child): it prepares, acknowledges and blocks on *)
(* its gate; only the release byte lets it exec. *)

ChildOnly == UNCHANGED <<storeVars, launchVars, sessionVars, daemon, actorVars,
                         gate, recoveryVars, settleVars, envVars>>

ChildPrepares ==
  /\ child = "preparing" /\ gate # "shut"
  /\ child' = "held" /\ acked' = TRUE
  /\ UNCHANGED execs
  /\ ChildOnly

ChildExecs ==
  /\ child = "held" /\ gate = "released"
  /\ child' = "running" /\ execs' = execs + 1
  /\ UNCHANGED acked
  /\ ChildOnly

(* End of file on the gate: it leaves without exec. *)
ChildLeaves ==
  /\ child \in {"preparing", "held"} /\ gate = "shut"
  /\ child' = "gone"
  /\ UNCHANGED <<acked, execs>>
  /\ ChildOnly

(* It fails to prepare, is killed by someone, or its command exits. *)
ChildDies ==
  /\ ChildLives
  /\ child' = "gone"
  /\ UNCHANGED <<acked, execs>>
  /\ ChildOnly

ChildStep == ChildPrepares \/ ChildExecs \/ ChildLeaves \/ ChildDies

----------------------------------------------------------------------------
(* `pty operation retire`. *)

RecoveryOnly == UNCHANGED <<launchVars, daemon, actorVars, settleVars, envVars>>

(* The writer, the launcher, the producer and the daemon a record names. *)
(* A recovery writer named by the record is gone: it would hold the lock. *)
ActorsGone(r) ==
  /\ r.launcher # NoLauncher => ~LauncherLives(r.launcher)
  /\ r.producer => ~DaemonLives

(* Mutant: a finished retirement does not answer another request. *)
RetirableAgain(r, q) ==
  /\ r.state \notin {"transferred", "cancelled"}
  /\ r.request # q

(* Nothing answers already: not transferred, not a decision or a finished *)
(* retirement, not this same request replayed. *)
Retirable(r, q) ==
  /\ r.state \notin {"transferred", "cancelled"}
  /\ r.retirement # "verified"
  /\ ~(r.retirement = "incomplete" /\ r.request = q)

(* Authority is taken and the request recorded before any effect. *)
TakeAuthority(q) ==
  LET next == RetirementRequested(rec, "recovery", q) IN
  /\ rpc = "idle" /\ LockFree /\ retires < MaxRetires
  /\ Retirable(rec, q) /\ ActorsGone(rec)
  /\ retires' = retires + 1
  /\ \E out \in WriteOutcomes :
       /\ WriteCas(rec, next, out)
       /\ IF Written(rec, next, out)
            THEN /\ oplock' = q /\ rpc' = "requested" /\ rreq' = q
                 /\ rrec' = next /\ rok' = TRUE
            ELSE UNCHANGED <<oplock, rpc, rreq, rrec, rok>>
  /\ UNCHANGED <<sessionVars, childVars>>
  /\ RecoveryOnly

(* kill_recorded: the recorded child, pinned; where it cannot be pinned *)
(* safely nothing is sent and the retirement stays incomplete. *)
KillRecorded ==
  /\ rpc = "requested" /\ rrec.state = "launched"
  /\ rpc' = "killed"
  /\ IF rrec.child /\ ChildLives
       THEN \/ child' = "gone" /\ UNCHANGED rok
            \/ rok' = FALSE /\ UNCHANGED child
       ELSE UNCHANGED <<child, rok>>
  /\ UNCHANGED <<storeVars, sessionVars, gate, acked, execs, rreq, rrec, retires>>
  /\ RecoveryOnly

(* Mutant: the row is removed by name, whoever's it is. *)
UnwindRowByName ==
  /\ rpc = "killed"
  /\ rpc' = "unwound"
  /\ CreationOpen
  /\ row' = "absent" /\ creation' = "free"
  /\ UNCHANGED <<storeVars, childVars, rreq, rrec, rok, retires>>
  /\ RecoveryOnly

(* unwind_row: only the recorded generation's row, under both locks. *)
UnwindRow ==
  /\ rpc = "killed"
  /\ rpc' = "unwound"
  /\ \/ /\ CreationOpen
        /\ row' = IF row = "mine" THEN "absent" ELSE row
        /\ creation' = "free"
        /\ UNCHANGED rok
     \/ rok' = FALSE /\ UNCHANGED sessionVars
  /\ UNCHANGED <<storeVars, childVars, rreq, rrec, retires>>
  /\ RecoveryOnly

FinishRecovery ==
  /\ \/ rpc = "requested" /\ rrec.state # "launched"
     \/ rpc = "unwound"
  /\ LET next == RecoveryTerminal(rrec, rok) IN
     \E out \in WriteOutcomes : WriteCas(rrec, next, out)
  /\ rpc' = "idle" /\ oplock' = "free"
  /\ UNCHANGED <<sessionVars, childVars, rreq, rrec, rok, retires>>
  /\ RecoveryOnly

RecoveryStep == (\E q \in Requests : TakeAuthority(q)) \/ KillRecorded
                  \/ UnwindRow \/ FinishRecovery

----------------------------------------------------------------------------
(* `pty operation settle`: one read of each source, in this order, under *)
(* the shared lock. *)

SettleOnly == UNCHANGED <<storeVars, launchVars, sessionVars, daemon,
                          actorVars, childVars, recoveryVars, envVars>>

SettleReadsRecord ==
  /\ LockFree
  /\ spc' = "table" /\ srec' = rec /\ sok' = TRUE
  /\ UNCHANGED closed
  /\ SettleOnly

(* The writer and participants components, from one process table.  A *)
(* recovery writer still named by the record is gone, as in ActorsGone. *)
SettleReadsTable ==
  /\ spc = "table"
  /\ spc' = "scan"
  /\ sok' = (sok /\ ActorsGone(srec) /\ (srec.child => ~ChildLives))
  /\ UNCHANGED <<srec, closed>>
  /\ SettleOnly

(* Mutant: only the recorded participants are looked for. *)
SettleSkipsArgv ==
  /\ spc = "scan"
  /\ spc' = "registry"
  /\ UNCHANGED <<sok, srec, closed>>
  /\ SettleOnly

(* The marker scan: every pty process of the operation carries the digest *)
(* in its argv, the child until it execs. *)
SettleScansArgv ==
  /\ spc = "scan"
  /\ spc' = "registry"
  /\ sok' = (sok /\ (\A l \in Launchers : ~LauncherLives(l)) /\ ~DaemonLives
                 /\ child \notin {"preparing", "held"})
  /\ UNCHANGED <<srec, closed>>
  /\ SettleOnly

(* Mutant: dead processes are taken for a durable end. *)
SettleIgnoresRecord ==
  /\ spc = "registry"
  /\ spc' = "idle"
  /\ closed' = (closed \/ (sok /\ row # "mine"))
  /\ srec' = Reserved /\ sok' = FALSE
  /\ SettleOnly

(* The registry component: a row that carries the digest must be ended. *)
SettleReadsRegistry ==
  /\ spc = "registry"
  /\ spc' = "idle"
  /\ LET registryVerified == ~(row = "mine" /\ DaemonLives) IN
     closed' = (closed \/ (DurableEnd(srec) /\ sok /\ registryVerified))
  /\ srec' = Reserved /\ sok' = FALSE
  /\ SettleOnly

SettleStep == SettleReadsRecord \/ SettleReadsTable \/ SettleScansArgv
                \/ SettleReadsRegistry

----------------------------------------------------------------------------
(* The rest of the world. *)

(* Another session takes the name, or `pty rm`/gc removes an ended row, *)
(* under the creation lock. *)
OtherSession ==
  /\ CreationOpen
  /\ row \in {"absent", "predecessor"} \/ (row = "mine" /\ ~DaemonLives)
  /\ row' \in {"absent", "other"}
  /\ creation' = "free"
  /\ UNCHANGED <<storeVars, launchVars, daemon, actorVars, childVars,
                 recoveryVars, settleVars, envVars>>

OwnerWithdraws ==
  /\ ~withdrawn
  /\ withdrawn' = TRUE
  /\ UNCHANGED <<storeVars, launchVars, sessionVars, daemon, actorVars,
                 childVars, recoveryVars, settleVars, crashes>>

LauncherDies(l) ==
  /\ LauncherLives(l)
  /\ launcher' = [launcher EXCEPT ![l] = "dead"]
  /\ oplock' = IF oplock = l THEN "free" ELSE oplock
  /\ UNCHANGED <<rec, faults, lrec, sessionVars, daemon, actorVars, childVars,
                 recoveryVars, settleVars, withdrawn>>

DaemonDies ==
  /\ DaemonLives
  /\ DaemonEnds
  /\ UNCHANGED <<rec, faults, launchVars, sessionVars, actorVars, child, acked, execs,
                 recoveryVars, settleVars, withdrawn>>

RecoveryDies ==
  /\ rpc # "idle"
  /\ rpc' = "idle" /\ oplock' = "free"
  /\ UNCHANGED <<rec, faults, launchVars, sessionVars, daemon, actorVars,
                 childVars, rreq, rrec, rok, retires, settleVars, withdrawn>>

Crash ==
  /\ crashes < MaxCrashes
  /\ crashes' = crashes + 1
  /\ (\E l \in Launchers : LauncherDies(l)) \/ DaemonDies \/ RecoveryDies

Next ==
  \/ \E l \in Launchers : LauncherStep(l)
  \/ DaemonStep
  \/ ChildStep
  \/ RecoveryStep
  \/ SettleStep
  \/ OtherSession
  \/ OwnerWithdraws
  \/ Crash

(* What the daemon does by itself.  A transfer waits for the owner, a *)
(* retirement for a reason (the owner's withdrawal is one, and its end of *)
(* file stays readable), and a serving daemon for its session to end. *)
DaemonProceeds ==
  \/ GateClosed \/ DaemonStarts \/ DaemonRefuses
  \/ Decide \/ CommitTicket \/ Publish \/ Published \/ ForkHeld \/ Forked
  \/ EffectFails \/ EndChild \/ Unwind \/ CompleteRetirement
  \/ HoldChild \/ ReleaseTransfer \/ FinishTransfer
  \/ (withdrawn /\ Retire)
  \/ (stage = "ending" /\ DaemonExits)

(* Processes run; the owner, a retire or settle, another session and a *)
(* death never have to happen. *)
Fairness ==
  /\ \A l \in Launchers : WF_vars(LauncherStep(l))
  /\ WF_vars(DaemonProceeds)
  /\ WF_vars(ChildPrepares) /\ WF_vars(ChildExecs) /\ WF_vars(ChildLeaves)

Safe == Init /\ [][Next]_vars
Spec == Safe /\ Fairness

----------------------------------------------------------------------------
(* Properties. *)

RecoverySteps == {"idle", "requested", "killed", "unwound"}

(* Every variable keeps its type. *)
TypeOK ==
  /\ rec \in Records /\ drec \in Records /\ rrec \in Records /\ srec \in Records
  /\ lrec \in [Launchers -> Records]
  /\ oplock \in Launchers \cup Requests \cup {"free", "daemon"}
  /\ launcher \in [Launchers -> LauncherStates]
  /\ creation \in Launchers \cup {"free", "daemon"}
  /\ row \in Rows
  /\ daemon \in DaemonStates /\ stage \in Stages /\ effect \in Effects
  /\ retiring \in {"no", "requested", "child-ended", "unwound"}
  /\ published \in BOOLEAN /\ verified \in BOOLEAN /\ recorded \in BOOLEAN
  /\ child \in {"none", "preparing", "held", "running", "gone"}
  /\ gate \in {"open", "shut", "released"} /\ acked \in BOOLEAN
  /\ execs \in Nat
  /\ rpc \in RecoverySteps /\ rreq \in Requests \cup {NoRequest}
  /\ rok \in BOOLEAN
  /\ spc \in {"idle", "table", "scan", "registry"}
  /\ sok \in BOOLEAN /\ closed \in BOOLEAN /\ withdrawn \in BOOLEAN
  /\ faults \in Nat /\ retires \in Nat /\ crashes \in Nat

(* The command runs only once the transfer is durable: whoever died, and *)
(* whichever write reported failure, a child past its gate means the *)
(* record says `transferred` (held.rs, Actor::commit_transfer). *)
CommandOnlyAfterTransfer ==
  child = "running" => rec.state = "transferred"

(* settle's noFurtherEffects is true when given and stays true: the record *)
(* is final, no process of the operation lives, the operation's child *)
(* included, recorded or not (settle.rs: one table, one argv scan, one *)
(* registry read under the shared lock). *)
ClosedIsTruthful ==
  closed => /\ DurableEnd(rec)
            /\ ~DaemonLives
            /\ ~ChildLives

(* Single writer: whoever holds the operation lock past its first read *)
(* knows exactly what is on disk, so its compare-and-swap is refused only *)
(* by a fault (OperationStore::write_cas_as, OperationLock). *)
WriterOwnsRecord ==
  /\ oplock = "daemon" => rec = drec
  /\ \A l \in Launchers : oplock = l => rec = lrec[l]
  /\ rpc # "idle" => rec = rrec

(* A verified retirement is the truth about the effects: nothing of the *)
(* operation is left in the registry, no committed effect is still under *)
(* way, and a child, if one was ever forked, is gone or stands before a *)
(* gate that will never open (Actor::complete_retirement, settle::retire). *)
VerifiedMeansUnwound ==
  rec.retirement = "verified" =>
    /\ row # "mine"
    /\ daemon = "running" => ~InFlight
    /\ ChildLives => gate = "shut"

(* No operation is ever stuck: once its processes are gone, `pty operation *)
(* retire` passes OperationRecord::check with its request and with each *)
(* terminal record it may then write. *)
AlwaysRetirable ==
  (rpc = "idle" /\ ActorsGone(rec)) =>
    \A q \in Requests : Retirable(rec, q) =>
      LET requested == RetirementRequested(rec, "recovery", q) IN
      /\ Check(requested)
      /\ \A ok \in BOOLEAN : Check(RecoveryTerminal(requested, ok))

(* Every ending an operation is given is true and reachable: a settlement *)
(* that closes it, a verified retirement, and the retirement of what died *)
(* half-way (settle.rs). *)
EndingsAreTruthful == ClosedIsTruthful /\ VerifiedMeansUnwound /\ AlwaysRetirable

(* A final record is never written again, and a committed transfer is *)
(* never taken back: no late writer, retry or recovery gets past it. *)
DecisionsAreFinal ==
  [][/\ DurableEnd(rec) => rec' = rec
     /\ rec.state = "transferred" => rec'.state = "transferred"]_vars

(* The operation never touches a session that is not its own: neither *)
(* publication nor either unwinding removes or replaces the row of another *)
(* session with the same name (unwind_publication, unwind_row). *)
ForeignRowsUntouched ==
  [][row = "other" => row' = "other"]_vars

(* A child whose daemon died does not wait for ever: it runs because it *)
(* was released before, or it leaves. *)
ChildNeverStranded ==
  (daemon = "dead") ~> (child \notin {"preparing", "held"})

WithdrawalSettled ==
  \/ rec.state \in {"cancelled", "transferred"}
  \/ rec.retirement \in {"verified", "incomplete"}
  \/ ~DaemonLives /\ \A l \in Launchers : ~LauncherLives(l)

(* An owner that withdraws (a cancel, its end of file, or its death) is *)
(* answered for good: the operation ends up decided against, transferred *)
(* before the withdrawal was read, retired, or with every process of it *)
(* gone and the record left to `retire` (OwnerInput::Eof in *)
(* Actor::on_owner, peek_withdrawal in the launcher). *)
WithdrawalIsHonoured == withdrawn ~> []WithdrawalSettled

----------------------------------------------------------------------------
(* The operation implements the contract its owner relies on. *)

Outcome ==
  CASE rec.state = "transferred" -> "transferred"
    [] rec.state = "cancelled" -> "never"
    [] rec.state = "launched" ->
         IF rec.retirement = "verified" THEN "retired" ELSE "launched"
    [] OTHER -> "undecided"

Contract == INSTANCE LaunchContract
              WITH outcome <- Outcome, runs <- execs, closed <- closed

(* What the owner is promised: one durable outcome, a command started only *)
(* after the transfer and at most once, a truthful settlement. *)
KeepsContract == Contract!Spec

(* For model checking: launchers are interchangeable, and so are the *)
(* requests of `pty operation retire`. *)
Symmetry == Permutations(Launchers) \cup Permutations(Requests)
============================================================================
