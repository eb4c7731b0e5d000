--------------------------- MODULE OperationActor ---------------------------
(***************************************************************************)
(* The threads of the daemon of one launch operation                      *)
(* (pty/src/daemon/operation.rs), from the open gate to the end of the    *)
(* process: the control I/O thread that reads the owner's frames, the     *)
(* actor that decides and owns the record, the startup worker whose       *)
(* effects wait for tickets, the signal thread, the bridge that reports   *)
(* the child's exit, and the serving loop (pty/src/daemon/lifecycle.rs).  *)
(* They talk through queues; each step below is what one thread does       *)
(* between two of its receives.                                            *)
(*                                                                         *)
(* The record is reduced to what the actor branches on.  Test barriers     *)
(* compile to nothing in a release build and are left out, so a transfer   *)
(* is committed, released and finished without another event being read.   *)
(***************************************************************************)
EXTENDS Naturals, Sequences, FiniteSets

CONSTANTS
  TransferIds,  \* request ids of the owner's transfer commands
  StaleIds,     \* the ones that name another incarnation
  MaxInputs,    \* bound: frames the owner sends before its end of file
  MaxKills,     \* bound: SIGTERM/SIGINT deliveries and listener failures
  MaxFaults     \* bound: record writes that report failure

None == "none"

ASSUME ActorAssumption ==
  /\ None \notin TransferIds /\ StaleIds \subseteq TransferIds
  /\ MaxInputs \in Nat /\ MaxKills \in Nat /\ MaxFaults \in Nat

VARIABLES
  socket, reading,       \* the owner's unread input; it is being read
  sent, asked,           \* inputs sent; how often each transfer was asked for
  syncCmd,               \* IoCmd::Sync is with the I/O thread
  frames, channel,       \* frames to the owner, in order; open or closed
  inbox,                 \* the actor's events
  stage, doing,          \* the actor's stage, and the step it is in
  rec, disk,             \* its copy of the record, and the record
  tickets, retiring, serving, published, hasChild,
  deferred, current,     \* transfer accepted while held; the one committing
  cmds, worker, answer,  \* the worker's queue, its place, its reply channel
  row,                   \* the registry has this generation's row
  proc, gate, ack,       \* the child, its gate, what it wrote on it
  msgs, bridged,         \* the serving loop's queue; the exit was put in it
  transferred,           \* the AtomicBool shared with the serving loop
  deferredExit, exited, shutdown, \* the serving loop's state
  kills, killed, faults,
  withdrawnAtSync        \* a withdrawal was queued when the sync was served

ownerVars  == <<socket, sent, asked>>
ioVars     == <<reading, syncCmd, withdrawnAtSync>>
outVars    == <<frames, channel>>
recordVars == <<rec, disk, faults>>
stateVars  == <<stage, doing>>
planVars   == <<retiring, serving, published, hasChild, deferred, current>>
workVars   == <<worker, answer, row>>
childVars  == <<proc, gate, ack>>
serveVars  == <<deferredExit, exited, shutdown>>
killVars   == <<kills, killed>>

vars == <<ownerVars, ioVars, outVars, inbox, stateVars, recordVars, tickets,
          planVars, cmds, workVars, childVars, msgs, bridged, transferred,
          serveVars, killVars>>

Kinds == {"publish", "fork"}
TicketStates == {"none", "issued", "committed", "completed", "revoked"}

Records == [state : {"pending", "cancelled", "launched", "transferred"},
            held : BOOLEAN,                  \* phase is `held`
            retirement : {"none", "requested", "verified", "incomplete"},
            by : TransferIds \cup {None}]    \* transfer.request_id

(* Events, owner inputs and frames are a kind and a request id. *)
Of(kind) == [kind |-> kind, id |-> None]
For(kind, id) == [kind |-> kind, id |-> id]

(* Owner input: commands, frames that parse_owner_frame refuses on their *)
(* own (unknown command, another operation or envelope), broken framing. *)
OwnerCommands == {Of("cancel"), Of("rejected"), Of("malformed")}
                   \cup {For("transfer", t) : t \in TransferIds}
Withdrawals == {"cancel", "malformed", "eof"}

Up == worker # "stopped"       \* the process lives
ActorUp == stage # "done"      \* its receiver is not dropped yet

Init ==
  /\ socket = <<>> /\ reading = TRUE
  /\ sent = 0 /\ asked = [t \in TransferIds |-> 0]
  /\ syncCmd = TRUE /\ withdrawnAtSync = FALSE
  /\ frames = <<Of("accepted")>> /\ channel = "open"
  /\ inbox = <<>> /\ stage = "deciding" /\ doing = "events"
  /\ rec = [state |-> "pending", held |-> FALSE, retirement |-> "none", by |-> None]
  /\ disk = rec /\ faults = 0
  /\ tickets = [k \in Kinds |-> "none"]
  /\ retiring = FALSE /\ serving = FALSE /\ published = FALSE /\ hasChild = FALSE
  /\ deferred = None /\ current = None
  /\ cmds = <<>> /\ worker = "idle" /\ answer = "none" /\ row = FALSE
  /\ proc = "none" /\ gate = "open" /\ ack = FALSE
  /\ msgs = <<>> /\ bridged = FALSE /\ transferred = FALSE
  /\ deferredExit = FALSE /\ exited = FALSE /\ shutdown = "none"
  /\ kills = 0 /\ killed = FALSE

----------------------------------------------------------------------------
(* The owner, and the control I/O thread. *)

OwnerSends ==
  /\ Up /\ channel = "open"
  /\ sent <= MaxInputs
  /\ \E input \in (IF sent < MaxInputs THEN OwnerCommands ELSE {}) \cup {Of("eof")} :
       /\ socket' = Append(socket, input)
       /\ sent' = IF input.kind = "eof" THEN MaxInputs + 1 ELSE sent + 1
       /\ asked' = [t \in TransferIds |-> asked[t] + IF input.id = t THEN 1 ELSE 0]
  /\ UNCHANGED <<ioVars, outVars, inbox, stateVars, recordVars, tickets,
                 planVars, cmds, workVars, childVars, msgs, bridged, transferred,
                 serveVars, killVars>>

(* Sending to an actor that is gone does nothing. *)
Post(event) == inbox' = IF ActorUp THEN Append(inbox, event) ELSE inbox

(* read_available hands on what is queued up to the first malformed line *)
(* or end of file, and then stops reading. *)
StopsReading(input) == input.kind \in {"malformed", "eof"}
ReadOut ==
  LET last == {i \in DOMAIN socket : StopsReading(socket[i])}
      first == CHOOSE i \in last : \A j \in last : i <= j
  IN IF ~reading THEN <<>>
     ELSE IF last = {} THEN socket ELSE SubSeq(socket, 1, first)

ReadAvailable(after) ==
  /\ inbox' = IF ActorUp THEN inbox \o ReadOut \o after ELSE inbox
  /\ socket' = IF reading THEN <<>> ELSE socket
  /\ reading' = (reading /\ \A i \in DOMAIN socket : ~StopsReading(socket[i]))

IoOnly == UNCHANGED <<sent, asked, outVars, stateVars, recordVars, tickets, planVars,
                      cmds, workVars, childVars, msgs, bridged, transferred,
                      serveVars, killVars>>

IoReads ==
  /\ Up /\ channel = "open" /\ reading /\ socket # <<>>
  /\ ReadAvailable(<<>>)
  /\ UNCHANGED <<syncCmd, withdrawnAtSync>>
  /\ IoOnly

(* Mutant: the sync is answered before the queued input is read. *)
IoSyncsFirst ==
  /\ Up /\ channel = "open" /\ syncCmd
  /\ syncCmd' = FALSE
  /\ withdrawnAtSync' = \E s \in {socket, inbox} :
                          \E i \in DOMAIN s : s[i].kind \in Withdrawals
  /\ inbox' = IF ActorUp THEN Append(inbox, Of("synced")) \o ReadOut ELSE inbox
  /\ socket' = IF reading THEN <<>> ELSE socket
  /\ reading' = (reading /\ \A i \in DOMAIN socket : ~StopsReading(socket[i]))
  /\ IoOnly

IoSyncs ==
  /\ Up /\ channel = "open" /\ syncCmd
  /\ syncCmd' = FALSE
  /\ withdrawnAtSync' = \E s \in {socket, inbox} :
                          \E i \in DOMAIN s : s[i].kind \in Withdrawals
  /\ ReadAvailable(<<Of("synced")>>)
  /\ IoOnly

----------------------------------------------------------------------------
(* The actor. *)

(* Actor::write: a write that reports failure did not land, or it did and *)
(* only the directory's fsync failed. *)
Outcomes == {"ok"} \cup IF faults < MaxFaults THEN {"lost", "landed"} ELSE {}

Write(next, out) ==
  /\ disk' = IF out = "lost" THEN disk ELSE next
  /\ rec' = IF out = "ok" THEN next ELSE rec
  /\ faults' = IF out = "ok" THEN faults ELSE faults + 1

Send(new) == frames' = frames \o new
Reject(code, id) == <<For(code, id)>>

(* Actor::finish and Actor::abandon: the channel is closed, the events not *)
(* read yet are dropped with the receiver, the worker or the serving loop *)
(* is told to stop. *)
EndActor ==
  /\ stage' = "done" /\ doing' = "events"
  /\ channel' = "closed"
  /\ inbox' = <<>>
  /\ IF serving THEN msgs' = Append(msgs, "end") /\ UNCHANGED cmds
                ELSE cmds' = Append(cmds, "stop") /\ UNCHANGED msgs

Handling(kinds) ==
  /\ Up /\ ActorUp /\ doing = "events"
  /\ inbox # <<>> /\ Head(inbox).kind \in kinds

Consume == inbox' = Tail(inbox) /\ UNCHANGED <<stage, channel, cmds, msgs>>

(* What no event handler touches. *)
ActorFrame == UNCHANGED <<ownerVars, ioVars, worker, bridged, serveVars, killVars>>

Quiet == UNCHANGED <<doing, recordVars, tickets, planVars, answer, row, childVars,
                     transferred>>

(* Actor::cancel_before_launch. *)
CancelBeforeLaunch(before) ==
  /\ \E out \in Outcomes :
       /\ Write([rec EXCEPT !.state = "cancelled"], out)
       /\ Send(IF out = "ok" THEN before \o <<Of("decision")>> ELSE before)
  /\ EndActor
  /\ UNCHANGED <<tickets, planVars, answer, row, childVars, transferred>>

(* ActorEvent::Synced, then Actor::decide: the creation lock and the *)
(* occupancy rule allow the launch, or they do not. *)
Decide ==
  /\ Handling({"synced"}) /\ stage = "deciding"
  /\ \/ CancelBeforeLaunch(<<>>)
     \/ \E out \in Outcomes :
          /\ Write([rec EXCEPT !.state = "launched"], out)
          /\ tickets' = [tickets EXCEPT !["publish"] = "issued"]
          /\ IF out = "ok"
               THEN /\ stage' = "starting" /\ cmds' = Append(cmds, "publish")
                    /\ inbox' = Tail(inbox) /\ Send(<<Of("decision")>>)
                    /\ UNCHANGED <<doing, channel, msgs>>
               ELSE EndActor /\ UNCHANGED frames
          /\ UNCHANGED <<planVars, answer, row, childVars, transferred>>
  /\ ActorFrame

(* ActorEvent::Commit: the rendezvous that makes an effect visible to a *)
(* retirement before it happens. *)
Ticket == IF Head(inbox).kind \in {"commit-publish", "published", "publish-failed"}
            THEN "publish" ELSE "fork"

Grants(k) == tickets[k] = "issued" /\ ~retiring

OnCommit ==
  /\ Handling({"commit-publish", "commit-fork"})
  /\ IF Grants(Ticket)
       THEN /\ tickets' = [tickets EXCEPT ![Ticket] = "committed"]
            /\ published' = (published \/ Ticket = "publish")
            /\ answer' = "yes"
       ELSE /\ tickets' = [tickets EXCEPT ![Ticket] =
                             IF @ = "issued" THEN "revoked" ELSE @]
            /\ answer' = "no"
            /\ UNCHANGED published
  /\ Consume
  /\ UNCHANGED <<frames, doing, recordVars, retiring, serving, hasChild, deferred,
                 current, row, childVars, transferred>>
  /\ ActorFrame

(* Mutant: only a committed fork delays a retirement. *)
InFlightForkOnly(t) == t["fork"] = "committed"

InFlight(t) == \E k \in Kinds : t[k] = "committed"

(* Actor::retire, `before` being the frames sent and `t` the tickets as *)
(* they are when it is called: a transfer that was not committed loses, *)
(* issued tickets are revoked, the request is recorded, and only then is *)
(* the cause acknowledged.  The effects wait for committed tickets. *)
Retire(before, t, cause) ==
  LET revoked == [k \in Kinds |-> IF t[k] = "issued" THEN "revoked" ELSE t[k]]
      lost == IF deferred = None THEN <<>> ELSE Reject("not-held", deferred)
  IN /\ tickets' = revoked
     /\ deferred' = None
     /\ \E out \in Outcomes :
          /\ Write([rec EXCEPT !.retirement = "requested"], out)
          /\ Send(before \o lost \o IF out = "ok" THEN cause ELSE <<>>)
          /\ IF out = "ok"
               THEN /\ retiring' = TRUE
                    /\ doing' = IF InFlight(revoked) THEN "events" ELSE "unwinding"
                    /\ Consume
               ELSE EndActor /\ UNCHANGED retiring
     /\ UNCHANGED <<serving, published, current, answer, row, childVars, transferred>>

(* ActorEvent::Completed.  After a completion while retiring, the *)
(* retirement goes on once nothing committed is in flight. *)
Completed == [tickets EXCEPT ![Ticket] = "completed"]
(* Mutant: a completion does not resume the retirement that waits for it. *)
ResumesNever == "events"

Resumes == IF retiring /\ ~InFlight(Completed) THEN "unwinding" ELSE "events"

OnPublished ==
  /\ Handling({"published"})
  /\ \/ /\ retiring
        /\ tickets' = Completed /\ doing' = Resumes
        /\ Consume
        /\ UNCHANGED <<frames, recordVars>>
     \/ /\ ~retiring
        /\ tickets' = [Completed EXCEPT !["fork"] = "issued"]
        /\ \E out \in Outcomes :
             /\ Write(rec, out)
             /\ IF out = "ok"
                  THEN /\ cmds' = Append(cmds, "fork") /\ inbox' = Tail(inbox)
                       /\ UNCHANGED <<stage, doing, channel, msgs>>
                  ELSE EndActor
        /\ UNCHANGED frames
  /\ UNCHANGED <<planVars, answer, row, childVars, transferred>>
  /\ ActorFrame

OnForked ==
  /\ Handling({"forked"})
  /\ hasChild' = TRUE
  /\ \/ /\ retiring
        /\ tickets' = Completed /\ doing' = Resumes
        /\ Consume
        /\ UNCHANGED <<frames, recordVars, retiring, serving, published, deferred,
                       current, answer, row, childVars, transferred>>
     \/ /\ ~retiring /\ proc = "gone"    \* no identity left to record
        /\ Retire(<<>>, Completed, <<>>)
     \/ /\ ~retiring
        /\ tickets' = Completed
        /\ \E out \in Outcomes :
             /\ Write(rec, out)
             /\ IF out = "ok" THEN Consume /\ UNCHANGED doing ELSE EndActor
        /\ UNCHANGED <<frames, retiring, serving, published, deferred, current,
                       answer, row, childVars, transferred>>
  /\ ActorFrame

OnEffectFailed ==
  /\ Handling({"publish-failed", "fork-failed"})
  /\ \/ /\ retiring
        /\ tickets' = Completed /\ doing' = Resumes
        /\ Consume
        /\ UNCHANGED <<frames, recordVars, planVars, answer, row, childVars, transferred>>
     \/ /\ ~retiring
        /\ Retire(<<>>, Completed, <<>>)
        /\ UNCHANGED hasChild
  /\ ActorFrame

(* Actor::on_ack: an acknowledgement counts only while starting. *)
OnAck ==
  /\ Handling({"prepared", "child-lost"})
  /\ IF retiring \/ stage # "starting" THEN Consume /\ Quiet /\ UNCHANGED frames
     ELSE IF Head(inbox).kind = "prepared"
     THEN /\ \E out \in Outcomes :
               /\ Write([rec EXCEPT !.held = TRUE], out)
               /\ IF out = "ok"
                    THEN /\ stage' = "held" /\ cmds' = Append(cmds, "ready-point")
                         /\ inbox' = Tail(inbox) /\ Send(<<Of("held")>>)
                         /\ UNCHANGED <<doing, channel, msgs>>
                    ELSE EndActor /\ UNCHANGED frames
          /\ UNCHANGED <<tickets, planVars, answer, row, childVars, transferred>>
     ELSE Retire(<<>>, tickets, <<>>) /\ UNCHANGED hasChild
  /\ ActorFrame

(* Mutants: the transfer accepted while held is forgotten at ready; one is *)
(* committed although none was accepted. *)
OnReadyPointForgets ==
  /\ Handling({"ready-point"})
  /\ stage' = "ready" /\ serving' = TRUE /\ answer' = "yes"
  /\ Send(<<Of("ready")>>)
  /\ inbox' = Tail(inbox)
  /\ UNCHANGED <<doing, current, deferred, channel, cmds, msgs, recordVars, tickets,
                 retiring, published, hasChild, row, childVars, transferred>>
  /\ ActorFrame

OnReadyPointCommits ==
  /\ Handling({"ready-point"})
  /\ stage' = "ready" /\ serving' = TRUE /\ answer' = "yes"
  /\ Send(<<Of("ready")>>)
  /\ current' = deferred /\ deferred' = None /\ doing' = "committing"
  /\ inbox' = Tail(inbox)
  /\ UNCHANGED <<channel, cmds, msgs, recordVars, tickets, retiring, published, hasChild,
                 row, childVars, transferred>>
  /\ ActorFrame

(* ActorEvent::ReadyPoint: a transfer accepted while held is committed *)
(* right after `ready`. *)
OnReadyPoint ==
  /\ Handling({"ready-point"})
  /\ IF stage = "held" /\ ~retiring
       THEN /\ stage' = "ready" /\ serving' = TRUE /\ answer' = "yes"
            /\ Send(<<Of("ready")>>)
            /\ current' = deferred /\ deferred' = None
            /\ doing' = IF deferred = None THEN "events" ELSE "committing"
       ELSE answer' = "no" /\ UNCHANGED <<stage, serving, frames, current, deferred, doing>>
  /\ inbox' = Tail(inbox)
  /\ UNCHANGED <<channel, cmds, msgs, recordVars, tickets, retiring, published, hasChild, row,
                 childVars, transferred>>
  /\ ActorFrame

(* ActorEvent::ChildExited and ActorEvent::Shutdown. *)
OnChildExited ==
  /\ Handling({"child-exited"})
  /\ IF rec.state = "launched" /\ ~retiring
       THEN Retire(<<>>, tickets, <<>>) /\ UNCHANGED hasChild
       ELSE Consume /\ Quiet /\ UNCHANGED frames
  /\ ActorFrame

OnShutdown ==
  /\ Handling({"shutdown"})
  /\ IF stage = "deciding" THEN CancelBeforeLaunch(<<>>)
     ELSE IF ~retiring THEN Retire(<<>>, tickets, <<>>) /\ UNCHANGED hasChild
     ELSE Consume /\ Quiet /\ UNCHANGED frames
  /\ ActorFrame

(* Actor::on_owner before the decision: any withdrawal wins at once. *)
OnOwnerDeciding ==
  /\ stage = "deciding"
  /\ \/ Handling({"eof", "cancel"}) /\ CancelBeforeLaunch(<<>>)
     \/ Handling({"malformed"}) /\ CancelBeforeLaunch(Reject("malformed", None))
     \/ /\ Handling({"transfer"})
        /\ Send(Reject("not-held", Head(inbox).id))
        /\ Consume /\ Quiet
  /\ ActorFrame

(* And after it: a withdrawal retires, once. *)
OnWithdrawal ==
  /\ stage # "deciding"
  /\ Handling(Withdrawals)
  /\ LET kind == Head(inbox).kind
         refused == CASE kind = "malformed" -> Reject("malformed", None)
                      [] kind = "cancel" /\ retiring -> Reject("already-decided", None)
                      [] OTHER -> <<>>
     IN IF retiring THEN Send(refused) /\ Consume /\ Quiet
        ELSE Retire(refused, tickets, <<Of("decision")>>) /\ UNCHANGED hasChild
  /\ ActorFrame

TransferRefused(id) ==
  IF deferred # None THEN "already-decided"
  ELSE IF retiring \/ ~(rec.held /\ hasChild) THEN "not-held"
  ELSE IF id \in StaleIds THEN "wrong-incarnation"
  ELSE "no"

(* Mutant: a transfer accepted while held is committed before `ready`. *)
OnTransferUndeferred ==
  /\ stage # "deciding"
  /\ Handling({"transfer"})
  /\ TransferRefused(Head(inbox).id) = "no"
  /\ current' = Head(inbox).id /\ doing' = "committing"
  /\ Consume
  /\ UNCHANGED <<deferred, frames, recordVars, tickets, retiring, serving, published,
                 hasChild, answer, row, childVars, transferred>>
  /\ ActorFrame

OnTransfer ==
  /\ stage # "deciding"
  /\ Handling({"transfer"})
  /\ LET id == Head(inbox).id IN
     IF TransferRefused(id) # "no"
       THEN Send(Reject(TransferRefused(id), id)) /\ Consume /\ Quiet
       ELSE /\ IF stage = "held"
                 THEN deferred' = id /\ UNCHANGED <<current, doing>>
                 ELSE current' = id /\ doing' = "committing" /\ UNCHANGED deferred
            /\ Consume
            /\ UNCHANGED <<frames, recordVars, tickets, retiring, serving, published,
                           hasChild, answer, row, childVars, transferred>>
  /\ ActorFrame

(* A frame refused by its parser changes nothing. *)
OnRejected ==
  /\ Handling({"rejected"})
  /\ Send(Reject("rejected", None))
  /\ Consume /\ Quiet
  /\ ActorFrame

(* Actor::complete_retirement: the gate is shut and the child must be gone,*)
(* the row is removed under both locks, or the retirement is incomplete. *)
CompleteRetirement ==
  /\ Up /\ doing = "unwinding"
  /\ gate' = IF hasChild THEN "shut" ELSE gate
  /\ \E gone \in BOOLEAN, unwound \in BOOLEAN :
       LET verified == (hasChild => gone) /\ (published => unwound) IN
       /\ proc' = IF hasChild /\ gone THEN "gone" ELSE proc
       /\ row' = (row /\ ~(published /\ unwound))
       /\ \E out \in Outcomes :
            /\ Write([rec EXCEPT !.retirement =
                        IF verified THEN "verified" ELSE "incomplete"], out)
            /\ Send(IF out = "ok" THEN <<Of("retirement")>> ELSE <<>>)
  /\ EndActor
  /\ UNCHANGED <<ack, tickets, planVars, answer, transferred>>
  /\ ActorFrame

(* Mutant: the transfer goes on whether or not its commit was written. *)
CommitTransferRegardless ==
  /\ Up /\ doing = "committing"
  /\ \E out \in Outcomes :
       Write([rec EXCEPT !.state = "transferred", !.by = current], out)
  /\ transferred' = TRUE
  /\ msgs' = Append(msgs, "transferred")
  /\ doing' = "releasing"
  /\ UNCHANGED <<outVars, stage, inbox, cmds, tickets, planVars, answer, row, childVars>>
  /\ ActorFrame

(* Actor::commit_transfer, release_transfer and finish_transfer.  The *)
(* serving loop learns of the commit before the child is released; the *)
(* actor ends when the last write was tried. *)
CommitTransfer ==
  /\ Up /\ doing = "committing"
  /\ \E out \in Outcomes :
       /\ Write([rec EXCEPT !.state = "transferred", !.by = current], out)
       /\ IF out = "ok"
            THEN /\ transferred' = TRUE
                 /\ msgs' = Append(msgs, "transferred")
                 /\ doing' = "releasing"
                 /\ UNCHANGED <<frames, stage, channel, inbox, cmds>>
            ELSE /\ Send(Reject("not-held", current))
                 /\ EndActor
                 /\ UNCHANGED transferred
  /\ UNCHANGED <<tickets, planVars, answer, row, childVars>>
  /\ ActorFrame

ReleaseTransfer ==
  /\ Up /\ doing = "releasing"
  /\ hasChild' = FALSE
  /\ gate' = IF proc = "gone" THEN gate ELSE "released"
  /\ doing' = "finishing"
  /\ UNCHANGED <<outVars, inbox, stage, recordVars, tickets, retiring, serving, published,
                 deferred, current, cmds, answer, row, proc, ack, msgs, transferred>>
  /\ ActorFrame

FinishTransfer ==
  /\ Up /\ doing = "finishing"
  /\ \E out \in Outcomes : Write(rec, out)
  /\ Send(<<For("transferred", current)>>)
  /\ channel' = "closed" /\ stage' = "done" /\ doing' = "events"
  /\ inbox' = <<>>
  /\ UNCHANGED <<tickets, planVars, cmds, answer, row, childVars, msgs, transferred>>
  /\ ActorFrame

ActorStep ==
  \/ Decide \/ OnCommit \/ OnPublished \/ OnForked \/ OnEffectFailed \/ OnAck
  \/ OnReadyPoint \/ OnChildExited \/ OnShutdown \/ OnOwnerDeciding
  \/ OnWithdrawal \/ OnTransfer \/ OnRejected \/ CompleteRetirement \/ CommitTransfer
  \/ ReleaseTransfer \/ FinishTransfer

----------------------------------------------------------------------------
(* The startup worker (Worker::run). *)

WorkerOnly == UNCHANGED <<ownerVars, ioVars, outVars, stateVars, recordVars, tickets,
                          planVars, msgs, bridged, transferred, serveVars, killVars>>

(* The process ends: a child still held reads end of file on its gate. *)
ProcessEnds ==
  /\ worker' = "stopped"
  /\ gate' = IF gate = "open" THEN "shut" ELSE gate

(* It takes a command: to publish or fork it first prepares what is not an *)
(* effect, which may fail, and then asks for the ticket's commit. *)
TakeCommand ==
  /\ worker = "idle" /\ cmds # <<>> /\ Head(cmds) # "stop"
  /\ cmds' = Tail(cmds)
  /\ \/ /\ Head(cmds) = "ready-point"
        /\ Post(Of("ready-point")) /\ worker' = "asking-ready"
     \/ /\ Head(cmds) = "publish"
        /\ \/ Post(Of("publish-failed")) /\ UNCHANGED worker
           \/ Post(Of("commit-publish")) /\ worker' = "asking-publish"
     \/ /\ Head(cmds) = "fork"
        /\ \/ Post(Of("fork-failed")) /\ UNCHANGED worker
           \/ Post(Of("commit-fork")) /\ worker' = "asking-fork"
  /\ UNCHANGED <<answer, row, childVars>>
  /\ WorkerOnly

(* The reply, or the reply channel dropped with the actor. *)
TakeAnswer ==
  /\ worker \in {"asking-ready", "asking-publish", "asking-fork"}
  /\ answer # "none" \/ ~ActorUp
  /\ answer' = "none"
  /\ worker' = IF answer # "yes" THEN "idle"
               ELSE CASE worker = "asking-ready" -> "serving"
                      [] worker = "asking-publish" -> "publishing"
                      [] worker = "asking-fork" -> "forking"
  /\ UNCHANGED <<inbox, cmds, row, childVars>>
  /\ WorkerOnly

(* The committed publication, whole, failed, or failed half way. *)
PublishEffect ==
  /\ worker = "publishing"
  /\ worker' = "idle"
  /\ \/ row' = TRUE /\ Post(Of("published"))
     \/ row' \in BOOLEAN /\ Post(Of("publish-failed"))
  /\ UNCHANGED <<cmds, answer, childVars>>
  /\ WorkerOnly

(* The committed fork; it fails if the generation changed, or if nothing *)
(* can own the child, which is then killed and reaped on the spot. *)
ForkEffect ==
  /\ worker = "forking"
  /\ \/ proc' = "preparing" /\ worker' = "reading-ack" /\ Post(Of("forked"))
     \/ UNCHANGED proc /\ worker' = "idle" /\ Post(Of("fork-failed"))
  /\ UNCHANGED <<cmds, answer, row, gate, ack>>
  /\ WorkerOnly

(* held::read_ack: the acknowledgement, or end of file when the child is *)
(* gone or the gate was shut. *)
ReadAck ==
  /\ worker = "reading-ack"
  /\ worker' = "idle"
  /\ \/ ack /\ Post(Of("prepared"))
     \/ ((proc = "gone" /\ ~ack) \/ gate = "shut") /\ Post(Of("child-lost"))
  /\ UNCHANGED <<cmds, answer, row, childVars>>
  /\ WorkerOnly

WorkerStops ==
  /\ worker = "idle" /\ cmds # <<>> /\ Head(cmds) = "stop"
  /\ ProcessEnds
  /\ UNCHANGED <<inbox, cmds, answer, row, proc, ack>>
  /\ WorkerOnly

WorkerStep == TakeCommand \/ TakeAnswer \/ PublishEffect \/ ForkEffect \/ ReadAck
                \/ WorkerStops

----------------------------------------------------------------------------
(* The serving loop (Daemon::handle). *)

ServeOnly == UNCHANGED <<ownerVars, ioVars, outVars, stateVars, recordVars, tickets,
                         planVars, cmds, answer, row, ack, bridged, transferred,
                         killVars>>

Served(kind) ==
  /\ worker = "serving" /\ shutdown = "none" /\ msgs # <<>>
  /\ Head(msgs) = kind
  /\ msgs' = Tail(msgs)
  /\ UNCHANGED <<worker, proc, gate>>
  /\ ServeOnly

(* OperationLink::holds: before the transfer an exit is the actor's to *)
(* judge. *)
ServeChildExited ==
  /\ Served("child-exited")
  /\ IF transferred THEN exited' = TRUE /\ UNCHANGED <<inbox, deferredExit>>
     ELSE deferredExit' = TRUE /\ Post(Of("child-exited")) /\ UNCHANGED exited
  /\ UNCHANGED shutdown

(* OperationLink::intercepts_kill. *)
ServeKill ==
  /\ Served("kill")
  /\ IF transferred THEN shutdown' = "kill" /\ UNCHANGED inbox
     ELSE Post(Of("shutdown")) /\ UNCHANGED shutdown
  /\ UNCHANGED <<deferredExit, exited>>

(* Mutant: the exit that was held back is dropped. *)
ServeTransferredDrops ==
  /\ Served("transferred")
  /\ deferredExit' = FALSE
  /\ UNCHANGED <<exited, inbox, shutdown>>

(* The exit that was held back is handled after all. *)
ServeTransferred ==
  /\ Served("transferred")
  /\ exited' = (exited \/ deferredExit)
  /\ deferredExit' = FALSE
  /\ UNCHANGED <<inbox, shutdown>>

ServeEnd ==
  /\ Served("end")
  /\ shutdown' = "ended"
  /\ UNCHANGED <<inbox, deferredExit, exited>>

(* Daemon::close: a retired session is left alone, any other ends its *)
(* child. *)
ServeCloses ==
  /\ worker = "serving"
  /\ shutdown # "none" \/ exited
  /\ ProcessEnds
  /\ proc' = IF shutdown = "ended" THEN proc ELSE "gone"
  /\ UNCHANGED <<inbox, msgs, serveVars>>
  /\ ServeOnly

ServeStep == ServeChildExited \/ ServeKill \/ ServeTransferred \/ ServeEnd
               \/ ServeCloses

----------------------------------------------------------------------------
(* The child, the bridge that reports its exit, and kills. *)

ChildOnly == UNCHANGED <<ownerVars, ioVars, outVars, inbox, stateVars, recordVars,
                         tickets, planVars, cmds, workVars, gate, msgs, bridged,
                         transferred, serveVars, killVars>>

ChildPrepares ==
  /\ proc = "preparing" /\ gate # "shut"
  /\ proc' = "held" /\ ack' = TRUE
  /\ ChildOnly

ChildExecs ==
  /\ proc = "held" /\ gate = "released"
  /\ proc' = "running"
  /\ UNCHANGED ack
  /\ ChildOnly

ChildLeaves ==
  /\ proc \in {"preparing", "held"} /\ gate = "shut"
  /\ proc' = "gone"
  /\ UNCHANGED ack
  /\ ChildOnly

ChildDies ==
  /\ proc \in {"preparing", "held", "running"}
  /\ proc' = "gone"
  /\ UNCHANGED ack
  /\ ChildOnly

BridgeReports ==
  /\ Up /\ proc = "gone" /\ ~bridged
  /\ bridged' = TRUE
  /\ msgs' = Append(msgs, "child-exited")
  /\ UNCHANGED <<ownerVars, ioVars, outVars, inbox, stateVars, recordVars, tickets,
                 planVars, cmds, workVars, childVars, transferred, serveVars, killVars>>

(* forward_kill_signals: to the actor while it has a receiver, otherwise *)
(* to the serving loop. *)
Signal ==
  /\ Up /\ kills < MaxKills
  /\ kills' = kills + 1 /\ killed' = TRUE
  /\ IF ActorUp THEN Post(Of("shutdown")) /\ UNCHANGED msgs
                ELSE msgs' = Append(msgs, "kill") /\ UNCHANGED inbox
  /\ UNCHANGED <<ownerVars, ioVars, outVars, stateVars, recordVars, tickets, planVars,
                 cmds, workVars, childVars, bridged, transferred, serveVars>>

(* The listener fails for good (spawn_acceptor, started with the child). *)
ListenerFails ==
  /\ Up /\ kills < MaxKills /\ proc # "none"
  /\ kills' = kills + 1 /\ killed' = TRUE
  /\ msgs' = Append(msgs, "kill")
  /\ UNCHANGED <<ownerVars, ioVars, outVars, inbox, stateVars, recordVars, tickets,
                 planVars, cmds, workVars, childVars, bridged, transferred, serveVars>>

Next ==
  \/ OwnerSends \/ IoReads \/ IoSyncs
  \/ ActorStep \/ WorkerStep \/ ServeStep
  \/ ChildPrepares \/ ChildExecs \/ ChildLeaves \/ ChildDies
  \/ BridgeReports \/ Signal \/ ListenerFails

(* Every thread runs, and a child that may go on does.  The owner, signals *)
(* and deaths are never due. *)
Fairness ==
  /\ WF_vars(IoReads) /\ WF_vars(IoSyncs)
  /\ WF_vars(ActorStep) /\ WF_vars(WorkerStep) /\ WF_vars(ServeStep)
  /\ WF_vars(ChildPrepares) /\ WF_vars(ChildExecs) /\ WF_vars(ChildLeaves)
  /\ WF_vars(BridgeReports)

Spec == Init /\ [][Next]_vars /\ Fairness

----------------------------------------------------------------------------
(* Properties. *)

Events == {"eof", "cancel", "malformed", "rejected", "transfer", "synced", "commit-publish",
           "commit-fork", "published", "publish-failed", "forked", "fork-failed",
           "prepared", "child-lost", "ready-point", "child-exited", "shutdown"}

(* Every variable keeps its type, and a transfer under way has a request. *)
TypeOK ==
  /\ \A i \in DOMAIN inbox : inbox[i].kind \in Events
  /\ reading \in BOOLEAN /\ syncCmd \in BOOLEAN /\ withdrawnAtSync \in BOOLEAN
  /\ channel \in {"open", "closed"}
  /\ stage \in {"deciding", "starting", "held", "ready", "done"}
  /\ doing \in {"events", "unwinding", "committing", "releasing", "finishing"}
  /\ rec \in Records /\ disk \in Records
  /\ tickets \in [Kinds -> TicketStates]
  /\ deferred \in TransferIds \cup {None} /\ current \in TransferIds \cup {None}
  /\ doing \in {"committing", "releasing", "finishing"} => current # None
  /\ asked \in [TransferIds -> Nat]
  /\ worker \in {"idle", "asking-publish", "asking-fork", "asking-ready", "publishing",
                 "forking", "reading-ack", "serving", "stopped"}
  /\ answer \in {"none", "yes", "no"}
  /\ proc \in {"none", "preparing", "held", "running", "gone"}
  /\ gate \in {"open", "shut", "released"}
  /\ shutdown \in {"none", "kill", "ended"}
  /\ \A b \in {retiring, serving, published, hasChild, row, ack, bridged, transferred,
               deferredExit, exited, killed} : b \in BOOLEAN

(* A verified retirement never races an effect: when the record says so, *)
(* no publication or fork is under way or can still start, this *)
(* generation's row is gone and so is the child (the ticket rendezvous of *)
(* ActorEvent::Commit and Actor::retire). *)
VerifiedIsQuiet ==
  disk.retirement = "verified" =>
    /\ worker \notin {"publishing", "forking"}
    /\ ~row
    /\ proc \in {"none", "gone"}

(* The command runs only after the record says `transferred`, in this *)
(* daemon's interleaving of actor, worker and child. *)
RunsOnlyTransferred == proc = "running" => disk.state = "transferred"

Answers(id) == {i \in DOMAIN frames : frames[i].id = id}

(* Each transfer request gets at most one answer, and no owner reads that *)
(* its transfer happened unless the record names that request as the one *)
(* committed and `ready` was sent before (on_owner, retire, *)
(* commit_transfer, and the transfer deferred from held to ready). *)
OneAnswerPerRequest ==
  /\ \A id \in TransferIds : Cardinality(Answers(id)) <= asked[id]
  /\ \A i \in DOMAIN frames :
       frames[i].kind = "transferred" =>
         /\ disk.state = "transferred" /\ disk.by = frames[i].id
         /\ \E j \in 1..i : frames[j].kind = "ready"

(* What the owner had queued when the decision was taken wins: a cancel, *)
(* end of file or malformed input the I/O thread could read at the sync is *)
(* never overtaken by the launch (begin_sync, IoCmd::Sync). *)
QueuedWithdrawalWins ==
  withdrawnAtSync => disk.state \in {"pending", "cancelled"}

(* No effect overtakes the record: a child never runs before the transfer *)
(* is on disk, none starts or is left after a verified retirement, and none *)
(* after a withdrawal that was already in the queue. *)
EffectsFollowRecord == VerifiedIsQuiet /\ RunsOnlyTransferred /\ QueuedWithdrawalWins

(* The exit of a transferred session's child is never lost between the *)
(* actor and the serving loop, whichever of the two saw the other's flag or *)
(* message first (OperationLink::holds, Msg::OperationTransferred). *)
ExitNotLost ==
  (transferred /\ bridged /\ Up) =>
    \/ exited \/ shutdown # "none"
    \/ \E i \in DOMAIN msgs : msgs[i] = "child-exited"
    \/ deferredExit /\ \E i \in DOMAIN msgs : msgs[i] = "transferred"

(* Nothing that passes between the owner, the actor and the serving loop is *)
(* lost, invented or told twice: a transfer request's answer and the exit *)
(* of the child. *)
MessagesCountOnce == OneAnswerPerRequest /\ ExitNotLost

StartupEnded == ~Up \/ (stage = "done" /\ disk.state = "transferred")

(* The owner's withdrawal always ends the operation's startup: no thread *)
(* waits on another for ever, and either the process ends or the session *)
(* was transferred and the actor is done. *)
WithdrawalEnds == (sent > MaxInputs) ~> StartupEnded

Answered(id) == Answers(id) # {} \/ channel = "closed" \/ ~Up

(* A transfer request is answered, or the channel closes: one accepted *)
(* while the child is held is not left waiting for a ready point that never *)
(* comes (WorkerCmd::ReadyPoint, deferred_transfer). *)
RequestsAreAnswered == \A id \in TransferIds : (asked[id] > 0) ~> Answered(id)

(* The daemon of a transferred session ends once its child has exited. *)
ExitEndsDaemon == (transferred /\ proc = "gone") ~> ~Up

(* What operation.rs says of SIGTERM and SIGINT: before the transfer they *)
(* retire the operation through its actor, and once the actor is done they *)
(* are the serving daemon's.  So a kill is always with someone. *)
KillIsNotLost ==
  (killed /\ stage = "done" /\ transferred) =>
    \/ ~Up \/ shutdown # "none"
    \/ \E i \in DOMAIN msgs : msgs[i] = "kill"

(* What ADR 0017 says of the `not-held` answer: the transfer came before *)
(* the child was held, during retirement, or lost before its commit.  So *)
(* the request it names is not the one the record committed. *)
NotHeldMeansNotCommitted ==
  \A i \in DOMAIN frames :
    frames[i].kind = "not-held" => disk.by # frames[i].id
============================================================================
