----------------------- MODULE LaunchOperationProofs -----------------------
(***************************************************************************)
(* Proofs about LaunchOperation for any set of launchers and requests, any *)
(* number of crashes, write faults and retires.                            *)
(***************************************************************************)
EXTENDS LaunchOperation, TLAPS

----------------------------------------------------------------------------
(* The inductive invariant. *)

HoldingLock == {"claimed", "checked", "forking", "spawned", "gated"}
ActorStages == {"deciding", "starting", "held", "releasing", "finishing"}

(* The operation lock says who may write, and a settle keeps writers out. *)
LockInv ==
  /\ \A l \in Launchers : (oplock = l) <=> (launcher[l] \in HoldingLock)
  /\ (oplock = "daemon") <=> Acting(ActorStages)
  /\ (oplock \in Requests) <=> (rpc # "idle")
  /\ spc # "idle" => oplock = "free" /\ srec = rec

(* The launcher knows the record it holds, and there is one daemon. *)
LaunchInv ==
  /\ \A l \in Launchers :
       /\ launcher[l] \in HoldingLock =>
            lrec[l].state = "pending" /\ lrec[l].retirement = "none"
       /\ launcher[l] \in {"claimed", "checked", "forking"} => daemon = "none"
  /\ rec.state = "reserved" => daemon = "none"

(* A daemon that has not opened the operation has done nothing. *)
FreshInv ==
  daemon \in {"none", "gated", "opened"} =>
    /\ stage = "deciding" /\ effect = "none" /\ retiring = "no"
    /\ child = "none" /\ gate = "open"

(* What the actor's copy of the record says at each stage. *)
ActorInv ==
  daemon = "running" =>
    /\ stage = "deciding" =>
         /\ drec.state = "pending" /\ drec.retirement # "verified"
         /\ effect = "none" /\ child = "none" /\ retiring = "no"
    /\ stage \in {"starting", "held"} =>
         /\ drec.state = "launched" /\ drec.retirement # "verified"
    /\ stage = "releasing" => drec.state = "transferred"
    /\ stage = "finishing" => drec.state = "transferred"

(* Recovery only holds records that are not final. *)
RecoveryInv ==
  rpc # "idle" =>
    /\ rrec.state \in {"reserved", "pending", "launched"}
    /\ rrec.retirement = "requested"

(* A released gate is a committed transfer; one child, one exec. *)
ChildInv ==
  /\ gate = "released" => rec.state = "transferred"
  /\ child = "running" => gate = "released"
  /\ effect \in {"publish-issued", "publish", "publish-done", "fork-issued",
                 "fork"} => child = "none"
  /\ retiring # "no" => effect \notin {"publish-issued", "fork-issued"}
  /\ child \in {"none", "preparing", "held"} => execs = 0
  /\ execs \in {0, 1}

OutcomeInv == closed => DurableEnd(rec)

Inv ==
  /\ TypeOK /\ Check(rec) /\ WriterOwnsRecord
  /\ LockInv /\ LaunchInv /\ FreshInv /\ ActorInv /\ RecoveryInv /\ ChildInv
  /\ OutcomeInv

(* What a step may do to what the contract is about: the record moves *)
(* towards its outcome, or the command is started, or the owner is told. *)
Progress(r, s) ==
  \/ /\ r.state \in {"reserved", "pending"}
     /\ s.state \in {"reserved", "pending", "cancelled", "launched"}
     /\ s.state = "launched" => s.retirement # "verified"
  \/ /\ r.state = "launched" /\ r.retirement # "verified"
     /\ s.state \in {"launched", "transferred"}
  \/ r.state = "transferred" /\ s.state = "transferred"

ContractStep ==
  /\ rec' = rec \/ (Progress(rec, rec') /\ UNCHANGED <<execs, closed>>)
  /\ execs' = execs \/ /\ rec.state = "transferred" /\ rec' = rec
                       /\ execs = 0 /\ execs' = 1 /\ UNCHANGED closed
  /\ (closed' <=> closed) \/ /\ closed' /\ DurableEnd(rec) /\ rec' = rec
                              /\ UNCHANGED execs

----------------------------------------------------------------------------
(* The values the writers put in a record are of its fields' types *)
(* (record.rs). *)
LEMMA Literals ==
  /\ {"reserved", "pending", "cancelled", "launched", "transferred"} \subseteq States
  /\ {"reserved", "claimed", "daemon-forking", "daemon-gated", "child-forking",
      "child-preparing", "held"} \subseteq Phases
  /\ {"none", "launcher", "producer", "recovery"} \subseteq WriterRoles
  /\ {"none", "owner", "occupied", "refused", "withdrawn", "producer-lost",
      "launch"} \subseteq Causes
  /\ {"none", "requested", "verified", "incomplete"} \subseteq RetirementPhases
  /\ {"none", "unknown", "released", "unreleased"} \subseteq Transfers
BY DEF States, Phases, WriterRoles, Causes, RetirementPhases, Transfers

(* Every transition of launcher, actor and recovery yields a record. *)
LEMMA TransitionTypes ==
  ASSUME NEW r \in Records
  PROVE  /\ Reserved \in Records
         /\ \A l \in Launchers : Claimed(r, l) \in Records
         /\ DaemonForking(r) \in Records
         /\ DaemonGated(r) \in Records
         /\ \A c \in Causes : Cancelled(r, c) \in Records
         /\ Launched(r) \in Records
         /\ ChildForking(r) \in Records
         /\ ChildPreparing(r) \in Records
         /\ Held(r) \in Records
         /\ Committed(r) \in Records
         /\ \A ok \in BOOLEAN : Released(r, ok) \in Records
         /\ \A role \in WriterRoles, q \in Requests \cup {ActorRequest} :
              RetirementRequested(r, role, q) \in Records
         /\ \A ok \in BOOLEAN : Retired(r, ok) \in Records
<1>1. Reserved \in Records BY Literals DEF Reserved, Records
<1>2. \A l \in Launchers : Claimed(r, l) \in Records BY Literals DEF Claimed, Records
<1>3. DaemonForking(r) \in Records BY Literals DEF DaemonForking, Records
<1>4. DaemonGated(r) \in Records BY Literals DEF DaemonGated, Records
<1>5. \A c \in Causes : Cancelled(r, c) \in Records BY Literals DEF Cancelled, Records
<1>6. Launched(r) \in Records BY Literals DEF Launched, Records
<1>7. ChildForking(r) \in Records BY Literals DEF ChildForking, Records
<1>8. ChildPreparing(r) \in Records BY Literals DEF ChildPreparing, Records
<1>9. Held(r) \in Records BY SMTT(60), Literals DEF Held, Records
<1>10. Committed(r) \in Records BY Literals DEF Committed, Records
<1>11. \A ok \in BOOLEAN : Released(r, ok) \in Records BY Literals DEF Released, Records
<1>12. \A role \in WriterRoles, q \in Requests \cup {ActorRequest} :
        RetirementRequested(r, role, q) \in Records BY Literals DEF RetirementRequested, Records
<1>13. \A ok \in BOOLEAN : Retired(r, ok) \in Records BY Literals DEF Retired, Records
<1> QED BY <1>1, <1>2, <1>3, <1>4, <1>5, <1>6, <1>7, <1>8, <1>9, <1>10, <1>11, <1>12, <1>13

(* The record recovery ends with is a record (settle.rs, retire). *)
LEMMA RecoveryTerminalType ==
  ASSUME NEW r \in Records, NEW ok \in BOOLEAN
  PROVE  RecoveryTerminal(r, ok) \in Records
BY Literals DEF RecoveryTerminal, Cancelled, Retired, Records

(* A write of the record leaves it as it was, or replaces exactly the *)
(* expected record by the next one; one that reports success replaced it. *)
LEMMA WriteCasFacts ==
  ASSUME NEW expected, NEW next \in Records, NEW out,
         WriteCas(expected, next, out), rec \in Records, Check(rec),
         faults \in Nat
  PROVE  /\ rec' \in Records /\ Check(rec') /\ faults' \in Nat
         /\ rec' = rec \/ (rec = expected /\ rec' = next)
         /\ Written(expected, next, out) => rec = expected /\ rec' = next
BY DEF WriteCas, Written, Admissible, WriteOutcomes

----------------------------------------------------------------------------
(* Every step keeps the invariant: one lemma per process. *)

(* A reserved operation nobody has started satisfies the invariant *)
(* (OperationStore::create_exclusive). *)
LEMMA InitInv == Init => Inv
<1> SUFFICES ASSUME Init PROVE Inv OBVIOUS
<1>1. Reserved \in Records BY Literals DEF Reserved, Records
<1>2. TypeOK BY <1>1, OperationAssumption
  DEF Init, TypeOK, LauncherStates, Rows, DaemonStates, Stages, Effects, RecoverySteps
<1>3. Check(rec) BY DEF Init, Check, CheckWriter, CheckState, Reserved
<1> QED BY <1>2, <1>3, OperationAssumption
  DEF Init, Inv, WriterOwnsRecord, LockInv, LaunchInv, FreshInv, ActorInv,
      RecoveryInv, ChildInv, OutcomeInv, Acting, HoldingLock, ActorStages, Reserved

(* A launcher that records why nothing launched and returns keeps the *)
(* invariant (the `decide` closure of run_operation.rs). *)
LEMMA LauncherDecidesInv ==
  ASSUME Inv, NEW l \in Launchers, launcher[l] \in HoldingLock,
         NEW cause \in Causes, LauncherDecides(l, cause),
         daemon' = daemon \/ daemon' = "dead"
  PROVE  Inv' /\ ContractStep
<1> USE OperationAssumption
    DEF Inv, TypeOK, WriterOwnsRecord, LockInv, LaunchInv, FreshInv, ActorInv,
        RecoveryInv, ChildInv, OutcomeInv, Acting, HoldingLock, ActorStages,
        DurableEnd, ContractStep, Progress, LauncherStates, LauncherOnly, actorVars, childVars,
        recoveryVars, settleVars, envVars
<1> DEFINE next == Cancelled(lrec[l], cause)
<1>1. PICK out \in WriteOutcomes : WriteCas(lrec[l], next, out) BY DEF LauncherDecides
<1>2. next \in Records BY TransitionTypes
<1>3. /\ rec' \in Records /\ Check(rec') /\ faults' \in Nat
      /\ rec' = rec \/ rec' = next BY <1>1, <1>2, WriteCasFacts
<1>4. rec = lrec[l] /\ next.state = "cancelled" BY DEF Cancelled, Records
<1> QED BY <1>2, <1>3, <1>4 DEF LauncherDecides, LauncherReturns, DaemonStates

(* Every step of a launcher keeps the invariant and the contract *)
(* (run_operation.rs, launch). *)
LEMMA LauncherInv ==
  ASSUME Inv, NEW l \in Launchers, LauncherStep(l)
  PROVE  Inv' /\ ContractStep
<1> USE OperationAssumption
    DEF Inv, TypeOK, WriterOwnsRecord, LockInv, LaunchInv, FreshInv, ActorInv,
        RecoveryInv, ChildInv, OutcomeInv, Acting, HoldingLock, ActorStages,
        DurableEnd, ContractStep, Progress, LauncherStates, LauncherOnly, actorVars, childVars,
        recoveryVars, settleVars, envVars
<1>1. CASE TakeSessionLocks(l) BY <1>1 DEF TakeSessionLocks, storeVars, Check, CheckWriter, CheckState
<1>2. CASE Claim(l)
  <2> DEFINE next == Claimed(rec, l)
  <2>1. PICK out \in WriteOutcomes :
          /\ WriteCas(rec, next, out)
          /\ IF Written(rec, next, out)
               THEN /\ LauncherAt(l, "locked", "claimed")
                    /\ oplock' = l
                    /\ lrec' = [lrec EXCEPT ![l] = next]
                    /\ UNCHANGED creation
               ELSE LauncherReturns(l) /\ UNCHANGED lrec BY <1>2 DEF Claim
  <2>2. next \in Records BY TransitionTypes
  <2>3. rec.retirement = "none"
    BY <1>2 DEF Claim, Claimable, Check, CheckWriter, CheckState, Records, RetirementPhases
  <2>4. /\ rec' \in Records /\ Check(rec') /\ faults' \in Nat
        /\ rec' = rec \/ rec' = next
        /\ Written(rec, next, out) => rec' = next BY <2>1, <2>2, WriteCasFacts
  <2>5. rec.state = "reserved" /\ next.state = "pending" /\ next.retirement = "none"
    BY <1>2, <2>3 DEF Claim, Claimable, Claimed, Records
  <2> QED BY <1>2, <2>1, <2>2, <2>4, <2>5 DEF Claim, LockFree, LauncherAt, LauncherReturns
<1>3. CASE ClaimRefused(l) BY <1>3 DEF ClaimRefused, LauncherReturns
<1>4. CASE CheckLaunch(l)
  <2>1. CASE withdrawn BY <1>4, <2>1, LauncherDecidesInv, Literals DEF CheckLaunch
  <2>2. CASE ~withdrawn /\ Occupied BY <1>4, <2>2, LauncherDecidesInv, Literals DEF CheckLaunch
  <2>3. CASE ~withdrawn /\ ~Occupied BY <1>4, <2>3 DEF CheckLaunch, LauncherAt, storeVars
  <2> QED BY <2>1, <2>2, <2>3
<1>5. CASE RecordForking(l)
  <2> DEFINE next == DaemonForking(lrec[l])
  <2>1. PICK out \in WriteOutcomes :
          /\ WriteCas(lrec[l], next, out)
          /\ IF Written(lrec[l], next, out)
               THEN /\ LauncherAt(l, "checked", "forking")
                    /\ lrec' = [lrec EXCEPT ![l] = next]
                    /\ UNCHANGED <<oplock, creation>>
               ELSE LauncherReturns(l) /\ UNCHANGED lrec BY <1>5 DEF RecordForking
  <2>2. next \in Records BY TransitionTypes
  <2>3. /\ rec' \in Records /\ Check(rec') /\ faults' \in Nat
        /\ rec' = rec \/ rec' = next
        /\ Written(lrec[l], next, out) => rec' = next BY <2>1, <2>2, WriteCasFacts
  <2>4. /\ launcher[l] = "checked" /\ rec = lrec[l]
        /\ next.state = "pending" /\ next.retirement = "none"
    BY <1>5 DEF RecordForking, DaemonForking, Records
  <2> QED BY <1>5, <2>1, <2>2, <2>3, <2>4 DEF RecordForking, LauncherAt, LauncherReturns
<1>6. CASE SpawnGatedDaemon(l) BY <1>6 DEF SpawnGatedDaemon, LauncherAt, storeVars, DaemonStates
<1>7. CASE LaunchRefused(l) BY <1>7, LauncherDecidesInv, Literals DEF LaunchRefused
<1>8. CASE RecordDaemon(l)
  <2> DEFINE next == DaemonGated(lrec[l])
  <2>1. PICK out \in WriteOutcomes :
          /\ WriteCas(lrec[l], next, out)
          /\ IF Written(lrec[l], next, out)
               THEN /\ LauncherAt(l, "spawned", "gated")
                    /\ lrec' = [lrec EXCEPT ![l] = next]
                    /\ UNCHANGED <<oplock, creation>>
               ELSE LauncherReturns(l) /\ UNCHANGED lrec BY <1>8 DEF RecordDaemon
  <2>2. next \in Records BY TransitionTypes
  <2>3. /\ rec' \in Records /\ Check(rec') /\ faults' \in Nat
        /\ rec' = rec \/ rec' = next
        /\ Written(lrec[l], next, out) => rec' = next BY <2>1, <2>2, WriteCasFacts
  <2>4. /\ launcher[l] = "spawned" /\ rec = lrec[l]
        /\ next.state = "pending" /\ next.retirement = "none"
    BY <1>8 DEF RecordDaemon, DaemonGated, Records
  <2> QED BY <1>8, <2>1, <2>2, <2>3, <2>4 DEF RecordDaemon, LauncherAt, LauncherReturns
<1>9. CASE HandOver(l) BY <1>9 DEF HandOver, LauncherReturns
<1>10. CASE OpenGate(l) BY <1>10 DEF OpenGate, LauncherAt, storeVars, DaemonStates
<1>11. CASE LauncherEnds(l) BY <1>11 DEF LauncherEnds, LauncherReturns
<1> QED BY <1>1, <1>2, <1>3, <1>4, <1>5, <1>6, <1>7, <1>8, <1>9, <1>10, <1>11
  DEF LauncherStep

(* The actor's decision against the launch keeps them *)
(* (Actor::cancel_before_launch). *)
LEMMA CancelBeforeLaunchInv ==
  ASSUME Inv, Acting({"deciding"}), NEW cause \in Causes, CancelBeforeLaunch(cause)
  PROVE  Inv' /\ ContractStep
<1> USE OperationAssumption
    DEF Inv, TypeOK, WriterOwnsRecord, LockInv, LaunchInv, FreshInv, ActorInv,
        RecoveryInv, ChildInv, OutcomeInv, Acting, HoldingLock, ActorStages,
        DurableEnd, ContractStep, Progress, Stages, Effects, DaemonOnly, launchVars, recoveryVars,
        settleVars, envVars
<1> DEFINE next == Cancelled(drec, cause)
<1>1. PICK out \in WriteOutcomes :
        /\ WriteCas(drec, next, out)
        /\ drec' = drec \/ (drec' = next /\ Written(drec, next, out))
        /\ creation' \in {creation, "free"} BY DEF CancelBeforeLaunch, ReleaseCreation
<1>2. next \in Records BY TransitionTypes
<1>3. /\ rec' \in Records /\ Check(rec') /\ faults' \in Nat
      /\ rec' = rec \/ rec' = next BY <1>1, <1>2, WriteCasFacts
<1>4. rec = drec /\ next.state = "cancelled" BY DEF Cancelled, Records
<1> QED BY <1>1, <1>2, <1>3, <1>4 DEF CancelBeforeLaunch, Abandon, childVars

(* Requesting a retirement keeps them, whatever brought it about *)
(* (Actor::retire). *)
LEMMA RequestRetirementInv ==
  ASSUME Inv, Acting({"starting", "held"}), NEW completed \in BOOLEAN,
         RequestRetirement(completed), recorded' \in BOOLEAN, row' \in Rows,
         child' = child \/ (child' = "gone" /\ completed)
  PROVE  Inv' /\ ContractStep
<1> USE OperationAssumption
    DEF Inv, TypeOK, WriterOwnsRecord, LockInv, LaunchInv, FreshInv, ActorInv,
        RecoveryInv, ChildInv, OutcomeInv, Acting, HoldingLock, ActorStages,
        DurableEnd, ContractStep, Progress, Stages, Effects, DaemonOnly, launchVars, recoveryVars,
        settleVars, envVars
<1> DEFINE next == RetirementRequested(drec, "producer", ActorRequest)
<1>1. PICK out \in WriteOutcomes :
        /\ WriteCas(drec, next, out)
        /\ IF Written(drec, next, out)
             THEN drec' = next /\ retiring' = "requested" /\ UNCHANGED <<stage, oplock>>
             ELSE Abandon /\ UNCHANGED <<drec, retiring>> BY DEF RequestRetirement
<1>2. next \in Records BY TransitionTypes, Literals
<1>3. /\ rec' \in Records /\ Check(rec') /\ faults' \in Nat
      /\ rec' = rec \/ rec' = next
      /\ Written(drec, next, out) => rec' = next BY <1>1, <1>2, WriteCasFacts
<1>4. rec = drec /\ next.state = "launched" /\ next.retirement = "requested"
  BY DEF RetirementRequested, Records
<1> QED BY <1>1, <1>2, <1>3, <1>4 DEF RequestRetirement, Abandon

(* Every step of the daemon's actor keeps them (operation.rs, Actor). *)
LEMMA ActorInvLemma ==
  ASSUME Inv, ActorStep
  PROVE  Inv' /\ ContractStep
<1> USE OperationAssumption
    DEF Inv, TypeOK, WriterOwnsRecord, LockInv, LaunchInv, FreshInv, ActorInv,
        RecoveryInv, ChildInv, OutcomeInv, Acting, HoldingLock, ActorStages,
        DurableEnd, ContractStep, Progress, Stages, Effects, DaemonOnly, launchVars, recoveryVars,
        settleVars, envVars
<1>1. CASE Decide
  <2>1. CASE withdrawn BY <1>1, <2>1, CancelBeforeLaunchInv, Literals DEF Decide
  <2>2. CASE ~withdrawn /\ creation # "daemon" BY <1>1, <2>2, CancelBeforeLaunchInv, Literals DEF Decide
  <2>3. CASE ~withdrawn /\ creation = "daemon" /\ Occupied
    BY <1>1, <2>3, CancelBeforeLaunchInv, Literals DEF Decide
  <2>4. CASE ~withdrawn /\ creation = "daemon" /\ ~Occupied
    <3> DEFINE next == Launched(drec)
    <3>1. PICK out \in WriteOutcomes :
            /\ WriteCas(drec, next, out)
            /\ IF Written(drec, next, out)
                 THEN /\ drec' = next /\ stage' = "starting"
                      /\ effect' = "publish-issued" /\ UNCHANGED oplock
                 ELSE Abandon /\ UNCHANGED <<drec, effect>> BY <1>1, <2>4 DEF Decide
    <3>2. next \in Records BY TransitionTypes
    <3>3. /\ rec' \in Records /\ Check(rec') /\ faults' \in Nat
          /\ rec' = rec \/ rec' = next
          /\ Written(drec, next, out) => rec' = next BY <3>1, <3>2, WriteCasFacts
    <3>4. rec = drec /\ next.state = "launched" /\ next.retirement = drec.retirement
      BY <1>1 DEF Decide, Launched, Records
    <3> QED BY <1>1, <2>4, <3>1, <3>2, <3>3, <3>4
      DEF Decide, Abandon, sessionVars, childVars
  <2> QED BY <2>1, <2>2, <2>3, <2>4
<1>2. CASE KilledBeforeDecision BY <1>2, CancelBeforeLaunchInv, Literals DEF KilledBeforeDecision
<1>3. CASE CommitTicket
  <2>0. published' \in BOOLEAN BY <1>3, Zenon DEF CommitTicket
  <2>1. TypeOK' BY <1>3, <2>0 DEF CommitTicket, storeVars, sessionVars, childVars
  <2> QED BY <1>3, <2>1 DEF CommitTicket, storeVars, sessionVars, childVars
<1>4. CASE Published
  <2> DEFINE next == ChildForking(drec)
  <2>1. CASE retiring # "no" BY <1>4, <2>1 DEF Published, ReleaseCreation, storeVars, childVars
  <2>2. CASE retiring = "no"
    <3>1. PICK out \in WriteOutcomes :
            /\ WriteCas(drec, next, out)
            /\ IF Written(drec, next, out)
                 THEN /\ drec' = next /\ effect' = "fork-issued"
                      /\ UNCHANGED <<oplock, stage>>
                 ELSE Abandon /\ effect' = "none" /\ UNCHANGED drec BY <1>4, <2>2 DEF Published
    <3>2. next \in Records BY TransitionTypes
    <3>3. /\ rec' \in Records /\ Check(rec') /\ faults' \in Nat
          /\ rec' = rec \/ rec' = next
          /\ Written(drec, next, out) => rec' = next BY <3>1, <3>2, WriteCasFacts
    <3>4. rec = drec /\ next.state = drec.state /\ next.retirement = drec.retirement
      BY <1>4 DEF Published, ChildForking, Records
    <3> QED BY <1>4, <3>1, <3>2, <3>3, <3>4
      DEF Published, Abandon, ReleaseCreation, childVars
  <2> QED BY <2>1, <2>2
<1>5. CASE Forked
  <2> DEFINE next == ChildPreparing(drec)
  <2>1. CASE retiring # "no" BY <1>5, <2>1 DEF Forked, storeVars, sessionVars, childVars
  <2>2. CASE retiring = "no"
    <3>1. PICK out \in WriteOutcomes :
            /\ WriteCas(drec, next, out)
            /\ IF Written(drec, next, out)
                 THEN drec' = next /\ effect' = "none" /\ UNCHANGED <<oplock, stage>>
                 ELSE Abandon /\ UNCHANGED <<drec, effect>> BY <1>5, <2>2 DEF Forked
    <3>2. next \in Records BY TransitionTypes
    <3>3. /\ rec' \in Records /\ Check(rec') /\ faults' \in Nat
          /\ rec' = rec \/ rec' = next
          /\ Written(drec, next, out) => rec' = next BY <3>1, <3>2, WriteCasFacts
    <3>4. rec = drec /\ next.state = drec.state /\ next.retirement = drec.retirement
      BY <1>5 DEF Forked, ChildPreparing, Records
    <3> QED BY <1>5, <3>1, <3>2, <3>3, <3>4
      DEF Forked, Abandon, sessionVars, childVars
  <2> QED BY <2>1, <2>2
<1>6. CASE ForkedGone BY <1>6, RequestRetirementInv DEF ForkedGone
<1>7. CASE Retire BY <1>7, RequestRetirementInv DEF Retire
<1>8. CASE EffectFails
  <2>1. row' \in Rows /\ recorded' \in BOOLEAN BY <1>8 DEF EffectFails, Rows
  <2>2. child' = child \/ child' = "gone" BY <1>8 DEF EffectFails
  <2>3. CASE stage = "starting" /\ retiring = "no"
    BY <1>8, <2>1, <2>2, <2>3, RequestRetirementInv DEF EffectFails
  <2>4. CASE ~(stage = "starting" /\ retiring = "no")
    <3>1. /\ effect' = "none" /\ daemon = "running" /\ stage # "deciding"
          /\ UNCHANGED <<storeVars, creation, daemon, stage, retiring, published,
                         verified, drec, gate, acked, execs>>
          /\ UNCHANGED <<launchVars, recoveryVars, settleVars, envVars>> BY <1>8, <2>4 DEF EffectFails
    <3> QED BY <2>1, <2>2, <3>1 DEF storeVars
  <2> QED BY <2>3, <2>4
<1>9. CASE EndChild
  <2>0. verified' \in BOOLEAN BY <1>9, Zenon DEF EndChild
  <2>1. TypeOK' BY <1>9, <2>0 DEF EndChild, InFlight, storeVars, sessionVars
  <2> QED BY <1>9, <2>1 DEF EndChild, InFlight, storeVars, sessionVars
<1>10. CASE Unwind
  <2>0. verified' \in BOOLEAN BY <1>10, Zenon DEF Unwind
  <2>1. TypeOK' BY <1>10, <2>0 DEF Unwind, ReleaseCreation, storeVars, childVars, Rows
  <2> QED BY <1>10, <2>1 DEF Unwind, ReleaseCreation, storeVars, childVars, Rows
<1>11. CASE CompleteRetirement
  <2> DEFINE next == Retired(drec, verified)
  <2>1. PICK out \in WriteOutcomes :
          /\ WriteCas(drec, next, out)
          /\ drec' = IF Written(drec, next, out) THEN next ELSE drec BY <1>11 DEF CompleteRetirement
  <2>2. next \in Records BY TransitionTypes
  <2>3. /\ rec' \in Records /\ Check(rec') /\ faults' \in Nat
        /\ rec' = rec \/ rec' = next
        /\ Written(drec, next, out) => rec' = next BY <2>1, <2>2, WriteCasFacts
  <2>4. rec = drec /\ next.state = "launched" BY <1>11 DEF CompleteRetirement, Retired, Records
  <2> QED BY <1>11, <2>1, <2>2, <2>3, <2>4
    DEF CompleteRetirement, Abandon, sessionVars, childVars
<1>12. CASE HoldChild
  <2> DEFINE next == Held(drec)
  <2>1. PICK out \in WriteOutcomes :
          /\ WriteCas(drec, next, out)
          /\ IF Written(drec, next, out)
               THEN drec' = next /\ stage' = "held" /\ UNCHANGED oplock
               ELSE Abandon /\ UNCHANGED drec BY <1>12 DEF HoldChild
  <2>2. next \in Records BY TransitionTypes
  <2>3. /\ rec' \in Records /\ Check(rec') /\ faults' \in Nat
        /\ rec' = rec \/ rec' = next
        /\ Written(drec, next, out) => rec' = next BY <2>1, <2>2, WriteCasFacts
  <2>4. rec = drec /\ next.state = "launched" /\ next.retirement = drec.retirement
    BY <1>12 DEF HoldChild, Held, Records
  <2> QED BY <1>12, <2>1, <2>2, <2>3, <2>4
    DEF HoldChild, Abandon, sessionVars, childVars
<1>13. CASE CommitTransfer
  <2> DEFINE next == Committed(drec)
  <2>1. PICK out \in WriteOutcomes :
          /\ WriteCas(drec, next, out)
          /\ IF Written(drec, next, out)
               THEN drec' = next /\ stage' = "releasing" /\ UNCHANGED oplock
               ELSE Abandon /\ UNCHANGED drec BY <1>13 DEF CommitTransfer
  <2>2. next \in Records BY TransitionTypes
  <2>3. /\ rec' \in Records /\ Check(rec') /\ faults' \in Nat
        /\ rec' = rec \/ rec' = next
        /\ Written(drec, next, out) => rec' = next BY <2>1, <2>2, WriteCasFacts
  <2>4. rec = drec /\ next.state = "transferred" BY <1>13 DEF CommitTransfer, Committed, Records
  <2> QED BY <1>13, <2>1, <2>2, <2>3, <2>4
    DEF CommitTransfer, Abandon, sessionVars, childVars
<1>14. CASE ReleaseTransfer
  <2>1. TypeOK' BY <1>14 DEF ReleaseTransfer, ChildLives, storeVars, sessionVars
  <2> QED BY <1>14, <2>1 DEF ReleaseTransfer, ChildLives, storeVars, sessionVars
<1>15. CASE FinishTransfer
  <2> DEFINE next == Released(drec, gate = "released")
  <2>1. PICK out \in WriteOutcomes :
          /\ WriteCas(drec, next, out)
          /\ drec' = IF Written(drec, next, out) THEN next ELSE drec BY <1>15 DEF FinishTransfer
  <2>2. next \in Records BY TransitionTypes
  <2>3. /\ rec' \in Records /\ Check(rec') /\ faults' \in Nat
        /\ rec' = rec \/ rec' = next
        /\ Written(drec, next, out) => rec' = next BY <2>1, <2>2, WriteCasFacts
  <2>4. rec = drec /\ next.state = "transferred" BY <1>15 DEF FinishTransfer, Released, Records
  <2> QED BY <1>15, <2>1, <2>2, <2>3, <2>4
    DEF FinishTransfer, Abandon, sessionVars, childVars
<1> QED BY <1>1, <1>2, <1>3, <1>4, <1>5, <1>6, <1>7, <1>8, <1>9, <1>10, <1>11, <1>12,
     <1>13, <1>14, <1>15
  DEF ActorStep

(* And every step of the daemon: its gate, its worker's effects, its end *)
(* (operation.rs, main and Worker::run). *)
LEMMA DaemonInv ==
  ASSUME Inv, DaemonStep
  PROVE  Inv' /\ ContractStep
<1> USE OperationAssumption
    DEF Inv, TypeOK, WriterOwnsRecord, LockInv, LaunchInv, FreshInv, ActorInv,
        RecoveryInv, ChildInv, OutcomeInv, Acting, HoldingLock, ActorStages,
        DurableEnd, ContractStep, Progress, DaemonOnly, launchVars, recoveryVars, settleVars, envVars,
        DaemonStates
<1>1. CASE GateClosed BY <1>1 DEF GateClosed, DaemonEnds, sessionVars, actorVars
<1>2. CASE DaemonStarts
  <2>1. rec.retirement # "verified" BY <1>2 DEF DaemonStarts, Check, CheckState
  <2> QED BY <1>2, <2>1 DEF DaemonStarts, LockFree, sessionVars, childVars
<1>3. CASE DaemonRefuses BY <1>3 DEF DaemonRefuses, DaemonEnds, sessionVars, actorVars
<1>4. CASE ActorStep BY <1>4, ActorInvLemma
<1>5. CASE Publish BY <1>5 DEF Publish, storeVars, childVars, Rows, Effects
<1>6. CASE ForkHeld BY <1>6 DEF ForkHeld, storeVars, sessionVars, Effects
<1>7. CASE DaemonExits BY <1>7 DEF DaemonExits, DaemonEnds, sessionVars, actorVars
<1> QED BY <1>1, <1>2, <1>3, <1>4, <1>5, <1>6, <1>7 DEF DaemonStep

(* Every step of the held child keeps them: it runs at most once, and only *)
(* behind a released gate (held.rs, held_child). *)
LEMMA ChildStepInv ==
  ASSUME Inv, ChildStep
  PROVE  Inv' /\ ContractStep
<1> USE OperationAssumption
    DEF Inv, TypeOK, WriterOwnsRecord, LockInv, LaunchInv, FreshInv, ActorInv,
        RecoveryInv, ChildInv, OutcomeInv, Acting, HoldingLock, ActorStages,
        DurableEnd, ContractStep, Progress, ChildOnly, storeVars, launchVars, sessionVars, actorVars,
        recoveryVars, settleVars, envVars
<1>1. CASE ChildPrepares BY <1>1 DEF ChildPrepares
<1>2. CASE ChildExecs BY <1>2 DEF ChildExecs
<1>3. CASE ChildLeaves BY <1>3 DEF ChildLeaves
<1>4. CASE ChildDies BY <1>4 DEF ChildDies, ChildLives
<1> QED BY <1>1, <1>2, <1>3, <1>4 DEF ChildStep

(* Every step of `pty operation retire` keeps them (settle.rs, retire). *)
LEMMA RecoveryStepInv ==
  ASSUME Inv, RecoveryStep
  PROVE  Inv' /\ ContractStep
<1> USE OperationAssumption
    DEF Inv, TypeOK, WriterOwnsRecord, LockInv, LaunchInv, FreshInv, ActorInv,
        RecoveryInv, ChildInv, OutcomeInv, Acting, HoldingLock, ActorStages,
        DurableEnd, ContractStep, Progress, RecoveryOnly, launchVars, actorVars, settleVars, envVars,
        RecoverySteps
<1>1. ASSUME NEW q \in Requests, TakeAuthority(q)
      PROVE  Inv' /\ ContractStep
  <2> DEFINE next == RetirementRequested(rec, "recovery", q)
  <2>1. PICK out \in WriteOutcomes :
          /\ WriteCas(rec, next, out)
          /\ IF Written(rec, next, out)
               THEN /\ oplock' = q /\ rpc' = "requested" /\ rreq' = q
                    /\ rrec' = next /\ rok' = TRUE
               ELSE UNCHANGED <<oplock, rpc, rreq, rrec, rok>> BY <1>1 DEF TakeAuthority
  <2>2. next \in Records BY TransitionTypes, Literals
  <2>3. /\ rec' \in Records /\ Check(rec') /\ faults' \in Nat
        /\ rec' = rec \/ rec' = next
        /\ Written(rec, next, out) => rec' = next BY <2>1, <2>2, WriteCasFacts
  <2>4. /\ rec.state \in {"reserved", "pending", "launched"}
        /\ rec.retirement # "verified" BY <1>1 DEF TakeAuthority, Retirable, Records, States
  <2>5. next.state = rec.state /\ next.retirement = "requested" BY DEF RetirementRequested, Records
  <2>6. rok' \in BOOLEAN BY <2>1, Zenon
  <2> QED BY <1>1, <2>1, <2>2, <2>3, <2>4, <2>5, <2>6
    DEF TakeAuthority, LockFree, sessionVars, childVars
<1>2. CASE KillRecorded
  <2>1. rok' \in BOOLEAN BY <1>2, Zenon DEF KillRecorded
  <2> QED BY <1>2, <2>1 DEF KillRecorded, ChildLives, storeVars, sessionVars
<1>3. CASE UnwindRow
  <2>1. rok' \in BOOLEAN BY <1>3, Zenon DEF UnwindRow
  <2>2. row' \in Rows /\ creation' \in Launchers \cup {"free", "daemon"}
    BY <1>3 DEF UnwindRow, sessionVars, Rows
  <2> QED BY <1>3, <2>1, <2>2 DEF UnwindRow, storeVars, childVars
<1>4. CASE FinishRecovery
  <2> DEFINE next == RecoveryTerminal(rrec, rok)
  <2>1. PICK out \in WriteOutcomes : WriteCas(rrec, next, out) BY <1>4 DEF FinishRecovery
  <2>2. next \in Records BY RecoveryTerminalType
  <2>3. /\ rec' \in Records /\ Check(rec') /\ faults' \in Nat
        /\ rec' = rec \/ rec' = next BY <2>1, <2>2, WriteCasFacts
  <2>4. rpc # "idle" /\ rec = rrec BY <1>4 DEF FinishRecovery
  <2>5. next.state = IF rrec.state = "launched" THEN "launched" ELSE "cancelled"
    BY <2>4 DEF RecoveryTerminal, Retired, Cancelled, Records
  <2> QED BY <1>4, <2>2, <2>3, <2>4, <2>5 DEF FinishRecovery, sessionVars, childVars
<1> QED BY <1>1, <1>2, <1>3, <1>4 DEF RecoveryStep

(* Every step of `pty operation settle` keeps them: it answers *)
(* noFurtherEffects only for a final record (settle.rs, settle). *)
LEMMA SettleStepInv ==
  ASSUME Inv, SettleStep
  PROVE  Inv' /\ ContractStep
<1> USE OperationAssumption
    DEF Inv, TypeOK, WriterOwnsRecord, LockInv, LaunchInv, FreshInv, ActorInv,
        RecoveryInv, ChildInv, OutcomeInv, Acting, HoldingLock, ActorStages,
        DurableEnd, ContractStep, Progress, SettleOnly, storeVars, launchVars, sessionVars, actorVars,
        childVars, recoveryVars, envVars
<1>1. CASE SettleReadsRecord BY <1>1 DEF SettleReadsRecord, LockFree
<1>2. CASE SettleReadsTable BY <1>2 DEF SettleReadsTable
<1>3. CASE SettleScansArgv BY <1>3 DEF SettleScansArgv
<1>4. CASE SettleReadsRegistry
  <2>1. closed' \in BOOLEAN /\ sok' \in BOOLEAN BY <1>4, Zenon DEF SettleReadsRegistry
  <2>2. srec' \in Records BY <1>4, TransitionTypes DEF SettleReadsRegistry
  <2>3. (closed => closed') /\ (closed' => closed \/ DurableEnd(srec))
    BY <1>4, Zenon DEF SettleReadsRegistry
  <2>4. spc' = "idle" /\ spc # "idle" /\ SettleOnly BY <1>4 DEF SettleReadsRegistry
  <2> QED BY <2>1, <2>2, <2>3, <2>4
<1> QED BY <1>1, <1>2, <1>3, <1>4 DEF SettleStep

(* Another session, the owner and any process death keep them. *)
LEMMA WorldInv ==
  ASSUME Inv, OtherSession \/ OwnerWithdraws \/ Crash
  PROVE  Inv' /\ ContractStep
<1> USE OperationAssumption
    DEF Inv, TypeOK, WriterOwnsRecord, LockInv, LaunchInv, FreshInv, ActorInv,
        RecoveryInv, ChildInv, OutcomeInv, Acting, HoldingLock, ActorStages,
        DurableEnd, ContractStep, Progress, launchVars, sessionVars, actorVars, recoveryVars, settleVars,
        envVars
<1>1. CASE OtherSession BY <1>1 DEF OtherSession, storeVars, childVars, Rows
<1>2. CASE OwnerWithdraws BY <1>2 DEF OwnerWithdraws, storeVars, childVars
<1>3. CASE Crash
  <2>1. ASSUME NEW l \in Launchers, LauncherDies(l)
        PROVE  Inv' /\ ContractStep
    BY <1>3, <2>1 DEF Crash, LauncherDies, LauncherLives, LauncherStates, childVars
  <2>2. CASE DaemonDies BY <1>3, <2>2 DEF Crash, DaemonDies, DaemonLives, DaemonEnds, DaemonStates
  <2>3. CASE RecoveryDies BY <1>3, <2>3 DEF Crash, RecoveryDies, RecoverySteps, childVars
  <2> QED BY <1>3, <2>1, <2>2, <2>3 DEF Crash
<1> QED BY <1>1, <1>2, <1>3

(* A step that changes nothing keeps them. *)
LEMMA StutterInv ==
  ASSUME Inv, UNCHANGED vars
  PROVE  Inv' /\ ContractStep
BY DEF Inv, TypeOK, WriterOwnsRecord, LockInv, LaunchInv, FreshInv, ActorInv,
       RecoveryInv, ChildInv, OutcomeInv, Acting, DurableEnd, ContractStep,
       vars, storeVars,
       launchVars, sessionVars, actorVars, childVars, recoveryVars, settleVars,
       envVars

(* Every step keeps the invariant and is one the contract allows. *)
LEMMA NextInv ==
  ASSUME Inv, [Next]_vars
  PROVE  Inv' /\ ContractStep
BY LauncherInv, DaemonInv, ChildStepInv, RecoveryStepInv, SettleStepInv,
   WorldInv, StutterInv DEF Next

(* The inductive invariant holds of every behaviour. *)
THEOREM Invariance == Safe => []Inv
<1>1. Inv /\ [Next]_vars => Inv' BY NextInv
<1> QED BY <1>1, InitInv, PTL DEF Safe

(* Every variable keeps its type in every behaviour. *)
THEOREM TypeCorrect == Safe => []TypeOK
<1>1. Inv => TypeOK BY DEF Inv
<1> QED BY <1>1, Invariance, PTL

(* The operation's command runs only after the transfer is durable, for *)
(* any number of crashes, failed writes, launchers and retires. *)
THEOREM CommandAfterTransfer == Safe => []CommandOnlyAfterTransfer
<1>1. Inv => CommandOnlyAfterTransfer BY DEF Inv, ChildInv, CommandOnlyAfterTransfer
<1> QED BY <1>1, Invariance, PTL

(* Whoever holds the operation lock knows the record on disk. *)
THEOREM SingleWriter == Safe => []WriterOwnsRecord
<1>1. Inv => WriterOwnsRecord BY DEF Inv
<1> QED BY <1>1, Invariance, PTL

(* A final record is never rewritten and a transfer never taken back. *)
THEOREM Final == Safe => DecisionsAreFinal
<1>1. Inv /\ [Next]_vars =>
        [/\ DurableEnd(rec) => rec' = rec
         /\ rec.state = "transferred" => rec'.state = "transferred"]_vars
  <2> SUFFICES ASSUME Inv, [Next]_vars
               PROVE  /\ DurableEnd(rec) => rec' = rec
                      /\ rec.state = "transferred" => rec'.state = "transferred" OBVIOUS
  <2> QED BY NextInv DEF ContractStep, Progress, DurableEnd
<1> QED BY <1>1, Invariance, PTL DEF Safe, DecisionsAreFinal

(* The operation, crashes and failed writes included, implements the *)
(* contract its owner relies on. *)
THEOREM Implements == Safe => KeepsContract
<1>1. Init => Contract!Init BY DEF Init, Contract!Init, Outcome, Reserved
<1>2. Inv /\ [Next]_vars => [Contract!Next]_(Contract!vars)
  <2> SUFFICES ASSUME Inv, [Next]_vars
               PROVE  Contract!Next \/ UNCHANGED Contract!vars BY DEF Contract!vars
  <2> USE DEF Contract!Next, Contract!vars, Outcome
  <2>1. ContractStep /\ closed \in BOOLEAN /\ closed' \in BOOLEAN BY NextInv DEF Inv, TypeOK
  <2>2. CASE rec' # rec BY <2>1, <2>2 DEF ContractStep, Progress, Contract!Decide, Contract!Conclude
  <2>3. CASE rec' = rec /\ execs' # execs BY <2>1, <2>3 DEF ContractStep, Contract!Run
  <2>4. CASE rec' = rec /\ execs' = execs /\ closed' # closed
    BY <2>1, <2>4 DEF ContractStep, DurableEnd, Contract!Close
  <2>5. CASE rec' = rec /\ execs' = execs /\ closed' = closed BY <2>5
  <2> QED BY <2>2, <2>3, <2>4, <2>5
<1> QED BY <1>1, <1>2, Invariance, PTL DEF Safe, KeepsContract, Contract!Spec

----------------------------------------------------------------------------
(* Endings: a second inductive invariant, on top of the first. *)

(* The daemon that runs is the one the record names, and no launcher that *)
(* has yet to record its daemon meets one. *)
ProducerInv ==
  /\ rec.phase \notin {"reserved", "claimed", "daemon-forking"} => rec.producer
  /\ daemon = "running" => rec.producer
  /\ \A l \in Launchers :
       launcher[l] \in {"claimed", "checked", "forking", "spawned"} => ~rec.producer

(* Nothing is published before the launch is decided, and what is *)
(* published, or about to be, is known to be. *)
PublishedInv ==
  /\ row = "mine" => published
  /\ effect \notin {"none", "publish-issued"} => published
  /\ row = "mine" \/ effect # "none" => rec.state \in {"launched", "transferred"}

(* A live child is the actor's or on its way to it, and the end of the *)
(* daemon shuts a gate that nobody opened. *)
ForkedInv ==
  /\ ChildLives => recorded \/ effect = "fork-done"
  /\ ChildLives /\ ~DaemonLives => gate # "open"

(* How far a retirement by the actor is, and what it has made sure of. *)
RetiringInv ==
  /\ retiring # "no" => stage \in {"starting", "held", "ending"}
  /\ retiring \in {"child-ended", "unwound"} =>
       /\ effect = "none"
       /\ ChildLives => gate = "shut"
  /\ retiring = "unwound" /\ verified => row # "mine"

(* The same for recovery: it began after the daemon the record names ended. *)
RecoveringInv ==
  rpc # "idle" =>
    /\ rrec.producer => ~DaemonLives
    /\ rpc \in {"killed", "unwound"} => rrec.state = "launched"
    /\ rpc = "unwound" /\ rok => row # "mine"

(* What settle's argv scan saw is still so when it reads the registry, and *)
(* after it has answered. *)
SettledInv ==
  /\ spc = "registry" /\ sok => ~DaemonLives /\ child \notin {"preparing", "held"}
  /\ closed => ~DaemonLives /\ ~ChildLives

EndInv ==
  /\ ProducerInv /\ PublishedInv /\ ForkedInv /\ RetiringInv /\ RecoveringInv
  /\ SettledInv /\ VerifiedMeansUnwound

EffectInv == PublishedInv /\ ForkedInv /\ RetiringInv /\ VerifiedMeansUnwound

(* The actor's last write of a retirement it has verified. *)
Completes ==
  /\ Acting({"starting", "held"}) /\ retiring = "unwound" /\ verified
  /\ UNCHANGED <<row, daemon, effect, child, gate>>

(* A launch that was decided stays decided (OperationRecord::check). *)
LEMMA StaysLaunched ==
  ASSUME ContractStep, rec.state \in {"launched", "transferred"}
  PROVE  rec'.state \in {"launched", "transferred"}
BY DEF ContractStep, Progress

(* What the launcher's writes do to the fields the endings depend on. *)
LEMMA LauncherWrites ==
  ASSUME NEW r \in Records
  PROVE  /\ \A l \in Launchers :
              /\ Claimed(r, l).phase = "claimed" /\ Claimed(r, l).producer = r.producer
              /\ Claimed(r, l).retirement = r.retirement
         /\ \A c \in Causes :
              /\ Cancelled(r, c).phase = r.phase /\ Cancelled(r, c).producer = r.producer
              /\ Cancelled(r, c).retirement = r.retirement
         /\ DaemonForking(r).phase = "daemon-forking"
         /\ DaemonForking(r).producer = r.producer
         /\ DaemonForking(r).retirement = r.retirement
         /\ DaemonGated(r).producer /\ DaemonGated(r).retirement = r.retirement
BY DEF Records, Claimed, Cancelled, DaemonForking, DaemonGated

(* A step of a launcher keeps what makes the endings true *)
(* (run_operation.rs). *)
LEMMA LauncherEndInv ==
  ASSUME Inv, EndInv, Inv', ContractStep, NEW l \in Launchers, LauncherStep(l)
  PROVE  EndInv'
<1> USE OperationAssumption
<1>1. /\ UNCHANGED <<row, effect, retiring, published, verified, recorded, child, gate,
                     rpc, rrec, rok, spc, sok, closed, stage>>
  BY DEF LauncherStep, TakeSessionLocks, Claim, ClaimRefused, CheckLaunch, LauncherDecides,
         RecordForking, SpawnGatedDaemon, LaunchRefused, RecordDaemon, HandOver, OpenGate,
         LauncherEnds, LauncherOnly, actorVars, childVars, recoveryVars, settleVars
<1>2. /\ daemon' = daemon \/ daemon' \in {"gated", "opened", "dead"}
      /\ DaemonLives' => DaemonLives \/ launcher[l] = "forking"
      /\ DaemonLives /\ ~DaemonLives' => launcher[l] = "spawned"
  BY DEF LauncherStep, TakeSessionLocks, Claim, ClaimRefused, CheckLaunch, LauncherDecides,
         RecordForking, SpawnGatedDaemon, LaunchRefused, RecordDaemon, HandOver, OpenGate,
         LauncherEnds, LauncherAt, DaemonLives
<1>3. ASSUME NEW c \in Causes, launcher[l] \in HoldingLock, LauncherDecides(l, c)
      PROVE  /\ rec' = rec \/ (rec = lrec[l] /\ rec' = Cancelled(rec, c))
             /\ launcher' = [launcher EXCEPT ![l] = "done"]
  BY <1>3 DEF LauncherDecides, WriteCas, Admissible, LauncherReturns
<1> DEFINE Unrecorded == {"claimed", "checked", "forking", "spawned"}
<1>4. /\ rec' = rec
         \/ /\ rec.state = "reserved" /\ rec' = Claimed(rec, l) /\ oplock = "free"
         \/ /\ oplock = l
            /\ \/ \E c \in Causes : rec' = Cancelled(rec, c)
               \/ rec' = DaemonForking(rec)
               \/ rec' = DaemonGated(rec) /\ launcher'[l] \notin Unrecorded
      /\ \A k \in Launchers \ {l} : launcher'[k] = launcher[k]
      /\ launcher'[l] \in Unrecorded => launcher[l] \in Unrecorded \/ rec.state = "reserved"
  <2> USE DEF WriteCas, Admissible, LauncherAt, LauncherReturns, Inv, TypeOK, LockInv,
              WriterOwnsRecord, HoldingLock
  <2>1. CASE TakeSessionLocks(l) BY <2>1 DEF TakeSessionLocks, storeVars
  <2>2. CASE Claim(l) BY <2>2 DEF Claim, Claimable, LockFree
  <2>3. CASE ClaimRefused(l) BY <2>3 DEF ClaimRefused
  <2>4. CASE CheckLaunch(l) BY <2>4, <1>3, Literals DEF CheckLaunch, storeVars
  <2>5. CASE RecordForking(l) BY <2>5 DEF RecordForking
  <2>6. CASE SpawnGatedDaemon(l) BY <2>6 DEF SpawnGatedDaemon, storeVars
  <2>7. CASE LaunchRefused(l) BY <2>7, <1>3, Literals DEF LaunchRefused
  <2>8. CASE RecordDaemon(l) BY <2>8 DEF RecordDaemon
  <2>9. CASE HandOver(l) BY <2>9 DEF HandOver
  <2>10. CASE OpenGate(l) BY <2>10 DEF OpenGate, storeVars
  <2>11. CASE LauncherEnds(l) BY <2>11 DEF LauncherEnds
  <2> QED BY <2>1, <2>2, <2>3, <2>4, <2>5, <2>6, <2>7, <2>8, <2>9, <2>10, <2>11 DEF LauncherStep
<1>5. /\ rec'.retirement = rec.retirement
      /\ rec.producer => rec'.producer
      /\ rec'.phase \notin {"reserved", "claimed", "daemon-forking"} => rec'.producer
      /\ \A k \in Launchers : launcher'[k] \in Unrecorded => ~rec'.producer BY SMTT(60), <1>4, LauncherWrites
  DEF EndInv, ProducerInv, Inv, TypeOK, LockInv, HoldingLock, Check, CheckState
<1>6. rec.state \in {"launched", "transferred"} => rec'.state \in {"launched", "transferred"}
  BY StaysLaunched
<1>7. ProducerInv' BY <1>2, <1>5 DEF EndInv, ProducerInv
<1>8. PublishedInv' BY <1>1, <1>6 DEF EndInv, PublishedInv
<1>9. ForkedInv'
  BY <1>1, <1>2 DEF EndInv, ForkedInv, ProducerInv, ChildLives, DaemonLives, Inv, FreshInv,
                    TypeOK, DaemonStates
<1>10. RetiringInv' BY <1>1 DEF EndInv, RetiringInv, ChildLives
<1>11. RecoveringInv' BY <1>1, <1>2 DEF EndInv, RecoveringInv, Inv, LockInv, HoldingLock
<1>12. SettledInv'
  BY <1>1, <1>2 DEF EndInv, SettledInv, ChildLives, Inv, LockInv, LaunchInv, HoldingLock,
                    OutcomeInv, DurableEnd, WriterOwnsRecord
<1>13. VerifiedMeansUnwound' BY <1>1, <1>2, <1>5 DEF EndInv, VerifiedMeansUnwound, InFlight, ChildLives
<1> QED BY <1>7, <1>8, <1>9, <1>10, <1>11, <1>12, <1>13 DEF EndInv

(* What the actor's writes do to the fields the endings depend on. *)
LEMMA ActorWrites ==
  ASSUME NEW r \in Records
  PROVE  /\ \A c \in Causes :
              Cancelled(r, c).producer = r.producer /\ Cancelled(r, c).retirement = r.retirement
         /\ Launched(r).producer = r.producer /\ Launched(r).retirement = r.retirement
         /\ ChildForking(r).producer = r.producer /\ ChildForking(r).retirement = r.retirement
         /\ ChildPreparing(r).producer = r.producer
         /\ ChildPreparing(r).retirement = r.retirement
         /\ Held(r).producer = r.producer /\ Held(r).retirement = r.retirement
         /\ Committed(r).producer = r.producer /\ Committed(r).retirement = r.retirement
         /\ \A ok \in BOOLEAN :
              /\ Released(r, ok).producer = r.producer
              /\ Released(r, ok).retirement = r.retirement
              /\ Retired(r, ok).producer = r.producer
              /\ Retired(r, ok).retirement = "verified" => ok
         /\ LET q == RetirementRequested(r, "producer", ActorRequest)
            IN  q.producer = r.producer /\ q.retirement = "requested"
BY DEF Records, Cancelled, Launched, ChildForking, ChildPreparing, Held, Committed, Released,
       RetirementRequested, Retired

(* The daemon writes the record only as the producer it names, and only *)
(* its last write, after the unwinding, says `verified` *)
(* (Actor::complete_retirement). *)
LEMMA DaemonRecord ==
  ASSUME Inv, DaemonStep
  PROVE  /\ rec' = rec \/ (oplock = "daemon" /\ rec'.producer = rec.producer)
         /\ rec'.retirement = "verified" =>
              rec.retirement = "verified" \/ Completes
<1> DEFINE Good == /\ rec' = rec \/ (oplock = "daemon" /\ rec'.producer = rec.producer)
                   /\ rec'.retirement = "verified" =>
                        rec.retirement = "verified" \/ Completes
<1>1. ASSUME NEW s \in SUBSET ActorStages, Acting(s)
      PROVE  rec = drec /\ oplock = "daemon" /\ drec \in Records
  BY <1>1 DEF Inv, TypeOK, LockInv, WriterOwnsRecord, Acting
<1>2. ASSUME NEW c \in Causes, Acting({"deciding"}), CancelBeforeLaunch(c)
      PROVE  Good BY <1>2, <1>1, ActorWrites DEF CancelBeforeLaunch, WriteCas, Admissible, ActorStages
<1>3. ASSUME NEW completed \in BOOLEAN, Acting({"starting", "held"}), RequestRetirement(completed)
      PROVE  Good BY <1>3, <1>1, ActorWrites DEF RequestRetirement, WriteCas, Admissible, ActorStages
<1> USE DEF WriteCas, Admissible, ActorStages
<1>4. CASE GateClosed \/ DaemonStarts \/ DaemonRefuses \/ CommitTicket \/ Publish \/ ForkHeld
           \/ EndChild \/ Unwind \/ ReleaseTransfer \/ DaemonExits
  BY <1>4 DEF GateClosed, DaemonStarts, DaemonRefuses, CommitTicket, Publish, ForkHeld, EndChild,
              Unwind, ReleaseTransfer, DaemonExits, storeVars
<1>5. CASE Decide BY <1>5, <1>1, <1>2, ActorWrites, Literals DEF Decide
<1>6. CASE KilledBeforeDecision BY <1>6, <1>2, Literals DEF KilledBeforeDecision
<1>7. CASE Published BY <1>7, <1>1, ActorWrites DEF Published, storeVars
<1>8. CASE Forked BY <1>8, <1>1, ActorWrites DEF Forked, storeVars
<1>9. CASE Retire BY <1>9, <1>3 DEF Retire
<1>10. CASE ForkedGone BY <1>10, <1>3 DEF ForkedGone, Acting
<1>11. CASE EffectFails BY <1>11, <1>3 DEF EffectFails, Acting, storeVars
<1>12. CASE CompleteRetirement
  <2>1. rec = drec /\ oplock = "daemon" /\ drec \in Records BY <1>12, <1>1 DEF CompleteRetirement
  <2>2. rec' = rec \/ rec' = Retired(drec, verified) BY <1>12 DEF CompleteRetirement
  <2>3. verified \in BOOLEAN BY DEF Inv, TypeOK
  <2>4. /\ Retired(drec, verified).producer = drec.producer
        /\ Retired(drec, verified).retirement = "verified" => verified BY <2>1, <2>3, ActorWrites, Zenon
  <2> QED BY <1>12, <2>1, <2>2, <2>4, Zenon DEF CompleteRetirement, Completes, sessionVars, childVars
<1>13. CASE HoldChild BY <1>13, <1>1, ActorWrites DEF HoldChild
<1>14. CASE CommitTransfer BY <1>14, <1>1, ActorWrites DEF CommitTransfer
<1>15. CASE FinishTransfer
  <2>1. rec = drec /\ oplock = "daemon" /\ drec \in Records BY <1>15, <1>1 DEF FinishTransfer
  <2>2. rec' = rec \/ rec' = Released(drec, gate = "released") BY <1>15 DEF FinishTransfer
  <2>3. /\ Released(drec, gate = "released").producer = drec.producer
        /\ Released(drec, gate = "released").retirement = drec.retirement BY <2>1, ActorWrites, Zenon
  <2> QED BY <2>1, <2>2, <2>3
<1> QED BY <1>4, <1>5, <1>6, <1>7, <1>8, <1>9, <1>10, <1>11, <1>12, <1>13, <1>14, <1>15
  DEF DaemonStep, ActorStep

(* What a step of the daemon leaves alone, and that only a live one steps. *)
LEMMA DaemonFrame ==
  ASSUME DaemonStep
  PROVE  /\ DaemonLives
         /\ UNCHANGED <<launcher, rpc, rrec, rok, spc, sok, closed>>
         /\ daemon' \in {daemon, "running", "dead"}
         /\ daemon' = "running" => daemon = "running" \/ rec.phase = "daemon-gated"
         /\ daemon' = "dead" /\ gate = "open" => gate' = "shut"
         /\ daemon = "running" \/ UNCHANGED <<row, effect, retiring, published, recorded, child>>
<1> USE DEF DaemonLives, DaemonOnly, launchVars, recoveryVars, settleVars, DaemonEnds, Acting,
            sessionVars, actorVars, childVars
<1>1. CASE GateClosed \/ DaemonStarts \/ DaemonRefuses \/ Publish \/ ForkHeld \/ DaemonExits
  BY <1>1 DEF GateClosed, DaemonStarts, DaemonRefuses, Publish, ForkHeld, DaemonExits
<1>2. CASE Decide \/ KilledBeforeDecision BY <1>2 DEF Decide, KilledBeforeDecision, CancelBeforeLaunch
<1>3. CASE CommitTicket \/ Published \/ Forked BY <1>3 DEF CommitTicket, Published, Forked
<1>4. CASE ForkedGone \/ Retire \/ EffectFails
  BY <1>4 DEF ForkedGone, Retire, EffectFails, RequestRetirement
<1>5. CASE EndChild \/ Unwind \/ CompleteRetirement BY <1>5 DEF EndChild, Unwind, CompleteRetirement
<1>6. CASE HoldChild \/ CommitTransfer \/ ReleaseTransfer \/ FinishTransfer
  BY <1>6 DEF HoldChild, CommitTransfer, ReleaseTransfer, FinishTransfer
<1> QED BY <1>1, <1>2, <1>3, <1>4, <1>5, <1>6 DEF DaemonStep, ActorStep

(* The daemon's effects, and what a retirement by its actor has made sure *)
(* of: one case per action (operation.rs). *)
LEMMA DaemonEffectInv ==
  ASSUME Inv, EndInv, Inv', ContractStep, DaemonStep
  PROVE  EffectInv'
<1>1. /\ rec.state \in {"launched", "transferred"} => rec'.state \in {"launched", "transferred"}
      /\ rec'.retirement = "verified" =>
           rec.retirement = "verified" \/ Completes
      /\ daemon' = "dead" /\ gate = "open" => gate' = "shut"
      /\ daemon' \in {daemon, "running", "dead"}
      /\ DaemonLives BY StaysLaunched, DaemonRecord, DaemonFrame
<1>2. /\ PublishedInv /\ ForkedInv /\ RetiringInv /\ VerifiedMeansUnwound
      /\ effect \in {"publish-issued", "publish", "publish-done", "fork-issued", "fork"} =>
           child = "none"
      /\ retiring # "no" => effect \notin {"publish-issued", "fork-issued"}
      /\ daemon \in {"none", "gated", "opened"} =>
           effect = "none" /\ retiring = "no" /\ child = "none"
      /\ daemon = "running" /\ stage = "deciding" =>
           effect = "none" /\ child = "none" /\ retiring = "no"
  BY DEF EndInv, Inv, ChildInv, FreshInv, ActorInv
<1>3. ASSUME NEW s \in SUBSET ActorStages, Acting(s)
      PROVE  rec = drec BY <1>3 DEF Inv, TypeOK, LockInv, WriterOwnsRecord, Acting
<1>4. daemon = "running" /\ stage \in {"starting", "held"} =>
        rec.state = "launched" /\ rec.retirement # "verified"
  BY <1>3 DEF Inv, ActorInv, Acting, ActorStages
<1>5. daemon = "running" /\ stage \in {"releasing", "finishing"} =>
        rec.state = "transferred" /\ rec.retirement = "none"
  BY <1>3 DEF Inv, ActorInv, Acting, ActorStages, Check, CheckState
<1> USE DEF Completes, EffectInv, PublishedInv, ForkedInv, RetiringInv, VerifiedMeansUnwound,
            InFlight, ChildLives, DaemonLives, Acting, DaemonEnds, sessionVars, actorVars,
            childVars, storeVars
<1>6. CASE GateClosed BY <1>6, <1>1, <1>2 DEF GateClosed
<1>7. CASE DaemonStarts BY <1>7, <1>1, <1>2 DEF DaemonStarts
<1>8. CASE DaemonRefuses BY <1>8, <1>1, <1>2 DEF DaemonRefuses
<1>9. CASE Publish BY <1>9, <1>1, <1>2 DEF Publish
<1>10. CASE ForkHeld BY <1>10, <1>1, <1>2 DEF ForkHeld
<1>11. CASE DaemonExits BY <1>11, <1>1, <1>2 DEF DaemonExits
<1>12. CASE Decide \/ KilledBeforeDecision
  <2>0. Launched(drec).state = "launched" BY DEF Inv, TypeOK, Launched, Records
  <2>1. /\ UNCHANGED <<row, daemon, published, verified, recorded, child, gate, retiring>>
        /\ effect' = effect \/ (effect' = "publish-issued" /\ rec'.state = "launched")
        /\ stage = "deciding" /\ daemon = "running"
    BY <1>12, <2>0 DEF Decide, KilledBeforeDecision, CancelBeforeLaunch, WriteCas, Written
  <2> QED BY <2>1, <1>1, <1>2, <1>12
<1>13. CASE CommitTicket BY <1>13, <1>1, <1>2, <1>4 DEF CommitTicket
<1>14. CASE Published BY <1>14, <1>1, <1>2, <1>4 DEF Published, Abandon
<1>15. CASE Forked BY <1>15, <1>1, <1>2, <1>4 DEF Forked, Abandon
<1>16. CASE ForkedGone BY <1>16, <1>1, <1>2, <1>4 DEF ForkedGone, RequestRetirement, Abandon
<1>17. CASE Retire BY <1>17, <1>1, <1>2, <1>4 DEF Retire, RequestRetirement, Abandon
<1>18. CASE EffectFails BY <1>18, <1>1, <1>2, <1>4 DEF EffectFails, RequestRetirement, Abandon
<1>19. CASE EndChild BY <1>19, <1>1, <1>2, <1>4 DEF EndChild, Inv, TypeOK, Effects
<1>20. CASE Unwind BY <1>20, <1>1, <1>2, <1>4 DEF Unwind
<1>21. CASE CompleteRetirement BY <1>21, <1>1, <1>2, <1>4 DEF CompleteRetirement, Abandon
<1>22. CASE HoldChild BY <1>22, <1>1, <1>2, <1>4 DEF HoldChild, Abandon
<1>23. CASE CommitTransfer BY <1>23, <1>1, <1>2, <1>4 DEF CommitTransfer, Abandon
<1>24. CASE ReleaseTransfer BY <1>24, <1>1, <1>2, <1>5 DEF ReleaseTransfer
<1>25. CASE FinishTransfer BY <1>25, <1>1, <1>2, <1>5 DEF FinishTransfer
<1> QED BY <1>6, <1>7, <1>8, <1>9, <1>10, <1>11, <1>12, <1>13, <1>14, <1>15, <1>16, <1>17, <1>18,
     <1>19, <1>20, <1>21, <1>22, <1>23, <1>24, <1>25
  DEF DaemonStep, ActorStep

(* A step of the daemon keeps what makes the endings true. *)
LEMMA DaemonEndInv ==
  ASSUME Inv, EndInv, Inv', ContractStep, DaemonStep
  PROVE  EndInv'
<1> USE OperationAssumption
<1>1. PublishedInv' /\ ForkedInv' /\ RetiringInv' /\ VerifiedMeansUnwound'
  BY DaemonEffectInv DEF EffectInv
<1>2. ProducerInv' BY DaemonRecord, DaemonFrame
  DEF EndInv, ProducerInv, Inv, TypeOK, LockInv, Acting, HoldingLock
<1>3. RecoveringInv' BY DaemonFrame
  DEF EndInv, RecoveringInv, ProducerInv, Inv, WriterOwnsRecord, DaemonLives
<1>4. SettledInv' BY DaemonFrame DEF EndInv, SettledInv
<1> QED BY <1>1, <1>2, <1>3, <1>4 DEF EndInv

(* A step of the held child keeps them (held.rs). *)
LEMMA ChildEndInv ==
  ASSUME Inv, EndInv, ChildStep
  PROVE  EndInv'
BY DEF EndInv, ProducerInv, PublishedInv, ForkedInv, RetiringInv, RecoveringInv, SettledInv,
       VerifiedMeansUnwound, InFlight, Inv, TypeOK, ChildStep, ChildPrepares, ChildExecs,
       ChildLeaves, ChildDies, ChildOnly, ChildLives, DaemonLives, storeVars, launchVars,
       sessionVars, actorVars, recoveryVars, settleVars

(* What recovery writes: the request, then a record that is verified only *)
(* if every effect was (settle.rs, retire). *)
LEMMA RecoveryWrites ==
  ASSUME NEW r \in Records, NEW ok \in BOOLEAN
  PROVE  /\ RecoveryTerminal(r, ok).producer = r.producer
         /\ RecoveryTerminal(r, ok).phase = r.phase
         /\ RecoveryTerminal(r, ok).retirement = "verified" => ok \/ r.state # "launched"
         /\ \A q \in Requests :
              LET n == RetirementRequested(r, "recovery", q)
              IN  n.producer = r.producer /\ n.phase = r.phase /\ n.retirement = "requested"
                  /\ n.state = r.state
BY DEF Records, RecoveryTerminal, Retired, Cancelled, RetirementRequested

(* A step of `pty operation retire` keeps them. *)
LEMMA RecoveryEndInv ==
  ASSUME Inv, EndInv, Inv', ContractStep, RecoveryStep
  PROVE  EndInv'
<1> USE OperationAssumption
<1>1. rec.state \in {"launched", "transferred"} => rec'.state \in {"launched", "transferred"}
  BY StaysLaunched
<1>2. \A l \in Launchers : launcher[l] \in HoldingLock => oplock = l BY DEF Inv, LockInv
<1> USE DEF EndInv, ProducerInv, PublishedInv, ForkedInv, RetiringInv, RecoveringInv, SettledInv,
            VerifiedMeansUnwound, InFlight, ChildLives, DaemonLives, RecoveryOnly, launchVars,
            actorVars, settleVars
<1>3. ASSUME NEW q \in Requests, TakeAuthority(q)
      PROVE  EndInv'
  <2> DEFINE next == RetirementRequested(rec, "recovery", q)
  <2>1. /\ rec' = rec \/ rec' = next
        /\ rpc' = "idle" \/ (rpc' = "requested" /\ rrec' = next)
        /\ oplock = "free"
        /\ rec.producer => ~DaemonLives
        /\ UNCHANGED <<row, child, gate, launcher, daemon, effect, retiring, published, verified,
                       recorded, stage, spc, sok, closed>>
    BY <1>3 DEF TakeAuthority, WriteCas, LockFree, ActorsGone, sessionVars, childVars
  <2>2. /\ next.producer = rec.producer /\ next.phase = rec.phase
        /\ next.retirement = "requested" BY RecoveryWrites DEF Inv, TypeOK
  <2>3. \A l \in Launchers : launcher[l] \notin HoldingLock BY <1>2, <2>1
  <2> QED BY <1>1, <2>1, <2>2, <2>3 DEF HoldingLock
<1>4. CASE KillRecorded BY <1>4 DEF KillRecorded, storeVars, sessionVars
<1>5. CASE UnwindRow BY <1>5 DEF UnwindRow, storeVars, sessionVars, childVars
<1>6. CASE FinishRecovery
  <2> DEFINE next == RecoveryTerminal(rrec, rok)
  <2>1. /\ rec' = rec \/ rec' = next
        /\ rpc' = "idle" /\ rpc # "idle" /\ rec = rrec
        /\ rrec.state = "launched" => rpc = "unwound"
        /\ UNCHANGED <<row, child, gate, launcher, daemon, effect, retiring, published, verified,
                       recorded, stage, spc, sok, closed>>
    BY <1>6 DEF FinishRecovery, WriteCas, sessionVars, childVars, Inv, WriterOwnsRecord
  <2>2. /\ next.producer = rec.producer /\ next.phase = rec.phase
        /\ next.retirement = "verified" => rok \/ rrec.state # "launched"
    BY <2>1, RecoveryWrites, ZenonT(60) DEF Inv, TypeOK
  <2>3. \A l \in Launchers : launcher[l] \notin HoldingLock BY <1>2, <2>1 DEF Inv, LockInv
  <2>4. /\ rrec.state \in {"reserved", "pending", "launched"}
        /\ gate = "released" => rec.state = "transferred"
        /\ daemon \in {"none", "gated", "opened"} => child = "none"
        /\ gate \in {"open", "shut", "released"} /\ daemon \in DaemonStates
    BY <2>1 DEF Inv, RecoveryInv, ChildInv, FreshInv, TypeOK
  <2>5. ~(daemon = "running") /\ (ChildLives => gate = "shut") BY <2>1, <2>4 DEF DaemonStates
  <2>6. rec'.retirement = "verified" => rec.retirement = "verified" \/ row # "mine" BY <2>1, <2>2, <2>4
  <2> QED BY <1>1, <2>1, <2>2, <2>3, <2>5, <2>6 DEF HoldingLock
<1> QED BY <1>3, <1>4, <1>5, <1>6 DEF RecoveryStep

(* A step of `pty operation settle` keeps them: what the scan saw gone *)
(* cannot come back while settle has the shared lock. *)
LEMMA SettleEndInv ==
  ASSUME Inv, EndInv, SettleStep
  PROVE  EndInv'
<1> USE DEF EndInv, ProducerInv, PublishedInv, ForkedInv, RetiringInv, RecoveringInv, SettledInv,
            VerifiedMeansUnwound, InFlight, ChildLives, DaemonLives, SettleOnly, storeVars,
            launchVars, sessionVars, actorVars, childVars, recoveryVars
<1>1. CASE SettleReadsRecord BY <1>1 DEF SettleReadsRecord
<1>2. CASE SettleReadsTable BY <1>2 DEF SettleReadsTable
<1>3. CASE SettleScansArgv
  <2>1. sok' => ~DaemonLives /\ child \notin {"preparing", "held"} BY <1>3, Zenon DEF SettleScansArgv
  <2>2. spc' = "registry" /\ SettleOnly /\ UNCHANGED closed BY <1>3 DEF SettleScansArgv
  <2> QED BY <2>1, <2>2
<1>4. CASE SettleReadsRegistry
  <2>1. closed' => closed \/ (DurableEnd(srec) /\ sok) BY <1>4, Zenon DEF SettleReadsRegistry
  <2>2. DurableEnd(srec) => child # "running"
    BY <1>4 DEF SettleReadsRegistry, Inv, LockInv, ChildInv, DurableEnd
  <2>3. spc = "registry" /\ spc' = "idle" /\ SettleOnly BY <1>4 DEF SettleReadsRegistry
  <2> QED BY <2>1, <2>2, <2>3
<1> QED BY <1>1, <1>2, <1>3, <1>4 DEF SettleStep

(* Another session, the owner and any process death keep them. *)
LEMMA WorldEndInv ==
  ASSUME Inv, EndInv, OtherSession \/ OwnerWithdraws \/ Crash
  PROVE  EndInv'
<1> USE DEF EndInv, ProducerInv, PublishedInv, ForkedInv, RetiringInv, RecoveringInv, SettledInv,
            VerifiedMeansUnwound, InFlight, ChildLives, DaemonLives, storeVars, launchVars,
            sessionVars, actorVars, childVars, recoveryVars, settleVars
<1>1. CASE OtherSession BY <1>1 DEF OtherSession
<1>2. CASE OwnerWithdraws BY <1>2 DEF OwnerWithdraws
<1>3. CASE Crash
  <2>1. ASSUME NEW l \in Launchers, LauncherDies(l)
        PROVE  EndInv' BY <2>1 DEF LauncherDies, Inv, TypeOK
  <2>2. CASE DaemonDies BY <2>2 DEF DaemonDies, DaemonEnds, Inv, ChildInv
  <2>3. CASE RecoveryDies BY <2>3 DEF RecoveryDies
  <2> QED BY <1>3, <2>1, <2>2, <2>3 DEF Crash
<1> QED BY <1>1, <1>2, <1>3

(* Every step keeps what makes the endings true. *)
LEMMA NextEndInv ==
  ASSUME Inv, EndInv, [Next]_vars
  PROVE  EndInv'
<1>1. Inv' /\ ContractStep BY NextInv
<1>2. CASE UNCHANGED vars BY <1>2
  DEF EndInv, ProducerInv, PublishedInv, ForkedInv, RetiringInv, RecoveringInv, SettledInv,
      VerifiedMeansUnwound, InFlight, ChildLives, DaemonLives, vars, storeVars, launchVars,
      sessionVars, actorVars, childVars, recoveryVars, settleVars
<1> QED BY <1>1, <1>2, LauncherEndInv, DaemonEndInv, ChildEndInv, RecoveryEndInv, SettleEndInv,
     WorldEndInv DEF Next

(* Recovery's records pass OperationRecord::check whenever the record it *)
(* finds does. *)
LEMMA RecoveryPassesCheck ==
  ASSUME NEW r \in Records, Check(r), NEW q \in Requests, Retirable(r, q), NEW ok \in BOOLEAN
  PROVE  /\ Check(RetirementRequested(r, "recovery", q))
         /\ Check(RecoveryTerminal(RetirementRequested(r, "recovery", q), ok))
<1> USE DEF Records, Check, CheckWriter, CheckState, Retirable
<1>1. Check(RetirementRequested(r, "recovery", q)) BY DEF RetirementRequested
<1>2. CASE r.state = "reserved" BY <1>2 DEF RetirementRequested, RecoveryTerminal, Cancelled, Retired
<1>3. CASE r.state = "pending" BY <1>3 DEF RetirementRequested, RecoveryTerminal, Cancelled, Retired
<1>4. CASE r.state = "launched" BY <1>4 DEF RetirementRequested, RecoveryTerminal, Retired
<1> QED BY <1>1, <1>2, <1>3, <1>4 DEF States

(* Every ending of an operation is true and reachable, for any number of *)
(* launchers, retires, crashes and failed writes: settle closes only what *)
(* has no process left, a verified retirement left nothing published and *)
(* no child that could run, and recovery is never refused by check(). *)
THEOREM TruthfulEndings == Safe => []EndingsAreTruthful
<1>1. Init => EndInv BY OperationAssumption
  DEF Init, EndInv, ProducerInv, PublishedInv, ForkedInv, RetiringInv, RecoveringInv, SettledInv,
      VerifiedMeansUnwound, InFlight, ChildLives, DaemonLives, Reserved
<1>2. Inv /\ EndInv /\ [Next]_vars => EndInv' BY NextEndInv
<1>3. Inv /\ EndInv => EndingsAreTruthful
  <2> SUFFICES ASSUME Inv, EndInv PROVE EndingsAreTruthful OBVIOUS
  <2>1. ClosedIsTruthful BY DEF Inv, OutcomeInv, EndInv, SettledInv, ClosedIsTruthful
  <2>2. AlwaysRetirable BY RecoveryPassesCheck DEF AlwaysRetirable, Inv, TypeOK
  <2> QED BY <2>1, <2>2 DEF EndInv, EndingsAreTruthful
<1> QED BY <1>1, <1>2, <1>3, Invariance, PTL DEF Safe

(* No step of the operation takes, replaces or removes the row of another *)
(* session with the same name, recovery's late unwinding included *)
(* (unwind_publication, unwind_row). *)
THEOREM ForeignRows == Safe => ForeignRowsUntouched
<1>1. [Next]_vars => [row = "other" => row' = "other"]_vars
  <2> SUFFICES ASSUME Next, row = "other" PROVE row' = "other" BY DEF vars, sessionVars
  <2>1. ASSUME NEW l \in Launchers, LauncherStep(l) PROVE row' = row BY <2>1
    DEF LauncherStep, TakeSessionLocks, Claim, ClaimRefused, CheckLaunch, LauncherDecides,
        RecordForking, SpawnGatedDaemon, LaunchRefused, RecordDaemon, HandOver, OpenGate,
        LauncherEnds, LauncherOnly
  <2>2. CASE GateClosed \/ DaemonStarts \/ DaemonRefuses \/ Publish \/ ForkHeld \/ DaemonExits
    BY <2>2 DEF GateClosed, DaemonStarts, DaemonRefuses, Publish, ForkHeld, DaemonExits,
                sessionVars
  <2>3. CASE Decide \/ KilledBeforeDecision \/ CommitTicket \/ Published \/ Forked
    BY <2>3 DEF Decide, KilledBeforeDecision, CancelBeforeLaunch, CommitTicket, Published, Forked,
                sessionVars
  <2>4. CASE ForkedGone \/ Retire \/ EffectFails \/ EndChild \/ Unwind \/ CompleteRetirement
    BY <2>4 DEF ForkedGone, Retire, EffectFails, EndChild, Unwind, CompleteRetirement, sessionVars
  <2>5. CASE HoldChild \/ CommitTransfer \/ ReleaseTransfer \/ FinishTransfer
    BY <2>5 DEF HoldChild, CommitTransfer, ReleaseTransfer, FinishTransfer, sessionVars
  <2>6. CASE ChildStep
    BY <2>6 DEF ChildStep, ChildPrepares, ChildExecs, ChildLeaves, ChildDies, ChildOnly,
                sessionVars
  <2>7. CASE RecoveryStep
    BY <2>7 DEF RecoveryStep, TakeAuthority, KillRecorded, UnwindRow, FinishRecovery, sessionVars
  <2>8. CASE SettleStep BY <2>8 DEF SettleStep, SettleReadsRecord, SettleReadsTable, SettleScansArgv,
                SettleReadsRegistry, SettleOnly, sessionVars
  <2>9. CASE OtherSession \/ OwnerWithdraws \/ Crash
    BY <2>9 DEF OtherSession, OwnerWithdraws, Crash, LauncherDies, DaemonDies, RecoveryDies,
                sessionVars
  <2> QED BY <2>1, <2>2, <2>3, <2>4, <2>5, <2>6, <2>7, <2>8, <2>9 DEF Next, DaemonStep, ActorStep
<1> QED BY <1>1, PTL DEF Safe, ForeignRowsUntouched
============================================================================
