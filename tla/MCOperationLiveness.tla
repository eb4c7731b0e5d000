-------------------------- MODULE MCOperationLiveness --------------------------
(* What must happen in the end when a session is started: one component is *)
(* looked at in each behaviour, under its own fairness. *)
EXTENDS Integers, Sequences, TLC

CONSTANT Parts  \* the components this run looks at, one at a time

VARIABLES part, launchRec, oplock, launchFaults, launcher, lrec, creation,
  launchRow, daemon, launchStage, effect, launchRetiring, launchPublished,
  verified, drec, child, recorded, launchGate, acked, execs, rpc, rreq, rrec,
  rok, retires, spc, srec, sok, closed, launchWithdrawn, crashes, socket,
  reading, sent, asked, syncCmd, frames, channel, inbox, actorStage, doing,
  actorRec, disk, tickets, actorRetiring, serving, actorPublished, hasChild,
  deferred, current, cmds, worker, answer, actorRow, proc, actorGate, ack,
  msgs, bridged, transferred, deferredExit, exited, shutdown, kills, killed,
  actorFaults, withdrawnAtSync, path, claimRec, active, claimWithdrawn, alive,
  pc, fd, flocked, guard, tgt, ret, fenced, claimPublished, forked, dmn,
  plainRow, elock, clock, pin, usr

L == INSTANCE LaunchOperation WITH Launchers <- {"l1"}, Requests <- {"q1"},
  Expected <- TRUE, InitialRows <- {"absent"}, MaxCrashes <- 1,
  MaxFaults <- 1, MaxRetires <- 1, rec <- launchRec, faults <- launchFaults,
  row <- launchRow, stage <- launchStage, retiring <- launchRetiring,
  published <- launchPublished, gate <- launchGate,
  withdrawn <- launchWithdrawn
A == INSTANCE OperationActor WITH TransferIds <- {"t1"}, StaleIds <- {},
  MaxInputs <- 1, MaxKills <- 1, MaxFaults <- 1, stage <- actorStage,
  rec <- actorRec, retiring <- actorRetiring, published <- actorPublished,
  row <- actorRow, gate <- actorGate, faults <- actorFaults
C == INSTANCE CreationClaim WITH Launcher <- "launcher", Daemon <- "daemon",
  Contenders <- {"c1"}, MaxDeaths <- 2, rec <- claimRec,
  withdrawn <- claimWithdrawn, published <- claimPublished
P == INSTANCE PlainLaunch WITH Users <- {1, 2},
  UserCommands <- {"run", "restart", "up"},
  Images <- {"unbound", "able", "unable"}, MaxDaemons <- 3, row <- plainRow

launchVars == <<launchRec, oplock, launchFaults, launcher, lrec, creation,
  launchRow, daemon, launchStage, effect, launchRetiring, launchPublished,
  verified, drec, child, recorded, launchGate, acked, execs, rpc, rreq, rrec,
  rok, retires, spc, srec, sok, closed, launchWithdrawn, crashes>>
actorVars == <<socket, reading, sent, asked, syncCmd, frames, channel, inbox,
  actorStage, doing, actorRec, disk, tickets, actorRetiring, serving,
  actorPublished, hasChild, deferred, current, cmds, worker, answer, actorRow,
  proc, actorGate, ack, msgs, bridged, transferred, deferredExit, exited,
  shutdown, kills, killed, actorFaults, withdrawnAtSync>>
claimVars == <<path, claimRec, active, claimWithdrawn, alive, pc, fd, flocked,
  guard, tgt, ret, fenced, claimPublished, forked>>
plainVars == <<dmn, plainRow, elock, clock, pin, usr>>
vars == <<part, launchVars, actorVars, claimVars, plainVars>>

(* A component that is not looked at has no state. *)
NoLaunch == launchRec = 0 /\ oplock = 0 /\ launchFaults = 0 /\ launcher = 0
  /\ lrec = 0 /\ creation = 0 /\ launchRow = 0 /\ daemon = 0
  /\ launchStage = 0 /\ effect = 0 /\ launchRetiring = 0
  /\ launchPublished = 0 /\ verified = 0 /\ drec = 0 /\ child = 0
  /\ recorded = 0 /\ launchGate = 0 /\ acked = 0 /\ execs = 0 /\ rpc = 0
  /\ rreq = 0 /\ rrec = 0 /\ rok = 0 /\ retires = 0 /\ spc = 0 /\ srec = 0
  /\ sok = 0 /\ closed = 0 /\ launchWithdrawn = 0 /\ crashes = 0
NoActor == socket = 0 /\ reading = 0 /\ sent = 0 /\ asked = 0 /\ syncCmd = 0
  /\ frames = 0 /\ channel = 0 /\ inbox = 0 /\ actorStage = 0 /\ doing = 0
  /\ actorRec = 0 /\ disk = 0 /\ tickets = 0 /\ actorRetiring = 0
  /\ serving = 0 /\ actorPublished = 0 /\ hasChild = 0 /\ deferred = 0
  /\ current = 0 /\ cmds = 0 /\ worker = 0 /\ answer = 0 /\ actorRow = 0
  /\ proc = 0 /\ actorGate = 0 /\ ack = 0 /\ msgs = 0 /\ bridged = 0
  /\ transferred = 0 /\ deferredExit = 0 /\ exited = 0 /\ shutdown = 0
  /\ kills = 0 /\ killed = 0 /\ actorFaults = 0 /\ withdrawnAtSync = 0
NoClaim == path = 0 /\ claimRec = 0 /\ active = 0 /\ claimWithdrawn = 0
  /\ alive = 0 /\ pc = 0 /\ fd = 0 /\ flocked = 0 /\ guard = 0 /\ tgt = 0
  /\ ret = 0 /\ fenced = 0 /\ claimPublished = 0 /\ forked = 0
NoPlain == dmn = 0 /\ plainRow = 0 /\ elock = 0 /\ clock = 0 /\ pin = 0
  /\ usr = 0

Init ==
  /\ part \in Parts
  /\ IF part = "launch" THEN L!Init ELSE NoLaunch
  /\ IF part = "actor" THEN A!Init ELSE NoActor
  /\ IF part = "claim" THEN C!Init ELSE NoClaim
  /\ IF part = "plain" THEN P!LaunchInit ELSE NoPlain

LaunchMoves ==
  part = "launch" /\ L!Next /\ UNCHANGED <<part, actorVars, claimVars,
    plainVars>>
ActorMoves ==
  part = "actor" /\ A!Next /\ UNCHANGED <<part, launchVars, claimVars,
    plainVars>>
ClaimMoves ==
  part = "claim" /\ C!Next /\ UNCHANGED <<part, launchVars, actorVars,
    plainVars>>
PlainMoves ==
  part = "plain" /\ P!LaunchNext /\ UNCHANGED <<part, launchVars, actorVars,
    claimVars>>

Next == LaunchMoves \/ ActorMoves \/ ClaimMoves \/ PlainMoves

(* The fairness that each component's own specification states, for the *)
(* one that is looked at. *)
LaunchFairness ==
  /\ WF_launchVars(part = "launch" /\ \E l \in {"l1"} : L!LauncherStep(l))
  /\ WF_launchVars(part = "launch" /\ L!DaemonProceeds)
  /\ WF_launchVars(part = "launch" /\ L!ChildPrepares)
  /\ WF_launchVars(part = "launch" /\ L!ChildExecs)
  /\ WF_launchVars(part = "launch" /\ L!ChildLeaves)

ActorFairness ==
  /\ WF_actorVars(part = "actor" /\ A!IoReads) /\ WF_actorVars(part = "actor" /\ A!IoSyncs)
  /\ WF_actorVars(part = "actor" /\ A!ActorStep) /\ WF_actorVars(part = "actor" /\ A!WorkerStep)
  /\ WF_actorVars(part = "actor" /\ A!ServeStep) /\ WF_actorVars(part = "actor" /\ A!ChildPrepares)
  /\ WF_actorVars(part = "actor" /\ A!ChildExecs) /\ WF_actorVars(part = "actor" /\ A!ChildLeaves)
  /\ WF_actorVars(part = "actor" /\ A!BridgeReports)

ClaimFairness ==
  /\ WF_claimVars(part = "claim" /\ C!LockStep("c1"))
  /\ WF_claimVars(part = "claim" /\ (C!LockStep("launcher") \/ C!LauncherStep))
  /\ WF_claimVars(part = "claim" /\ (C!LockStep("daemon") \/ C!DaemonStep))

PlainFairness ==
  /\ \A u \in {1, 2} : WF_plainVars(part = "plain" /\ P!UserStep(u))
  /\ \A d \in 1..3 : /\ WF_plainVars(part = "plain" /\ P!DaemonStep(d))
                     /\ WF_plainVars(part = "plain" /\ dmn[d].term /\ P!Ends(d))

Fairness == LaunchFairness /\ ActorFairness /\ ClaimFairness /\ PlainFairness

Spec == Init /\ [][Next]_vars /\ Fairness
----------------------------------------------------------------------------
(* An owner that withdraws is heard, and for good: in the launch as a whole *)
(* (OwnerInput::Eof, the launcher's peek_withdrawal) and among the threads *)
(* of its daemon, none of which waits on another for ever. *)
WithdrawalsEnd ==
  (\/ part = "launch" /\ launchWithdrawn
   \/ part = "actor" /\ sent > 1) ~>
  [](\/ part = "launch" /\ L!WithdrawalSettled
     \/ part = "actor" /\ A!StartupEnded)

(* Nobody waits or is left behind for ever: the held child of a daemon that *)
(* died (held.rs); an owner's transfer request, also one deferred from held *)
(* to ready, and the daemon of a transferred session whose child exited *)
(* (OperationLink); a process that polls for the creation lock past dead *)
(* owners and claims left behind (wait_for_metadata_lock); and the daemon *)
(* of a launch that gave up on it (PublicationTimeout). *)
NobodyIsStranded ==
  (\/ part = "launch" /\ daemon = "dead"
   \/ part = "actor" /\ (asked["t1"] > 0 \/ (transferred /\ proc = "gone"))
   \/ part = "claim"
   \/ part = "plain" /\ P!LaunchGivenUp) ~>
  (\/ part = "launch" /\ child \notin {"preparing", "held"}
   \/ part = "actor" /\ (asked["t1"] > 0 => A!Answered("t1"))
                     /\ (transferred /\ proc = "gone" => ~A!Up)
   \/ part = "claim" /\ C!GotIn("c1")
   \/ part = "plain" /\ P!NoFailedDaemon)
============================================================================
