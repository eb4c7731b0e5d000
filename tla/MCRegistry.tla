-------------------------- MODULE MCRegistry --------------------------
(* The registry as its readers and writers meet it, and the processes its *)
(* records name, each looked at by itself in one run. *)
EXTENDS SessionControl

CONSTANT Parts  \* the components this run looks at, one at a time

VARIABLES part, reg, file, temps, dry, phase, todo, seen, probes, report,
  foretold, calm, fast, cleared, passes, moves, files, holders, forked,
  daemon, clock, at, tries, first, again, looked, answer, held, listed, alive,
  started, publisher, ticks, sat, strict, caching, entries, since, got, errs,
  cache, inventory, scans, there, tree, born, reader, z, kernel, blind, rows,
  fresh, holds, conn, pc, left, tab, before, middle, pidsLeft, cur, searches,
  found, owner, sure, steady, missed, turns, os, proc, people, lock, opRecord, noted,
  settling, locks, opSeen, unscanned, scanned, bare, found2, unreadable,
  complete, readable, table, evidence, host, machine, reading, result,
  throughout, been, absent

G == INSTANCE CollectPass WITH Order <- <<"a", "b">>, GlobalIdle <- 1,
  GlobalLimit <- 0, DEFAULT_FAST_FAIL_LIMIT <- 2, MAX_CWD_PROBES <- 1,
  MaxPasses <- 2, MaxMoves <- 1
K == INSTANCE KeyedObservation WITH Pids <- {2}, Inodes <- {1, 2},
  Short <- TRUE, Reused <- {"meta"}, Boots <- {"here"}, MaxToken <- 2,
  MaxTick <- 0, MaxTouch <- 0, Attempts <- 2, Faults <- TRUE, seen <- looked,
  procs <- holders, fork <- forked
S == INSTANCE RegistryScan WITH Pids <- {2}, Inodes <- {1, 2}, Short <- TRUE,
  Reused <- {"meta"}, Boots <- {"here"}, MaxToken <- 1, MaxTick <- 1,
  MaxTouch <- 1, Scans <- 2, files <- listed, procs <- alive, fork <- started,
  daemon <- publisher, clock <- ticks, held <- there
F == INSTANCE FreezeTree WITH FREEZE_ATTEMPTS <- 4, procs <- tree, fork <- born
O == INSTANCE SocketOwnership WITH Root <- 2, Pids <- {2, 3, 4},
  Attempts <- 2, MaxMoves <- 2, os <- kernel, tries <- searches,
  answer <- owner, todo <- pidsLeft, moves <- turns
T == INSTANCE SettleScan WITH Pids <- {2, 3, 4}, WRITER_RELEASE_RETRIES <- 2,
  Bystanders <- {"user", "grep", "hidden", "kernel", "none"}, procs <- people,
  rec <- opRecord, pc <- settling, tries <- locks, seen <- opSeen,
  todo <- unscanned, cur <- scanned, again <- bare, rows <- found2,
  answer <- evidence
R == INSTANCE TableRead WITH Pids <- {1, 2, 3}, Self <- 1,
  Kinds <- {"proc", "libproc", "ps"}, SLACK <- 0, LIST_ATTEMPTS <- 4,
  MaxToken <- 4

collectVars == <<reg, file, temps, dry, phase, todo, seen, probes, report,
  foretold, calm, fast, cleared, passes, moves>>
keyedVars == <<files, holders, forked, daemon, clock, at, tries, first, again,
  looked, answer, held>>
scanVars == <<listed, alive, started, publisher, ticks, sat, strict, caching,
  entries, since, got, errs, cache, inventory, scans, there>>
freezeVars == <<tree, born, reader, z>>
ownVars == <<kernel, blind, rows, fresh, holds, conn, pc, left, tab, before,
  middle, pidsLeft, cur, searches, found, owner, sure, steady, missed, turns>>
settleVars == <<os, proc, people, lock, opRecord, noted, settling, locks,
  opSeen, unscanned, scanned, bare, found2, unreadable, complete, readable,
  table, evidence>>
tableVars == <<host, machine, reading, result, throughout, been, absent>>
vars == <<part, collectVars, keyedVars, scanVars, cvars, freezeVars, ownVars,
          settleVars, tableVars>>

(* A component that is not looked at has no state. *)
NoCollect == reg = 0 /\ file = 0 /\ temps = 0 /\ dry = 0 /\ phase = 0
  /\ todo = 0 /\ seen = 0 /\ probes = 0 /\ report = 0 /\ foretold = 0
  /\ calm = 0 /\ fast = 0 /\ cleared = 0 /\ passes = 0 /\ moves = 0
NoKeyed == files = 0 /\ holders = 0 /\ forked = 0 /\ daemon = 0 /\ clock = 0
  /\ at = 0 /\ tries = 0 /\ first = 0 /\ again = 0 /\ looked = 0 /\ answer = 0
  /\ held = 0
NoScan == listed = 0 /\ alive = 0 /\ started = 0 /\ publisher = 0 /\ ticks = 0
  /\ sat = 0 /\ strict = 0 /\ caching = 0 /\ entries = 0 /\ since = 0
  /\ got = 0 /\ errs = 0 /\ cache = 0 /\ inventory = 0 /\ scans = 0
  /\ there = 0
NoControl == procs = 0 /\ fork = 0 /\ row = 0 /\ tagged = 0 /\ cmd = 0
NoFreeze == tree = 0 /\ born = 0 /\ reader = 0 /\ z = 0
NoOwn == kernel = 0 /\ blind = 0 /\ rows = 0 /\ fresh = 0 /\ holds = 0
  /\ conn = 0 /\ pc = 0 /\ left = 0 /\ tab = 0 /\ before = 0 /\ middle = 0
  /\ pidsLeft = 0 /\ cur = 0 /\ searches = 0 /\ found = 0 /\ owner = 0
  /\ sure = 0 /\ steady = 0 /\ missed = 0 /\ turns = 0
NoSettle == os = 0 /\ proc = 0 /\ people = 0 /\ lock = 0 /\ opRecord = 0
  /\ noted = 0 /\ settling = 0 /\ locks = 0 /\ opSeen = 0 /\ unscanned = 0
  /\ scanned = 0 /\ bare = 0 /\ found2 = 0 /\ unreadable = 0 /\ complete = 0
  /\ readable = 0 /\ table = 0 /\ evidence = 0
NoTable == host = 0 /\ machine = 0 /\ reading = 0 /\ result = 0
  /\ throughout = 0 /\ been = 0 /\ absent = 0

Init ==
  /\ part \in Parts
  /\ IF part = "collect" THEN G!CollectInit ELSE NoCollect
  /\ IF part = "keyed" THEN K!KeyedInit ELSE NoKeyed
  /\ IF part = "scan" THEN S!ScanInit ELSE NoScan
  /\ IF part = "control" THEN ControlInit ELSE NoControl
  /\ IF part = "freeze" THEN F!FreezeInit ELSE NoFreeze
  /\ IF part = "own" THEN O!OwnInit ELSE NoOwn
  /\ IF part = "settle" THEN T!SettleInit ELSE NoSettle
  /\ IF part = "table" THEN R!TableInit ELSE NoTable

CollectMoves ==
  part = "collect" /\ G!CollectNext /\ UNCHANGED <<part, keyedVars, scanVars,
    cvars, freezeVars, ownVars, settleVars, tableVars>>
KeyedMoves ==
  part = "keyed" /\ K!KeyedNext /\ UNCHANGED <<part, collectVars, scanVars,
    cvars, freezeVars, ownVars, settleVars, tableVars>>
ScanMoves ==
  part = "scan" /\ S!ScanNext /\ UNCHANGED <<part, collectVars, keyedVars,
    cvars, freezeVars, ownVars, settleVars, tableVars>>
ControlMoves ==
  part = "control" /\ ControlNext /\ UNCHANGED <<part, collectVars, keyedVars,
    scanVars, freezeVars, ownVars, settleVars, tableVars>>
FreezeMoves ==
  part = "freeze" /\ F!FreezeNext /\ UNCHANGED <<part, collectVars, keyedVars,
    scanVars, cvars, ownVars, settleVars, tableVars>>
OwnMoves ==
  part = "own" /\ O!OwnNext /\ UNCHANGED <<part, collectVars, keyedVars,
    scanVars, cvars, freezeVars, settleVars, tableVars>>
SettleMoves ==
  part = "settle" /\ T!SettleNext /\ UNCHANGED <<part, collectVars, keyedVars,
    scanVars, cvars, freezeVars, ownVars, tableVars>>
TableMoves ==
  part = "table" /\ R!TableNext /\ UNCHANGED <<part, collectVars, keyedVars,
    scanVars, cvars, freezeVars, ownVars, settleVars>>

Next == CollectMoves \/ KeyedMoves \/ ScanMoves \/ ControlMoves \/ FreezeMoves
        \/ OwnMoves \/ SettleMoves \/ TableMoves

Spec == Init /\ [][Next]_vars
----------------------------------------------------------------------------
(* gc.rs, reconcile: a permanent session that keeps dying fast is flapped *)
(* and left alone, and a dry run foretells what the pass then does or *)
(* reports as failed. *)
CollectionIsSteady == part = "collect" => G!FlappingStops /\ G!DryRunForetells

(* keyed.rs, list.rs: what an observer says of a session was true at one *)
(* instant of its observation; a listed record was in its file during the *)
(* scan; an inventory that says complete misses nothing, and so does a *)
(* process table (proctable.rs), whatever happens during the read.  ownership.rs, *)
(* argv.rs: a connection is said to be owned by a process of the tree only *)
(* when one held it, and not to be owned only by two tables that agree and *)
(* were not refused the same row; and an operation to be settled only when no process of *)
(* it is left. *)
ObservationsAreTrue ==
  /\ part = "keyed" => K!AnswerWasTrue
  /\ part = "scan" => S!ListedRecordWasThere /\ S!CompleteMeansComplete
  /\ part = "own" => O!OwnershipIsProved
  /\ part = "settle" => T!SettledIsQuiet /\ T!OnlyKinIsAMatch
  /\ part = "table" => R!TableIsTrue /\ R!LookIsTrue

(* stop.rs, gc.rs, process_tree.rs: stop and the collectors signal nobody *)
(* outside the session they observed, a verified stop saw its snapshot go *)
(* but for a row missing from the table it read, and a tree said to be *)
(* frozen is frozen whole. *)
OnlyOwnTreeIsKilled ==
  /\ part = "control" => StrangersAreSpared /\ VerifiedSnapshotIsGone
  /\ part = "freeze" => F!FrozenTreeIsWhole

(* gc.rs, retention.rs, rm: no command removes the row of a live daemon, *)
(* and no collector one that was permanent or kept: gc as of its look, *)
(* retention, for kept rows within their window, as of the removal; what reconcile leaves of a permanent *)
(* session it started again carries its tags and its count of fails. *)
RowsSurvive == [][part = "control" => LiveSessionKeepsRow /\ AskedToStay]_vars
============================================================================
