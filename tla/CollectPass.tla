----------------------------- MODULE CollectPass -----------------------------
(***************************************************************************)
(* Passes of `pty gc` over a registry of several sessions (crates/         *)
(* pty-lifecycle/src/gc.rs, crates/pty/src/cli/gc.rs): debris, orphans,    *)
(* abandoned sessions, permanent ones to start again, finished ones to     *)
(* remove, layout tags.  SessionControl has the races of one such step     *)
(* with the rest of the world; here the steps of a pass follow each other, *)
(* and passes follow passes, dry or real, over sessions that come up, fail *)
(* and are retagged in between.                                            *)
(***************************************************************************)
EXTENDS Integers, Sequences, SequencesExt, FiniteSets

CONSTANTS
  Order,      \* the sessions' names, in name order
  GlobalIdle, \* --idle-days, 0 when not given
  GlobalLimit, DEFAULT_FAST_FAIL_LIMIT, \* --fast-fail-limit, 0 when not given
  MAX_CWD_PROBES,
  MaxPasses, MaxMoves

VARIABLES
  reg, file, temps,     \* the registry, each session's pty.toml entry, the temporary files
  dry, phase, todo, seen, probes, \* the pass: kind, phase, names left, the rows listed, probes still stuck
  report,     \* what the pass reports: sets of names by bucket
  foretold, calm, \* the last dry run's report and rows; nothing else has happened since
  fast, cleared, \* starts in a row that ended fast; flapping sessions cleared since they ended
  passes, moves

gvars == <<reg, file, temps, dry, phase, todo, seen, probes, report, foretold, calm, fast, cleared, passes, moves>>
Names == Range(Order)
Buckets == {"removed", "kept", "expired", "orphans", "abandoned", "respawned", "failed", "flapped", "flapping", "skipped", "pruned"}
Nothing == [b \in Buckets |-> {}]

(* A row: its metadata ("none", "bad" or "ok"), the daemon recorded in it *)
(* (match, gone, unknown), whether the list calls it finished, its policy *)
(* tags, the flapping bookkeeping, how the last life ended, its directory, *)
(* days since it was attached (-1: never), the tags set by hand and by the *)
(* manifest, its layout tags. *)
Fresh ==
  [meta |-> "ok", gen |-> 1, daemon |-> "match", done |-> FALSE, perm |-> TRUE, parent |-> "", keep |-> "no",
   limit |-> 0, idle |-> 0, age |-> -1, cwd |-> "there", optout |-> FALSE, bound |-> FALSE,
   cmd |-> 1, hash |-> 0, fails |-> 0, flapping |-> FALSE, stamped |-> FALSE, exit |-> "none",
   tags |-> {"own"}, managed |-> {}, layout |-> {}]
Absent == [Fresh EXCEPT !.meta = "none", !.daemon = "gone", !.done = TRUE, !.perm = FALSE, !.tags = {}]
NoFile == [there |-> FALSE, cmd |-> 0, keys |-> {}]
Gone == [Fresh EXCEPT !.daemon = "gone", !.done = TRUE, !.exit = "slow"]
Profiles ==
  {Fresh, Gone, Absent, [Absent EXCEPT !.meta = "bad"], [Fresh EXCEPT !.daemon = "unknown", !.parent = "x"],
   [Fresh EXCEPT !.perm = FALSE, !.parent = "x", !.layout = {"dead", "live"}], [Fresh EXCEPT !.parent = "a", !.perm = FALSE],
   [Gone EXCEPT !.perm = FALSE], [Gone EXCEPT !.perm = FALSE, !.keep = "yes"], [Gone EXCEPT !.perm = FALSE, !.keep = "expired"],
   [Gone EXCEPT !.parent = "a"], [Fresh EXCEPT !.cwd = "gone"], [Gone EXCEPT !.cwd = "hung", !.limit = 1],
   [Gone EXCEPT !.cwd = "gone", !.optout = TRUE], [Fresh EXCEPT !.idle = 2, !.age = 2], [Fresh EXCEPT !.age = 1],
   [Gone EXCEPT !.bound = TRUE], [Gone EXCEPT !.stamped = TRUE, !.exit = "fast", !.fails = 1, !.hash = 1],
   [Gone EXCEPT !.stamped = TRUE, !.exit = "fast", !.fails = 2, !.hash = 1, !.flapping = TRUE]}

----------------------------------------------------------------------------
(* The decisions. *)
IsPermanent(m) == m.perm
ParentOf(m) == IF m.meta = "ok" THEN m.parent ELSE ""
DaemonIdentity(m) == m.daemon
KnownOwnerLost(m) == DaemonIdentity(m) \in {"gone", "mismatch"}
(* A parent's identity: without a record it is lost when nothing is left. *)
ParentLost(r, p) == p \notin Names \/ (IF r[p].meta = "ok" THEN KnownOwnerLost(r[p]) ELSE r[p].daemon = "gone")
MatchesObservation(seenRow, m) == m.meta = "ok" /\ seenRow.meta = "ok" /\ seenRow.gen = m.gen
(* js_parse_int and its users: a tag that is no positive number is as good *)
(* as none. *)
Positive(tag, global, default) == IF tag > 0 THEN tag ELSE IF global > 0 THEN global ELSE default
(* cwd_is_gone_with: a probe that does not answer, or that may not start, *)
(* proves nothing; it stays counted until it answers. *)
CwdIsGone(m) == probes < MAX_CWD_PROBES /\ m.cwd = "gone"
Probes(m) == IF probes < MAX_CWD_PROBES /\ m.cwd = "hung" /\ ~m.optout THEN probes + 1 ELSE probes
ClassifyAbandoned(m) ==
  \/ ~m.optout /\ CwdIsGone(m)
  \/ LET effective == Positive(m.idle, GlobalIdle, 0) IN effective > 0 /\ m.age # -1 /\ m.age >= effective
(* respawn_params: the manifest's entry, when it can be read, else the *)
(* record; a bound record may not change what it runs. *)
Params(m, f) ==
  [cmd |-> IF f.there THEN f.cmd ELSE m.cmd,
   tags |-> IF f.there THEN (m.tags \ (m.managed \ f.keys)) \union f.keys ELSE m.tags,
   managed |-> IF f.there THEN f.keys ELSE m.managed]
ParamsRefused(m, f) == f.there /\ m.bound /\ f.cmd # m.cmd
(* classify_flapping. *)
Limit(m) == Positive(m.limit, GlobalLimit, DEFAULT_FAST_FAIL_LIMIT)
Changed(m, cmd) == m.hash # 0 /\ m.hash # cmd
WasFast(m) == m.stamped /\ m.exit = "fast"
Counter(m, cmd) == IF Changed(m, cmd) THEN 0 ELSE IF WasFast(m) THEN m.fails + 1 ELSE 0
(* Mutant: one fast end more than the limit. *)
ClassifyFlappingLate(m, cmd) ==
  CASE m.flapping /\ ~Changed(m, cmd) -> "flapping"
    [] ~(m.flapping /\ ~Changed(m, cmd)) /\ Counter(m, cmd) > Limit(m) -> "flapped"
    [] OTHER -> "respawned"
ClassifyFlapping(m, cmd) ==
  CASE m.flapping /\ ~Changed(m, cmd) -> "flapping"
    [] ~(m.flapping /\ ~Changed(m, cmd)) /\ Counter(m, cmd) >= Limit(m) -> "flapped"
    [] OTHER -> "respawned"
RemovableFinished(m) == m.meta = "ok" /\ m.done /\ KnownOwnerLost(m) /\ ~IsPermanent(m)
(* inventory_raw_cleanup_candidates: metadata that is no object, no pid *)
(* file and no socket. *)
RawCandidates(r) == {n \in Names : r[n].meta = "bad" /\ r[n].daemon = "gone"}

----------------------------------------------------------------------------
CollectInit ==
  /\ reg \in [Names -> Profiles] /\ file = [n \in Names |-> NoFile] /\ temps = {"dead", "live", "other"}
  /\ dry = FALSE /\ phase = "idle" /\ todo = <<>> /\ seen = reg /\ probes = 0
  /\ report = Nothing /\ foretold = [report |-> Nothing, rows |-> reg] /\ calm = FALSE /\ fast = [n \in Names |-> IF WasFast(reg[n]) THEN reg[n].fails + (IF reg[n].flapping THEN 0 ELSE 1) ELSE 0]
  /\ cleared = {} /\ passes = 0 /\ moves = 0

Alone == UNCHANGED <<file, passes, cleared>>
Says(b, n) == report' = [report EXCEPT ![b] = @ \union {n}]
SaysNothing == UNCHANGED report
Keeps == UNCHANGED <<reg, fast, calm, moves>>
Disturbed == moves < MaxMoves /\ moves' = moves + 1 /\ calm' = FALSE
(* Another process has the locks, or a write fails: the session is passed *)
(* over. *)
Busy == UNCHANGED <<reg, fast>> /\ Disturbed
Removes(n) == reg' = [reg EXCEPT ![n] = Absent] /\ UNCHANGED <<fast, calm, moves>>

(* cleanup_dead_registry_temps: a file named after a pid, that pid dead. *)
CleanTemps(t) == t \ {"dead"}
(* gc: the real pass sweeps dead writers' temporaries first. *)
StartPass(d) ==
  /\ phase = "idle" /\ passes < MaxPasses /\ passes' = passes + 1
  /\ dry' = d /\ phase' = "raw" /\ todo' = Order /\ seen' = reg /\ report' = Nothing /\ probes' = 0
  /\ temps' = IF d THEN temps ELSE CleanTemps(temps)
  /\ calm' = (d \/ calm)
  /\ UNCHANGED <<reg, file, foretold, fast, cleared, moves>>
At(p) == phase = p /\ todo # <<>>
Rest == todo' = Tail(todo) /\ UNCHANGED <<dry, phase, seen, temps, foretold>> /\ Alone
Row(n) == seen[n]
(* A phase looks at the registry again, unless the pass is dry. *)
NextPhase ==
  /\ phase \notin {"idle", "report"} /\ todo = <<>>
  /\ phase' = CASE phase = "raw" -> "orphans" [] phase = "orphans" -> "abandoned" [] phase = "abandoned" -> "permanent"
                [] phase = "permanent" -> "sweep" [] phase = "sweep" -> "tags" [] OTHER -> "report"
  /\ todo' = Order /\ seen' = IF dry THEN seen ELSE reg
  /\ UNCHANGED <<reg, temps, dry, probes, report, foretold, calm, fast, moves>> /\ Alone

(* Debris, checked again under the locks. *)
Raw ==
  /\ At("raw")
  /\ LET n == Head(todo) IN
       \/ n \in RawCandidates(seen) /\ Says("removed", n) /\ (IF dry THEN Keeps ELSE n \in RawCandidates(reg) /\ Removes(n))
       \/ n \in RawCandidates(seen) \ RawCandidates(reg) /\ ~dry /\ SaysNothing /\ Keeps
       \/ n \in RawCandidates(seen) /\ ~dry /\ SaysNothing /\ Busy
       \/ n \notin RawCandidates(seen) /\ SaysNothing /\ Keeps
  /\ UNCHANGED probes /\ Rest
(* Mutant: the child's own identity is not asked for. *)
OrphanedUnknown(n) == ParentOf(Row(n)) # "" /\ ParentLost(reg, ParentOf(Row(n)))
(* Orphans: the parent is known to be lost, the child's daemon is known. *)
Orphaned(n) == ParentOf(Row(n)) # "" /\ ParentLost(reg, ParentOf(Row(n))) /\ DaemonIdentity(Row(n)) # "unknown"
(* reap_observed_session: the record observed, its daemon ended if it *)
(* lives, both checked under the locks. *)
Reap(n, bucket) ==
  \/ MatchesObservation(Row(n), reg[n]) /\ DaemonIdentity(reg[n]) # "unknown" /\ Says(bucket, n) /\ Removes(n)
  \/ MatchesObservation(Row(n), reg[n]) /\ DaemonIdentity(reg[n]) = "unknown" /\ Says("skipped", n) /\ Keeps
  \/ ~MatchesObservation(Row(n), reg[n]) /\ Says("skipped", n) /\ Keeps
  \/ Says("skipped", n) /\ Busy
Orphans ==
  /\ At("orphans")
  /\ LET n == Head(todo) IN
       IF Orphaned(n) THEN (IF dry THEN Says("orphans", n) /\ Keeps ELSE Reap(n, "orphans"))
       ELSE SaysNothing /\ Keeps
  /\ UNCHANGED probes /\ Rest
(* Abandoned permanent sessions; a real pass decides again on the current *)
(* record. *)
Considered(n) == Row(n).meta = "ok" /\ IsPermanent(Row(n)) /\ (dry => DaemonIdentity(Row(n)) # "unknown")
Abandons ==
  /\ At("abandoned")
  /\ LET n == Head(todo) IN
       /\ IF Considered(n) /\ ClassifyAbandoned(Row(n))
          THEN IF dry THEN Says("abandoned", n) /\ Keeps
               ELSE IF IsPermanent(reg[n]) /\ ClassifyAbandoned(reg[n]) THEN Reap(n, "abandoned") ELSE SaysNothing /\ Keeps
          ELSE SaysNothing /\ Keeps
       /\ probes' = IF Considered(n) THEN Probes(Row(n)) ELSE probes
  /\ Rest
(* Permanent sessions that have ended: started again, unless they flap. *)
Stopped(n) ==
  /\ n \notin report["abandoned"] \union report["orphans"] /\ Row(n).meta = "ok" /\ Row(n).done
  /\ IsPermanent(Row(n)) /\ KnownOwnerLost(Row(n))
Booked(m, cmd) == [m EXCEPT !.stamped = TRUE, !.fails = Counter(m, cmd), !.hash = cmd, !.flapping = FALSE]
Started(m, f) ==
  [Booked(m, Params(m, f).cmd) EXCEPT !.gen = @ + 1, !.daemon = "match", !.done = FALSE, !.exit = "none", !.layout = {},
     !.cmd = Params(m, f).cmd, !.tags = Params(m, f).tags, !.managed = Params(m, f).managed]
(* A launch that fails before its record is out gets the old one back, its *)
(* stamp newer than its end, unless that write fails too. *)
Retried(m, f) == [Booked(m, Params(m, f).cmd) EXCEPT !.tags = Params(m, f).tags, !.managed = Params(m, f).managed, !.exit = "before"]
Reconcile(n, m) ==
  CASE ~(MatchesObservation(Row(n), m) /\ IsPermanent(m) /\ KnownOwnerLost(m)) -> SaysNothing /\ Keeps
    [] MatchesObservation(Row(n), m) /\ ParamsRefused(m, file[n]) -> Says("failed", n) /\ Keeps
    [] OTHER ->
      \/ Says("failed", n) /\ Keeps \* check_publication; no executable, prepare_daemon, resolve_command, delegate
      \/ CASE ClassifyFlapping(m, Params(m, file[n]).cmd) = "flapping" -> Says("flapping", n) /\ Keeps
           [] ClassifyFlapping(m, Params(m, file[n]).cmd) = "flapped" ->
                /\ reg' = [reg EXCEPT ![n] = [m EXCEPT !.flapping = TRUE, !.fails = Counter(m, Params(m, file[n]).cmd), !.hash = Params(m, file[n]).cmd]]
                /\ Says("flapped", n) /\ UNCHANGED <<fast, calm, moves>>
           [] OTHER ->
                \/ reg' = [reg EXCEPT ![n] = Started(m, file[n])] /\ Says("respawned", n) /\ UNCHANGED <<fast, calm, moves>>
                \/ \E row \in {Started(m, file[n]), Retried(m, file[n]), Absent} :
                     /\ reg' = [reg EXCEPT ![n] = row] /\ Says("failed", n) /\ UNCHANGED calm
                     /\ fast' = [fast EXCEPT ![n] = IF row.daemon = "match" THEN @ ELSE 0]
                     /\ moves < MaxMoves /\ moves' = moves + 1
Foretells(n) == IF ParamsRefused(Row(n), file[n]) THEN "failed" ELSE ClassifyFlapping(Row(n), Params(Row(n), file[n]).cmd)
Permanent ==
  /\ At("permanent")
  /\ LET n == Head(todo) IN
       IF Stopped(n) THEN (IF dry THEN Says(Foretells(n), n) /\ Keeps ELSE Reconcile(n, reg[n]) \/ (SaysNothing /\ Busy))
       ELSE SaysNothing /\ Keeps
  /\ UNCHANGED probes /\ Rest
(* Finished sessions, kept while their tag holds. *)
Sweep ==
  /\ At("sweep")
  /\ LET n == Head(todo)
         bucket == IF Row(n).keep = "expired" THEN "expired" ELSE "removed"
     IN  CASE ~RemovableFinished(Row(n)) -> SaysNothing /\ Keeps
           [] RemovableFinished(Row(n)) /\ Row(n).keep = "yes" -> Says("kept", n) /\ Keeps
           [] OTHER -> IF dry THEN Says(bucket, n) /\ Keeps
                       ELSE \/ MatchesObservation(Row(n), reg[n]) /\ KnownOwnerLost(reg[n]) /\ Says(bucket, n) /\ Removes(n)
                            \/ ~(MatchesObservation(Row(n), reg[n]) /\ KnownOwnerLost(reg[n])) /\ SaysNothing /\ Keeps
                            \/ SaysNothing /\ Busy
  /\ UNCHANGED probes /\ Rest
(* prune_orphan_layout_tags: of running sessions; a tag whose pid is dead *)
(* or no pid goes. *)
OrphanLayoutTags(m) == IF m.meta = "ok" /\ ~m.done /\ DaemonIdentity(m) = "match" THEN m.layout \ {"live"} ELSE {}
Prunes ==
  /\ At("tags")
  /\ LET n == Head(todo) IN
       \/ OrphanLayoutTags(reg[n]) = {} /\ SaysNothing /\ Keeps
       \/ OrphanLayoutTags(reg[n]) # {} /\ Says("pruned", n)
            /\ IF dry THEN Keeps ELSE reg' = [reg EXCEPT ![n].layout = @ \ OrphanLayoutTags(reg[n])] /\ UNCHANGED <<fast, calm, moves>>
       \/ OrphanLayoutTags(reg[n]) # {} /\ ~dry /\ SaysNothing /\ Busy
  /\ UNCHANGED probes /\ Rest
(* cmd_gc: a pass with nothing but kept sessions had nothing to do. *)
TotalActions == Cardinality(UNION {report[b] \X {b} : b \in Buckets \ {"kept"}})
Reports ==
  /\ phase = "report" /\ phase' = "idle" /\ todo' = <<>>
  /\ foretold' = IF dry THEN [report |-> report, rows |-> seen] ELSE [report |-> Nothing, rows |-> reg]
  /\ calm' = (dry /\ calm) /\ report' = Nothing /\ seen' = reg /\ dry' = FALSE /\ probes' = 0
  /\ UNCHANGED <<reg, temps, fast, moves>> /\ Alone

----------------------------------------------------------------------------
(* Between passes and their phases: daemons end, people retag, manifests *)
(* change. *)
Moves ==
  /\ todo \in {<<>>, Order} /\ Disturbed
  /\ UNCHANGED <<temps, dry, phase, todo, seen, probes, report, foretold, passes>>
Ends(n) ==
  /\ reg[n].meta = "ok" /\ reg[n].daemon = "match"
  /\ \E how \in {"fast", "slow", "none"} :
       /\ reg' = [reg EXCEPT ![n] = [@ EXCEPT !.daemon = "gone", !.done = TRUE, !.exit = how]]
       /\ fast' = [fast EXCEPT ![n] = IF how = "fast" /\ reg[n].stamped THEN @ + 1 ELSE 0]
  /\ cleared' = cleared \ {n} /\ UNCHANGED file /\ Moves
ClearsFlapping(n) ==
  /\ reg[n].flapping /\ reg' = [reg EXCEPT ![n].flapping = FALSE] /\ cleared' = cleared \union {n}
  /\ fast' = [fast EXCEPT ![n] = 0] /\ UNCHANGED file /\ Moves
EditsFile(n) ==
  /\ reg[n].meta = "ok" /\ \E c \in {1, 2}, k \in {{}, {"k"}} : file' = [file EXCEPT ![n] = [there |-> TRUE, cmd |-> c, keys |-> k]]
  /\ fast' = [fast EXCEPT ![n] = 0] /\ UNCHANGED <<reg, cleared>> /\ Moves

CollectNext ==
  \/ \E d \in BOOLEAN : StartPass(d)
  \/ NextPhase \/ Raw \/ Orphans \/ Abandons \/ Permanent \/ Sweep \/ Prunes \/ Reports
  \/ \E n \in Names : Ends(n) \/ ClearsFlapping(n) \/ EditsFile(n)
CollectSpec == CollectInit /\ [][CollectNext]_gvars

----------------------------------------------------------------------------
CollectTypeOK ==
  /\ DOMAIN report = Buckets /\ \A b \in Buckets : report[b] \subseteq Names
  /\ \A n \in Names : reg[n].meta \in {"none", "bad", "ok"} /\ reg[n].fails >= 0 /\ fast[n] >= 0
  /\ probes <= MAX_CWD_PROBES
(* A session that keeps failing fast is started again only so often: after *)
(* as many fast ends in a row as its limit it flaps, and it stays down *)
(* until someone clears it or its command changes.  (classify_flapping, *)
(* reconcile_permanent) *)
FlappingStops == \A n \in Names : fast[n] <= Limit(reg[n])
(* A dry run changes nothing, and the real pass that follows in a registry *)
(* nobody else has touched ends the very sessions it named and starts and *)
(* marks no others, but for sessions whose parent that pass itself ended; *)
(* what it was to start, mark or pass over it did, or it reports the failure *)
(* (the dry run neither checks the publication nor prepares the launch); *)
(* what was to fail failed.  (gc, reconcile_permanent) *)
Ended(r) == r["orphans"] \union r["abandoned"] \union r["removed"] \union r["expired"]
Independent(n) == ParentOf(foretold.rows[n]) \notin Ended(report)
Agrees(n) ==
  /\ (n \in Ended(foretold.report)) = (n \in Ended(report))
  /\ \A b \in {"respawned", "failed", "flapped", "flapping"} :
       n \in foretold.report[b] => n \in report[b] \union report["failed"] \union Ended(report)
  /\ \A b \in {"respawned", "flapped", "flapping"} :
       n \in report[b] => n \in foretold.report[b] \union Ended(report)
DryRunForetells == phase = "report" /\ ~dry /\ calm => \A n \in Names : Independent(n) => Agrees(n)
(* A flapping session whose status was cleared is tried again, not marked *)
(* again before it has had its chance (cmd_gc: "remove strategy.status tag *)
(* to retry"). *)
ClearedIsRetried == report["flapped"] \intersect cleared = {}
=============================================================================
