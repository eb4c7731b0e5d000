---------------------------- MODULE ProcessTable ----------------------------
(***************************************************************************)
(* What pty learns of the operating system's processes (proctable.rs,      *)
(* process_tree.rs, the identity checks of registry/list.rs).              *)
(*                                                                         *)
(* A process is [tok, ppid, pgid, state]: its start token, its parent, its *)
(* group, and "run", "stop" or "zombie".  rows maps pids to processes; a   *)
(* table is what one read of the machine returned: some of the rows, and   *)
(* whether the read worked at all and missed nothing.                      *)
(***************************************************************************)
EXTENDS Integers, FiniteSets

Unreadable == [rows |-> <<>>, readable |-> FALSE, complete |-> FALSE]

(* from_proc_listing: a listing without the reader itself is no listing; a *)
(* row that could not be read leaves it incomplete. *)
FromListing(rows, seen, self) ==
  IF self \notin seen THEN Unreadable
  ELSE [rows |-> [p \in seen |-> rows[p]], readable |-> TRUE, complete |-> seen = DOMAIN rows]

(* process, has_exited, is_running: the answers about one pid. *)
Process(rows, pid) == IF pid \in DOMAIN rows THEN {rows[pid]} ELSE {}
HasExited(rows, pid) == \A r \in Process(rows, pid) : r.state = "zombie"
IsRunning(table, pid) ==
  CASE ~table.readable -> "unknown"
    [] table.readable /\ HasExited(table.rows, pid) -> "no"
    [] OTHER -> "yes"

(* walk: the descendants of root by the parent links of the rows, the *)
(* least set that has the children of root and of its own members. *)
Walk(root, rows) ==
  LET Kids(S) == {p \in DOMAIN rows \ {root} : rows[p].ppid \in S}
      Closed == {S \in SUBSET DOMAIN rows : Kids(S \cup {root}) \subseteq S}
  IN  {p \in DOMAIN rows : \A S \in Closed : p \in S}

(* groups_in_tree: the groups of the tree that are not its root's own. *)
GroupsInTree(root, rows) ==
  {g \in {rows[p].pgid : p \in Walk(root, rows)} :
     g > 1 /\ (root \in DOMAIN rows => g # rows[root].pgid)}

MembersOfGroups(groups, rows) ==
  {p \in DOMAIN rows : rows[p].state # "zombie" /\ rows[p].pgid \in groups}

Identity(rows, p) == [pid |-> p, tok |-> rows[p].tok]

(* snapshot_from_table and observed_identities. *)
SnapshotFromTable(root, rows) == {Identity(rows, p) : p \in Walk(root, rows)}
ObservedIdentities(root, rows) ==
  {Identity(rows, p) : p \in {q \in Walk(root, rows) : rows[q].state # "zombie"}}

(* complete_snapshot_from_table: may the table answer for the whole tree? *)
CompleteSnapshot(root, table) ==
  table.complete /\ root \in DOMAIN table.rows /\ table.rows[root].state # "zombie"

(* still_live_identities: a row that is missing from a complete table, a *)
(* zombie, or another token is an identity that has gone. *)
StillLive(ids, rows) ==
  {i \in ids : \E r \in Process(rows, i.pid) : r.state # "zombie" /\ r.tok = i.tok}

AllStopped(root, ids, rows) ==
  \A p \in {root} \cup {i.pid : i \in ids} : \E r \in Process(rows, p) : r.state = "stop"

(* is_same_process: what a signal by number is preceded by. *)
IsSameProcess(i, rows) == i \in StillLive({i}, rows)

----------------------------------------------------------------------------
(* Does pid hold the daemon that a record names?  rec has the pid, token *)
(* (0: none) and boot identity ("none": a legacy record) it was published *)
(* with; boot is the machine's own, or "none" where it cannot be read. *)

CheckBootIdentity(rec, boot) ==
  IF "none" \in {rec.boot, boot} THEN "unknown" ELSE IF rec.boot = boot THEN "match" ELSE "mismatch"

(* check_daemon_identity and its evidence. *)
CheckDaemonIdentity(pid, rec, rows, boot) ==
  CASE pid <= 0 \/ HasExited(rows, pid) -> "gone"
    [] pid > 0 /\ ~HasExited(rows, pid) /\ rec.pid \notin {0, pid} -> "mismatch"
    [] pid > 0 /\ ~HasExited(rows, pid) /\ rec.pid \in {0, pid} /\ rec.tok = 0 -> "unknown"
    [] OTHER -> IF rows[pid].tok # rec.tok THEN "mismatch" ELSE CheckBootIdentity(rec, boot)

(* check_control_identity: a legacy record's token is enough for a command *)
(* a person gave. *)
CheckControlIdentity(pid, rec, rows, boot) ==
  LET check == CheckDaemonIdentity(pid, rec, rows, boot)
  IN  IF rec.boot = "none" /\ rec.tok # 0 /\ check = "unknown" THEN "legacy" ELSE check

(* check_record_identity: the pid file and the record must not disagree. *)
CheckRecordIdentity(sidecar, rec, rows, boot) ==
  IF (sidecar # 0 /\ rec.pid # 0 /\ sidecar # rec.pid) \/ (sidecar = 0 /\ rec.pid = 0) THEN "unknown"
  ELSE CheckDaemonIdentity(IF sidecar # 0 THEN sidecar ELSE rec.pid, rec, rows, boot)

(* check_record_identity_in: a record no daemon has claimed, without pid *)
(* file and socket, has none. *)
CheckRecordIdentityIn(sidecar, socket, rec, rows, boot) ==
  IF sidecar = 0 /\ rec.pid = 0 /\ ~socket THEN "gone"
  ELSE CheckRecordIdentity(sidecar, rec, rows, boot)

(* read_explicit_control_authority_in: the authority of the pid a command *)
(* may act on, or "none". *)
ControlAuthority(sidecar, rec, rows, boot) ==
  LET pid == IF sidecar # 0 THEN sidecar ELSE rec.pid
      check == CheckControlIdentity(pid, rec, rows, boot)
  IN  IF (sidecar # 0 /\ rec.pid # 0 /\ sidecar # rec.pid) \/ check \notin {"match", "legacy"}
      THEN "none" ELSE check
=============================================================================
