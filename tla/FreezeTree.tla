----------------------------- MODULE FreezeTree -----------------------------
(***************************************************************************)
(* freeze_descendants and terminate_process_identities (process_tree.rs):  *)
(* the daemon stops its child's tree, which goes on forking, exiting and   *)
(* being reparented while its rows are read one after another, and then    *)
(* ends what it observed.                                                  *)
(***************************************************************************)
EXTENDS ProcessTable

CONSTANTS
  Pids,             \* pids of the tree; the least is its root
  FREEZE_ATTEMPTS,  \* rounds of stop and read
  MaxToken          \* bound: processes ever started

VARIABLES
  procs,    \* the machine: pid -> process
  fork,     \* processes started so far
  reader,   \* the read of the table under way: pids still to look at, rows so far
  z         \* the freeze, and the termination after it

zvars == <<procs, fork, reader, z>>

Root == CHOOSE p \in Pids : \A q \in Pids : p <= q

FreezeInit ==
  /\ procs = [p \in {Root} |-> [tok |-> 1, ppid |-> 1, pgid |-> Root, state |-> "run"]]
  /\ fork = 1
  /\ reader = [left |-> {}, rows |-> <<>>, dropped |-> FALSE]
  /\ z = [pc |-> "first", attempt |-> 0, limit |-> FREEZE_ATTEMPTS, observed |-> {},
          missed |-> {}, previous |-> {}, twice |-> FALSE, result |-> "none", tree |-> {}]

----------------------------------------------------------------------------
(* The machine. *)

Fork(p, q) ==
  /\ p \in DOMAIN procs /\ procs[p].state = "run"
  /\ q \in Pids \ DOMAIN procs /\ fork < MaxToken
  /\ procs' = [x \in DOMAIN procs \cup {q} |->
                 IF x = q THEN [tok |-> fork + 1, ppid |-> p, pgid |-> procs[p].pgid, state |-> "run"]
                 ELSE procs[x]]
  /\ fork' = fork + 1
  /\ UNCHANGED <<reader, z>>

(* The process ends and is reaped; its children get init for a parent. *)
Without(rows, p) ==
  [x \in DOMAIN rows \ {p} |-> IF rows[x].ppid = p THEN [rows[x] EXCEPT !.ppid = 1] ELSE rows[x]]

Exits(p) ==
  /\ p \in DOMAIN procs /\ p # Root /\ procs[p].state = "run"
  /\ procs' = Without(procs, p)
  /\ UNCHANGED <<fork, reader, z>>

(* signal_process_identities with STOP. *)
Stopped(rows, ids) ==
  LET hit == {i.pid : i \in StillLive(ids, rows)}
  IN  [p \in DOMAIN rows |-> IF p \in hit THEN [rows[p] EXCEPT !.state = "stop"] ELSE rows[p]]

----------------------------------------------------------------------------
(* A read of the table, in the order of the pids.  A row may be denied. *)

StartRead == reader' = [left |-> DOMAIN procs, rows |-> <<>>, dropped |-> FALSE]

ReadRow ==
  /\ reader.left # {}
  /\ LET p == CHOOSE x \in reader.left : \A y \in reader.left : x <= y
         gone == p \notin DOMAIN procs
     IN  \E denied \in {gone, TRUE} :
           reader' = [reader EXCEPT
                        !.left = (@ \cup {q \in DOMAIN procs : q > p}) \ {p},
                        !.rows = IF denied THEN @ ELSE [x \in DOMAIN @ \cup {p} |->
                                   IF x = p THEN procs[p] ELSE @[x]],
                        !.dropped = @ \/ (denied /\ ~gone)]
  /\ UNCHANGED <<procs, fork, z>>

Table == [rows |-> reader.rows, readable |-> TRUE, complete |-> ~reader.dropped]
Reading == reader.left # {}

----------------------------------------------------------------------------
(* freeze_descendants. *)

FreezeFirst ==
  /\ z.pc = "first" /\ StartRead
  /\ z' = [z EXCEPT !.pc = "root"]
  /\ UNCHANGED <<procs, fork>>

(* stop_root, after the first snapshot; it may fail.  An incomplete first *)
(* read leaves one attempt, which stops the tree and proves nothing. *)
FreezeRoot ==
  /\ z.pc = "root" /\ ~Reading
  /\ LET seen == [z EXCEPT !.observed = ObservedIdentities(Root, Table.rows),
                           !.limit = IF CompleteSnapshot(Root, Table) THEN @ ELSE 1] IN
     \/ /\ procs' = [procs EXCEPT ![Root].state = "stop"]
        /\ z' = [seen EXCEPT !.pc = "stop"]
     \/ /\ UNCHANGED procs
        /\ z' = [seen EXCEPT !.pc = "frozen", !.result = "unavailable"]
  /\ UNCHANGED <<fork, reader>>

(* One attempt: stop what was observed, then read the table again.  A *)
(* signal may fail. *)
FreezeStop ==
  /\ z.pc = "stop"
  /\ \E missed \in {{}} \cup {{i} : i \in StillLive(z.observed, procs)} :
       /\ procs' = Stopped(procs, z.observed \ missed)
       /\ z' = [z EXCEPT !.pc = "judge", !.attempt = @ + 1, !.missed = missed]
  /\ StartRead
  /\ UNCHANGED fork

Unavailable(x) == [x EXCEPT !.pc = "frozen", !.result = "unavailable"]

(* Mutant: a table with rows missing is judged like a whole one. *)
JudgePartial(x, table) ==
  LET observed == x.observed \cup ObservedIdentities(Root, table.rows)
      live == StillLive(observed, table.rows)
      still == AllStopped(Root, live, table.rows)
      more == [x EXCEPT !.observed = observed, !.twice = still, !.previous = live]
  IN  IF still /\ x.twice /\ x.previous = live /\ x.limit > 1
      THEN [more EXCEPT !.pc = "frozen", !.result = "complete", !.tree = live]
      ELSE IF x.attempt < x.limit THEN [more EXCEPT !.pc = "stop"] ELSE Unavailable(more)

(* The verdict on a table: the same stopped tree twice in a row, and no *)
(* target that lives, runs and was not signalled. *)
Judge(x, table) ==
  LET observed == x.observed \cup ObservedIdentities(Root, table.rows)
      live == StillLive(observed, table.rows)
      still == AllStopped(Root, live, table.rows)
      failed == \E i \in x.missed \cap live : table.rows[i.pid].state # "stop"
      more == [x EXCEPT !.observed = observed, !.twice = still, !.previous = live]
  IN  IF ~CompleteSnapshot(Root, table) \/ failed THEN Unavailable(more)
      ELSE IF still /\ x.twice /\ x.previous = live
      THEN [more EXCEPT !.pc = "frozen", !.result = "complete", !.tree = live]
      ELSE IF x.attempt < x.limit THEN [more EXCEPT !.pc = "stop"] ELSE Unavailable(more)

FreezeJudge ==
  /\ z.pc = "judge" /\ ~Reading
  /\ z' = Judge(z, Table)
  /\ UNCHANGED <<procs, fork, reader>>

(* terminate_process_identities after the child's hangup: TERM, which a *)
(* process may ignore, then KILL, each to identities that still match. *)
Terminate ==
  /\ z.pc \in {"frozen", "term"}
  /\ \E ignore \in IF z.pc = "frozen" THEN SUBSET StillLive(z.observed, procs) ELSE {{}} :
       LET dead == {i.pid : i \in StillLive(z.observed, procs) \ ignore} IN
       procs' = [p \in DOMAIN procs \ dead |->
                   IF procs[p].ppid \in dead THEN [procs[p] EXCEPT !.ppid = 1] ELSE procs[p]]
  /\ z' = [z EXCEPT !.pc = IF z.pc = "frozen" THEN "term" ELSE "ended"]
  /\ UNCHANGED <<fork, reader>>

FreezeNext ==
  \/ \E p, q \in Pids : Fork(p, q)
  \/ \E p \in Pids : Exits(p)
  \/ ReadRow \/ FreezeFirst \/ FreezeRoot \/ FreezeStop \/ FreezeJudge \/ Terminate

FreezeSpec == FreezeInit /\ [][FreezeNext]_zvars

----------------------------------------------------------------------------
(* A freeze that reports the whole tree has it: every descendant that is *)
(* alive is in the report and stopped, although rows were read one by one *)
(* while the tree forked and exited. *)
FrozenTreeIsWhole ==
  z.result = "complete" /\ z.pc = "frozen" =>
    \A p \in Walk(Root, procs) : Identity(procs, p) \in z.tree /\ procs[p].state = "stop"
=============================================================================
