------------------------------ MODULE TableRead ------------------------------
(***************************************************************************)
(* How the process table is read (proctable.rs): pid by pid, while the     *)
(* machine's processes are born, exit and are reaped.  A machine has one   *)
(* of the three readers: "proc" lists /proc and reads every stat,          *)
(* "libproc" lists the pids into a buffer it sized beforehand and asks two *)
(* calls about each, "ps" runs ps.                                         *)
(*                                                                         *)
(* host[p] is [tok, st, shy]: the process with pid p, "none" when there is *)
(* none; a shy one (setuid) is refused by proc_pidinfo.  "run" stands for  *)
(* a stopped process too.                                                  *)
(***************************************************************************)
EXTENDS ProcessTable, FiniteSetsExt, TLC

CONSTANTS Pids, Self,                     \* Self: the reader's own pid
          Kinds,                          \* the readers a machine may have
          SLACK, LIST_ATTEMPTS,           \* list_pids_with_slack: 64 and 4 in the code
          MaxToken                        \* bound: processes ever born

VARIABLES host, machine, reading, result, throughout, been, absent

tvars == <<host, machine, reading, result, throughout, been, absent>>

Live == {p \in Pids : host[p].st # "none"}
Here == {<<p, host[p].tok>> : p \in Live}
Youngest == Max({host[p].tok : p \in Pids})

TableInit ==
  /\ machine \in [kind : Kinds, offsets : {"right", "pid", "field"}, layout : {"unasked"}]
  /\ machine.kind # "libproc" => machine.offsets = "right"
  /\ \E shy \in SUBSET (Pids \ {Self}), there \in SUBSET Pids :
       /\ Self \in there /\ shy \subseteq there
       /\ machine.kind # "libproc" => shy = {}
       /\ host = [p \in Pids |-> [tok |-> IF p \in there THEN p ELSE 0,
                                   st |-> IF p \in there THEN "run" ELSE "none", shy |-> p \in shy]]
  /\ reading = [pc |-> "idle", what |-> "table", todo |-> {}, cur |-> 0, rows |-> <<>>,
                complete |-> TRUE, size |-> 0, slack |-> SLACK, tries |-> 0]
  /\ result = <<>>
  /\ throughout = {} /\ been = {} /\ absent = {}

----------------------------------------------------------------------------
(* The machine.  throughout, been and absent are what happened since the *)
(* read began: who lived all along, who lived at all, which pids were free.*)

Birth(p) ==
  /\ host[p].st = "none" /\ Youngest < MaxToken
  /\ \E shy \in BOOLEAN :
       /\ shy => machine.kind = "libproc"
       /\ host' = [host EXCEPT ![p] = [tok |-> Youngest + 1, st |-> "run", shy |-> shy]]
  /\ been' = been \cup {<<p, Youngest + 1>>}
  /\ UNCHANGED <<throughout, absent>>

(* An exit; a Mac's process is "exiting" for a while, no longer answered *)
(* for by proc_pidinfo and not yet a zombie. *)
Exit(p) ==
  /\ p # Self
  /\ \/ host[p].st = "run"
        /\ host' = [host EXCEPT ![p].st = IF machine.kind = "libproc" THEN "exiting" ELSE "zombie"]
     \/ host[p].st = "exiting" /\ host' = [host EXCEPT ![p].st = "zombie"]
  /\ UNCHANGED <<throughout, been, absent>>

Reap(p) ==
  /\ host[p].st = "zombie"
  /\ host' = [host EXCEPT ![p] = [@ EXCEPT !.st = "none", !.shy = FALSE]]
  /\ throughout' = throughout \ {<<p, host[p].tok>>}
  /\ absent' = absent \cup {p}
  /\ UNCHANGED been

MachineMoves ==
  /\ reading.pc \notin {"idle", "done"}
  /\ \E p \in Pids : Birth(p) \/ Exit(p) \/ Reap(p)
  /\ UNCHANGED <<machine, reading, result>>

----------------------------------------------------------------------------
(* Answer: what one look at one pid gave. *)
Known(tok, st) == [is |-> "known", tok |-> tok, state |-> st]
NotPresent == [is |-> "absent", tok |-> 0, state |-> "run"]
Unknown == [is |-> "unknown", tok |-> 0, state |-> "run"]

(* Is an exiting process a zombie?  It is not (is_zombie, is_exiting). *)
StateOf(p) == IF host[p].st = "zombie" THEN "zombie" ELSE "run"
RowOf(p) == Known(host[p].tok, StateOf(p))

Done(r) ==
  /\ reading' = [reading EXCEPT !.pc = "done", !.todo = {}, !.rows = <<>>, !.cur = 0]
  /\ result' = <<reading.what, reading.cur, r>>

(* from_rows, marked_incomplete: a listing without the reader is no table. *)
FinishTable(rows, complete) ==
  Done(IF Self \notin DOMAIN rows THEN Unreadable
       ELSE [rows |-> rows, readable |-> TRUE, complete |-> complete])

AnswerTakenQuietly(a, pc) ==
  reading' = [reading EXCEPT !.pc = pc,
                !.rows = IF a.is = "known" THEN (reading.cur :> [tok |-> a.tok, state |-> a.state]) @@ @
                         ELSE @]

(* The loops of from_proc_listing and read_libproc: an answer is a row, a *)
(* process that is gone is none, silence costs the table its completeness. *)
AnswerTaken(a, pc) ==
  reading' = [reading EXCEPT !.pc = pc,
                !.rows = IF a.is = "known" THEN (reading.cur :> [tok |-> a.tok, state |-> a.state]) @@ @
                         ELSE @,
                !.complete = @ /\ a.is # "unknown"]

Take(a) ==
  IF reading.what = "table"
  THEN /\ AnswerTaken(a, IF machine.kind = "proc" THEN "entry" ELSE "next")
       /\ UNCHANGED result
  ELSE Done(a)

(* process and resources_of ask about one pid; elsewhere process reads the *)
(* whole table. *)
AskOne(p, what) ==
  /\ machine.kind # "ps"
  /\ what = "resources" => machine.kind = "libproc"
  /\ reading' = [reading EXCEPT !.pc = IF machine.kind = "proc" THEN "stat" ELSE "bsd",
                                !.what = what, !.cur = p]

(* A read begins: ProcTable::read, or a question about one pid. *)
Begin ==
  /\ reading.pc = "idle"
  /\ \/ reading' = [reading EXCEPT !.pc = "open"]
     \/ \E p \in Pids \ {Self}, what \in {"process", "resources"} : AskOne(p, what)
  /\ throughout' = Here /\ been' = Here /\ absent' = Pids \ Live
  /\ UNCHANGED <<host, machine, result>>

(* A step of the reader. *)
At(kind, pc) ==
  /\ machine.kind = kind /\ reading.pc = pc
  /\ UNCHANGED <<host, throughout, been, absent>>

----------------------------------------------------------------------------
(* Linux: read_proc and from_proc_listing. *)

ReadDir ==
  /\ At("proc", "open")
  /\ \/ Done(Unreadable)
     \/ reading' = [reading EXCEPT !.pc = "entry"] /\ UNCHANGED result
  /\ UNCHANGED machine

(* The next entry in the order of the pids, or the end; an entry that *)
(* fails is lost. *)
NextEntry ==
  /\ At("proc", "entry")
  /\ LET left == {p \in Live : p > reading.cur}
     IN  IF left = {} THEN FinishTable(reading.rows, reading.complete)
         ELSE /\ reading' \in {[reading EXCEPT !.pc = "stat", !.cur = Min(left)],
                               [reading EXCEPT !.complete = FALSE, !.cur = Min(left)]}
              /\ UNCHANGED result
  /\ UNCHANGED machine

StatAnswerGuess(p) == IF host[p].st = "none" THEN {NotPresent} ELSE {RowOf(p), NotPresent}

(* stat_answer, parse_proc_stat: a stat that is refused or does not parse *)
(* is not a process that is gone. *)
StatAnswer(p) == IF host[p].st = "none" THEN {NotPresent} ELSE {RowOf(p), Unknown}

ReadStat ==
  /\ At("proc", "stat")
  /\ \E a \in StatAnswer(reading.cur) : Take(a)
  /\ UNCHANGED machine

----------------------------------------------------------------------------
(* macOS: list_pids_with_slack. *)

ListSize ==
  /\ At("libproc", "open")
  /\ \/ Done(Unreadable)
     \/ /\ reading' = [reading EXCEPT !.pc = "list", !.size = Cardinality(Live) + reading.slack]
        /\ UNCHANGED result
  /\ UNCHANGED machine

ListReadOnce ==
  /\ At("libproc", "list")
  /\ \/ Done(Unreadable)
     \/ /\ \E S \in SUBSET Live :
             /\ Cardinality(S) = Min({reading.size, Cardinality(Live)})
             /\ reading' = [reading EXCEPT !.pc = "next", !.todo = S]
        /\ UNCHANGED result
  /\ UNCHANGED machine

(* A read that fills its buffer may have been cut short: it is made again *)
(* with more room, and after the last attempt the listing is not whole. *)
ListRead ==
  /\ At("libproc", "list")
  /\ \/ Done(Unreadable)
     \/ /\ \E S \in SUBSET Live :
             /\ Cardinality(S) = Min({reading.size, Cardinality(Live)})
             /\ reading' =
                  IF Cardinality(S) < reading.size THEN [reading EXCEPT !.pc = "next", !.todo = S]
                  ELSE IF reading.tries + 1 = LIST_ATTEMPTS
                  THEN [reading EXCEPT !.pc = "next", !.todo = S, !.complete = FALSE]
                  ELSE [reading EXCEPT !.pc = "open", !.tries = @ + 1, !.slack = @ * 8]
        /\ UNCHANGED result
  /\ UNCHANGED machine

(* read_libproc's loop. *)
NextPid ==
  /\ At("libproc", "next")
  /\ \/ /\ reading.todo = {}
        /\ FinishTable(reading.rows, reading.complete)
     \/ \E p \in reading.todo :
          /\ reading' = [reading EXCEPT !.pc = "bsd", !.cur = p, !.todo = @ \ {p}]
          /\ UNCHANGED result
  /\ UNCHANGED machine

(* read_bsdinfo: a process that exits, a zombie and a shy one are refused *)
(* as one that is gone is; only sysctl tells them apart. *)
Bsdinfo(p) == host[p].st = "run" /\ ~host[p].shy

ReadBsdinfo ==
  /\ At("libproc", "bsd") /\ reading.what # "resources"
  /\ IF Bsdinfo(reading.cur) THEN Take(RowOf(reading.cur))
     ELSE reading' = [reading EXCEPT !.pc = "sysctl"] /\ UNCHANGED result
  /\ UNCHANGED machine

(* resources_of takes the refusal for an absence, and may fail to read the *)
(* task of the process after it. *)
ResourcesOf ==
  /\ At("libproc", "bsd") /\ reading.what = "resources"
  /\ \E a \in IF Bsdinfo(reading.cur) THEN {RowOf(reading.cur), Unknown} ELSE {NotPresent} : Done(a)
  /\ UNCHANGED machine

(* layout_reads_itself: do the offsets read back every fact that the *)
(* process knows of itself? *)
LayoutReadsItself == machine.offsets = "right"

(* layout_verified, own_facts_and_row: asked once; a parent that changes *)
(* during each of the three tries leaves the layout unverified. *)
VerifyLayout ==
  /\ At("libproc", "sysctl") /\ machine.layout = "unasked"
  /\ \E settled \in BOOLEAN :
       machine' = [machine EXCEPT !.layout = IF settled /\ LayoutReadsItself THEN "good"
                                             ELSE "bad"]
  /\ UNCHANGED <<reading, result>>

(* kinfo_row, layout_finds_itself: the row of a pid, an absence, or no *)
(* answer; with a wrong offset some other value is read for the field. *)
KinfoRow(p) ==
  CASE host[p].st = "none" -> {NotPresent, Unknown}
    [] host[p].st # "none" /\ machine.offsets = "pid" -> {Unknown}
    [] host[p].st # "none" /\ machine.offsets = "field" -> {Known(0, "zombie"), Unknown}
    [] OTHER -> {RowOf(p), Unknown}

SysctlProcUnverified ==
  /\ At("libproc", "sysctl") /\ machine.layout # "unasked"
  /\ \E a \in KinfoRow(reading.cur) : Take(a)
  /\ UNCHANGED machine

SysctlProc ==
  /\ At("libproc", "sysctl") /\ machine.layout # "unasked"
  /\ \E a \in IF machine.layout = "bad" THEN {Unknown} ELSE KinfoRow(reading.cur) : Take(a)
  /\ UNCHANGED machine

----------------------------------------------------------------------------
(* Elsewhere: from_ps_listing_checked, over the lines S that came and that *)
(* parsed; the table says it is complete all the same. *)
FromPsListing(S) ==
  FinishTable([p \in S |-> [tok |-> host[p].tok, state |-> StateOf(p)]], TRUE)

(* run_ps_program: ps fails, does not answer within PS_TIMEOUT, or its *)
(* listing comes, perhaps cut short. *)
RunPs ==
  /\ At("ps", "open")
  /\ \E S \in SUBSET Live : FromPsListing(S)
  /\ UNCHANGED machine

TableNext ==
  \/ MachineMoves \/ Begin
  \/ ReadDir \/ NextEntry \/ ReadStat
  \/ ListSize \/ ListRead \/ NextPid \/ ReadBsdinfo \/ ResourcesOf \/ VerifyLayout \/ SysctlProc
  \/ RunPs

TableSpec == TableInit /\ [][TableNext]_tvars

----------------------------------------------------------------------------
(* A row is a process that lived during the read, and one it calls a *)
(* zombie has exited. *)
RowWas(p, row) ==
  /\ <<p, row.tok>> \in been
  /\ row.state = "zombie" => ~(host[p].tok = row.tok /\ host[p].st \in {"run", "exiting"})

(* The table as it is believed (proctable.rs): every row of a table was a *)
(* process during the read; one that says it is complete misses no process *)
(* that lived throughout, however pids were reused, listings outgrew their *)
(* buffer or rows were refused meanwhile.  From ps a table always says so *)
(* and is not believed here. *)
TableIsTrue ==
  result # <<>> /\ result[1] = "table" =>
    LET table == result[3]
    IN  /\ \A p \in DOMAIN table.rows : RowWas(p, table.rows[p])
        /\ table.complete /\ machine.kind # "ps" =>
             \A q \in throughout : q[1] \in DOMAIN table.rows /\ table.rows[q[1]].tok = q[2]

(* process, has_exited: one look at one pid says gone only of a pid that *)
(* was free at some instant of the look, and what it says of a process is *)
(* true of it. *)
LookIsTrue ==
  result # <<>> /\ result[1] = "process" =>
    LET a == result[3]
    IN  /\ a.is = "absent" => result[2] \in absent
        /\ a.is = "known" => RowWas(result[2], a)

(* "The table was read successfully and this process was not in it. This *)
(* is a fact: the process is gone." (Answer::NotPresent).  False of what *)
(* the readers give: a row that was refused leaves a readable table whose *)
(* lookup says NotPresent, and resources_of says it of a shy process. *)
AbsenceIsAFact ==
  result # <<>> =>
    IF result[1] = "table"
    THEN result[3].readable => \A q \in throughout : q[1] \in DOMAIN result[3].rows
    ELSE result[3].is = "absent" => result[2] \in absent
=============================================================================
