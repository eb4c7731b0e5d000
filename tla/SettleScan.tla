----------------------------- MODULE SettleScan -----------------------------
(***************************************************************************)
(* `pty operation settle` against processes that live on while it looks    *)
(* (crates/pty-core/src/operation/settle.rs, proctable/argv.rs).           *)
(* LaunchOperation takes the argv scan as one step; here the processes are *)
(* listed and read one file at a time, on Linux or macOS, while they fork, *)
(* exec and exit, and the operation's lock is refused and retried.  A      *)
(* process between two images, or past its last one, shows no arguments.   *)
(***************************************************************************)
EXTENDS Integers, Sequences, SequencesExt, FiniteSets, FiniteSetsExt

CONSTANTS
  Pids,      \* 2 is the operation's writer, the largest one a bystander
  WRITER_RELEASE_RETRIES,
  Bystanders \* what the bystander is: keys of Kinds

VARIABLES
  os, proc,   \* the system, and what its process listing is worth
  procs,      \* the processes
  lock,       \* the writer's exclusive lock: "held" or "free"; the settler's shared one is pc's
  rec, noted, \* the record's state, the participants it names
  pc, tries, seen,    \* settle: its step, lock attempts, the record it read
  todo, cur, again,   \* the scan: pids left, the one examined, it showed no arguments
  rows, unreadable, complete, readable,
  table,      \* the writer and participants components
  answer

svars == <<os, proc, procs, lock, rec, noted, pc, tries, seen, todo, cur, again, rows, unreadable, complete, readable, table, answer>>
Writer == 2
Bystander == Max(Pids)

----------------------------------------------------------------------------
(* The argument vectors. *)
(* argv_carries_marker: the option and the digest, as a pair, after the *)
(* verb and before "--". *)
ArgvCarriesMarker(argv) ==
  LET ends == {i \in 2..Len(argv) : argv[i] = "--"}
      stop == IF ends = {} THEN Len(argv) ELSE Min(ends) - 1
      verbs == {i \in 2..stop : argv[i] \in {"run", "__daemon"}}
  IN  verbs # {} /\ \E i \in (Min(verbs) + 1)..(stop - 1) : argv[i] = "opt" /\ argv[i + 1] = "digest"
(* The kernel's buffer: each argument ended by a NUL. *)
Cmdline(argv) == FoldLeft(LAMBDA b, w : b \o (IF w = "" THEN <<"NUL">> ELSE <<w, "NUL">>), <<>>, argv)
SplitAtNul(b) ==
  FoldLeft(LAMBDA a, w : IF w = "NUL" THEN Append(a, "") ELSE Front(a) \o <<w>>, <<"">>, b)
(* split_nul_args: one trailing NUL is not an argument. *)
SplitNulArgs(b) ==
  LET trimmed == IF b # <<>> /\ Last(b) = "NUL" THEN Front(b) ELSE b
  IN  IF trimmed = <<>> THEN <<>> ELSE SplitAtNul(trimmed)
(* procargs, parse_procargs2: a count, the path and its padding, then the *)
(* arguments and the environment. *)
Procargs(argv) == [argc |-> Len(argv), buf |-> <<"path", "NUL", "NUL">> \o Cmdline(argv) \o <<"env", "NUL">>]
ParseProcargs2(argc, b) ==
  LET path == CHOOSE i \in 1..Len(b) : b[i] = "NUL" /\ \A j \in 1..(i - 1) : b[j] # "NUL"
      args == {i \in path..Len(b) : b[i] # "NUL"}
  IN  SubSeq(SplitAtNul(SubSeq(b, Min(args), Len(b))), 1, argc)
ReadBack(argv) == IF os = "linux" THEN SplitNulArgs(Cmdline(argv)) ELSE ParseProcargs2(Procargs(argv).argc, Procargs(argv).buf)

Launcher == <<"pty", "run", "-d", "opt", "digest", "--", "cmd">>
Daemon == <<"pty", "--root", "r", "__daemon", "opt", "digest", "">>
Process(argv, owner) == [st |-> "live", argv |-> argv, mm |-> TRUE, owner |-> owner, kernel |-> FALSE]
None == [st |-> "none", argv |-> <<>>, mm |-> FALSE, owner |-> "own", kernel |-> FALSE]
Kinds ==
  [user |-> Process(<<"pty", "run", "--", "echo", "opt", "digest">>, "own"),
   grep |-> Process(<<"grep", "opt", "digest">>, "own"),
   other |-> Process(Daemon, "other"), hidden |-> Process(Daemon, "unknown"),
   kernel |-> [None EXCEPT !.st = "live", !.kernel = TRUE], none |-> None]

----------------------------------------------------------------------------
SettleInit ==
  /\ os \in {"linux", "macos"} /\ proc \in {"ok", "partial", "foreign", "unreadable"}
  /\ \E b \in Bystanders :
       procs = [p \in Pids |-> IF p = Writer THEN Process(Launcher, "own") ELSE IF p = Bystander THEN Kinds[b] ELSE None]
  /\ lock = "held" /\ rec = "reserved" /\ noted = {Writer}
  /\ pc = "lock" /\ tries = 0 /\ seen = "" /\ todo = {} /\ cur = 0 /\ again = FALSE
  /\ rows = {} /\ unreadable = {} /\ complete = TRUE /\ readable = TRUE /\ table = "" /\ answer = [verdict |-> "", kind |-> "", quiet |-> FALSE]

----------------------------------------------------------------------------
(* The processes.  Only the writer forks; a fork carries its parent's *)
(* arguments and no lock, and is recorded when the writer gets to it. *)
Settling == UNCHANGED <<os, proc, pc, tries, seen, todo, cur, again, rows, unreadable, complete, readable, table, answer>>
Runs(p) == procs[p].st = "live" /\ procs[p].mm /\ p # Bystander
Forks(p) ==
  /\ lock = "held" /\ p # Bystander /\ procs[p] = None
  /\ procs' = [procs EXCEPT ![p] = procs[Writer]]
  /\ UNCHANGED <<lock, rec, noted>> /\ Settling
(* The record's ends: cancelled whoever is left; retired once the recorded *)
(* processes are gone. *)
Dead(p) == procs[p].st # "live"
Records ==
  /\ lock = "held"
  /\ \/ rec = "reserved" /\ rec' = "launched" /\ noted' \in {noted, noted \union {p \in Pids \ {Bystander} : ~Dead(p)}}
     \/ rec \in {"reserved", "launched"} /\ rec' \in {"cancelled", "failed"} /\ UNCHANGED noted
     \/ rec = "launched" /\ rec' = "transferred" /\ UNCHANGED noted
     \/ rec = "launched" /\ (\A p \in noted \ {Writer} : Dead(p)) /\ rec' = "retired" /\ UNCHANGED noted
  /\ UNCHANGED <<procs, lock>> /\ Settling
(* exec, in two steps; the child becomes the command only once recorded. *)
StartsExec(p) ==
  /\ p # Writer /\ Runs(p) /\ procs[p].argv = Launcher
  /\ procs' = [procs EXCEPT ![p] = [@ EXCEPT !.mm = FALSE]]
  /\ UNCHANGED <<lock, rec, noted>> /\ Settling
Execs(p) ==
  /\ p \notin {Writer, Bystander} /\ ~Dead(p) /\ ~procs[p].mm
  /\ \E argv \in {Daemon} \union (IF p \in noted /\ rec = "transferred" THEN {<<"cmd">>} ELSE {}) :
       procs' = [procs EXCEPT ![p] = [@ EXCEPT !.mm = TRUE, !.argv = argv]]
  /\ UNCHANGED <<lock, rec, noted>> /\ Settling
(* Exit, in two steps, then the reaping. *)
Exits(p) ==
  /\ Runs(p) /\ procs' = [procs EXCEPT ![p] = [@ EXCEPT !.mm = FALSE, !.argv = <<>>]]
  /\ lock' = IF p = Writer THEN "free" ELSE lock
  /\ UNCHANGED <<rec, noted>> /\ Settling
Exited(p) ==
  /\ p # Bystander /\ ~Dead(p) /\ ~procs[p].mm /\ procs[p].argv = <<>>
  /\ procs' = [procs EXCEPT ![p] = [@ EXCEPT !.st = "zombie"]]
  /\ UNCHANGED <<lock, rec, noted>> /\ Settling
Reaped(p) ==
  /\ procs[p].st = "zombie" /\ procs' = [procs EXCEPT ![p] = None]
  /\ UNCHANGED <<lock, rec, noted>> /\ Settling
World == \E p \in Pids : Forks(p) \/ StartsExec(p) \/ Execs(p) \/ Exits(p) \/ Exited(p) \/ Reaped(p)

----------------------------------------------------------------------------
(* settle. *)
Stays == UNCHANGED <<os, proc, procs, lock, rec, noted>>
Unscanned == UNCHANGED <<todo, cur, again, rows, unreadable, complete, readable, table>>
(* Snapshot::finish. *)
Finish(verdict, kind, quiet) == pc' = "done" /\ answer' = [verdict |-> verdict, kind |-> kind, quiet |-> quiet]
(* A refused lock with no holder left is tried again, so many times; then, *)
(* as with a holder, the writer is reported. *)
Refused == pc' = (IF tries + 1 < WRITER_RELEASE_RETRIES THEN "lock" ELSE "held") /\ UNCHANGED answer
TakesShared ==
  /\ pc = "lock"
  /\ \/ lock = "free" /\ pc' = "record" /\ UNCHANGED <<tries, answer>>
     \/ lock = "held" /\ pc' = "refused" /\ UNCHANGED <<tries, answer>>
     \/ tries = 0 /\ rec = "reserved" /\ (\E kind \in {"record-missing", "writer"} : Finish("unknown", kind, FALSE)) /\ UNCHANGED tries
  /\ UNCHANGED seen /\ Unscanned /\ Stays
Holder ==
  /\ pc = "refused"
  /\ IF lock = "held" THEN pc' = "held" /\ UNCHANGED answer ELSE Refused
  /\ tries' = tries + 1
  /\ UNCHANGED seen /\ Unscanned /\ Stays
LiveWriter ==
  /\ pc = "held" /\ Finish("live", "writer", FALSE)
  /\ UNCHANGED <<tries, seen>> /\ Unscanned /\ Stays
(* The record, read under the lock: it must be this operation's. *)
ReadsRecord ==
  /\ pc = "record"
  /\ \/ seen' = rec /\ pc' = "table" /\ UNCHANGED answer
     \/ tries = 0 /\ rec = "reserved" /\ (\E kind \in {"record-missing", "record-mismatch", "record-unreadable"} : Finish("unknown", kind, FALSE)) /\ UNCHANGED seen
  /\ UNCHANGED tries /\ Unscanned /\ Stays
(* One table: the writer and the participants the record names. *)
Worst(S) == IF "pending" \in S THEN "pending" ELSE IF "unknown" \in S THEN "unknown" ELSE "verified"
ReadsTable ==
  /\ pc = "table" /\ pc' = "list"
  /\ table' = Worst({IF Dead(p) THEN "verified" ELSE "pending" : p \in noted} \union IF proc \in {"ok", "foreign"} THEN {} ELSE {"unknown"})
  /\ UNCHANGED <<tries, seen, todo, cur, again, rows, unreadable, complete, readable, answer>> /\ Stays

(* scan_argv.  unreadable_listing: no listing, or one without the caller. *)
(* On Linux the directory is read as the scan goes, on macOS before it. *)
UnreadableListing == pc' = "registry" /\ readable' = FALSE /\ complete' = FALSE /\ UNCHANGED todo
ListAllPids == {p \in Pids : procs[p].st # "none"}
Lists ==
  /\ pc = "list"
  /\ IF proc \in {"unreadable", "foreign"} THEN UnreadableListing
     ELSE /\ pc' = "scan" /\ UNCHANGED readable /\ complete' = (proc = "ok")
          /\ todo' = IF os = "linux" THEN Pids ELSE ListAllPids
  /\ UNCHANGED <<tries, seen, cur, again, rows, unreadable, table, answer>> /\ Stays
Examined(p) == todo' = todo \ {p} /\ cur' = 0 /\ again' = FALSE
Gone(p) == Examined(p) /\ UNCHANGED <<rows, unreadable, complete>>
OwnerUnknown(p) == Examined(p) /\ complete' = FALSE /\ UNCHANGED <<rows, unreadable>>
Unreadable(p) == Examined(p) /\ unreadable' = unreadable \union {p} /\ UNCHANGED <<rows, complete>>
Live(p) == Examined(p) /\ rows' = rows \union {ReadBack(procs[p].argv)} /\ UNCHANGED <<unreadable, complete>>
Scanning == UNCHANGED <<tries, seen, readable, table, answer, pc>> /\ Stays
(* owner_and_state: real and effective uid, and the state. *)
OwnerAndState(p) ==
  CASE procs[p].st = "none" -> "gone"
    [] procs[p].st # "none" /\ procs[p].owner # "own" -> procs[p].owner
    [] OTHER -> procs[p].st
(* proc_pidinfo, which answers only of the user's own living processes, *)
(* then kinfo_owner. *)
PidInfo(p) == procs[p].st = "live" /\ procs[p].owner # "unknown"
KinfoOwner(p) == IF procs[p].st = "none" THEN "gone" ELSE IF procs[p].owner = "own" THEN procs[p].st ELSE procs[p].owner
MacOwner(p) == IF PidInfo(p) THEN (IF procs[p].owner = "own" THEN "live" ELSE "other") ELSE KinfoOwner(p)
(* Gone, another user's and a zombie are passed over; an owner that cannot *)
(* be read is not. *)
Classify(p, owner) ==
  CASE owner \in {"gone", "other", "zombie"} -> Gone(p)
    [] owner = "unknown" -> OwnerUnknown(p)
    [] OTHER -> cur' = p /\ UNCHANGED <<todo, again, rows, unreadable, complete>>
Examines ==
  /\ pc = "scan" /\ cur = 0 /\ todo # {}
  /\ Classify(Min(todo), IF os = "linux" THEN OwnerAndState(Min(todo)) ELSE MacOwner(Min(todo)))
  /\ Scanning
(* status_kernel_thread, stat_kernel_thread: a kernel thread, which has no *)
(* arguments, is passed over when either file says that it is one. *)
StatKernelThread ==
  /\ pc = "scan" /\ cur # 0 /\ procs[cur].kernel /\ Gone(cur) /\ Scanning
StatUnread ==
  /\ pc = "scan" /\ cur # 0 /\ procs[cur].kernel /\ Unreadable(cur) /\ Scanning
(* The arguments.  None to be had: the process is asked about once more. *)
Empty(p) == ~procs[p].mm
(* Mutant: a process without arguments is taken for gone. *)
AsksAgainNot(p) == Gone(p)
AsksAgain(p) == IF Dead(p) THEN Gone(p) ELSE Unreadable(p)
ReadsArgv ==
  /\ pc = "scan" /\ cur # 0 /\ ~again /\ ~procs[cur].kernel
  /\ CASE procs[cur].st = "none" -> Gone(cur)
       [] procs[cur].st # "none" /\ Empty(cur) -> again' = TRUE /\ UNCHANGED <<todo, cur, rows, unreadable, complete>>
       [] OTHER -> Live(cur)
  /\ Scanning
ShowsNothing ==
  /\ pc = "scan" /\ cur # 0 /\ again /\ ~procs[cur].kernel /\ AsksAgain(cur) /\ Scanning
ScanEnds ==
  /\ pc = "scan" /\ cur = 0 /\ todo = {} /\ pc' = "registry"
  /\ UNCHANGED <<tries, seen, todo, cur, again, rows, unreadable, complete, readable, table, answer>> /\ Stays
IsWhole == readable /\ complete /\ unreadable = {}
MarkerComponent ==
  IF \E argv \in rows : ArgvCarriesMarker(argv) THEN "pending" ELSE IF IsWhole THEN "verified" ELSE "unknown"

(* The registry is read, the lock dropped and the verdict given.  A *)
(* transferred operation is its owner's; what is pending outranks what is *)
(* unknown; a durable end is a cancellation that is no launch failure, or *)
(* a verified retirement. *)
DurableEnd == seen \in {"cancelled", "retired"}
NoFurtherEffects(parts) == DurableEnd /\ \A c \in DOMAIN parts : parts[c] = "verified"
First(parts, status) == SelectSeq(<<"participants", "marker-scan", "registry">>, LAMBDA c : parts[c] = status)[1]
Verdict(parts) ==
  CASE seen = "transferred" -> Finish("transferred", "", FALSE)
    [] seen # "transferred" /\ \E c \in DOMAIN parts : parts[c] = "pending" -> Finish("live", First(parts, "pending"), NoFurtherEffects(parts))
    [] seen # "transferred" /\ (\A c \in DOMAIN parts : parts[c] # "pending") /\ \E c \in DOMAIN parts : parts[c] = "unknown" ->
         Finish("unknown", First(parts, "unknown"), NoFurtherEffects(parts))
    [] OTHER -> CASE seen \in {"reserved", "launched"} -> Finish("retire-required", seen, FALSE)
                  [] DurableEnd -> Finish("closed", seen, NoFurtherEffects(parts))
                  [] OTHER -> Finish("unknown", "record", FALSE)
Settles ==
  /\ pc = "registry"
  /\ \E registry \in {"verified", "pending", "unknown"} :
       Verdict([c \in {"participants", "marker-scan", "registry"} |->
                  CASE c = "participants" -> table [] c = "marker-scan" -> MarkerComponent [] OTHER -> registry])
  /\ UNCHANGED <<tries, seen>> /\ Unscanned /\ Stays

SettleNext ==
  \/ World \/ Records
  \/ TakesShared \/ Holder \/ LiveWriter \/ ReadsRecord \/ ReadsTable \/ Lists
  \/ Examines \/ StatKernelThread \/ StatUnread \/ ReadsArgv \/ ShowsNothing \/ ScanEnds \/ Settles
SettleSpec == SettleInit /\ [][SettleNext]_svars

----------------------------------------------------------------------------
SettleTypeOK ==
  /\ answer.verdict \in {"", "live", "unknown", "transferred", "retire-required", "closed"}
  /\ (answer.verdict # "") = (pc = "done")
  /\ cur \in Pids \union {0} /\ todo \subseteq Pids /\ unreadable \subseteq Pids
(* "No further effects" is answered only of a record that has ended and *)
(* when no process of the operation is left, recorded or not, whichever *)
(* image or half-exit the scan met it in, and none appears after. *)
(* (settle, scan_argv) *)
SettledIsQuiet ==
  answer.quiet => /\ answer.verdict = "closed" /\ rec \in {"cancelled", "retired"} /\ lock = "free"
                  /\ \A p \in Pids \ {Bystander} : Dead(p) \/ procs[p].argv = <<>>
(* A bystander never keeps an operation open: an argv that only mentions *)
(* the digest, or another user's process, is no match. *)
OnlyKinIsAMatch ==
  answer.kind = "marker-scan" /\ answer.verdict = "live" => \E argv \in rows : argv \in {Launcher, Daemon}
=============================================================================
