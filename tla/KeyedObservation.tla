-------------------------- MODULE KeyedObservation --------------------------
(***************************************************************************)
(* The exact-name observation of a session (registry/keyed.rs): read every *)
(* file, judge, ask for the process, read every file and the process       *)
(* again, and answer only if nothing moved.                                *)
(***************************************************************************)
EXTENDS RegistryFiles

CONSTANTS Attempts,  \* KeyedSessionOptions.attempts
          Faults     \* may a read fail?

VARIABLES
  at,      \* the step the observer is at
  tries,   \* attempts begun
  first,   \* the first capture, as far as it was read: file -> file
  again,   \* the second capture
  seen,    \* the process read after the first capture: {} when there is none
  answer,  \* KeyedSession, or what the judgement has prepared
  held     \* ghost: was the prepared answer (Missing at first) true at an instant?

kvars == <<files, procs, fork, daemon, clock, at, tries, first, again, seen, answer, held>>

Missing == [kind |-> "missing"]
Indeterminate(e) == [kind |-> "indeterminate", error |-> e]
Found(status, identity, pid, rec) ==
  [kind |-> "found", status |-> status, identity |-> identity, pid |-> pid, rec |-> rec]

(* KeyedSessionError::retryable. *)
Retryable(e) == e \notin {"InvalidName", "RootUnreadable", "EntryUnsafe"}

CaptureOrder == <<"meta", "pid", "sock", "bsock">>

(* Stamp: device, inode, mode, owner and size, and the bytes of a *)
(* companion; not its times, and nothing of what a socket answers. *)
Stamp(f, file) == [ino |-> file.ino, val |-> IF f \in {"sock", "bsock"} THEN 0 ELSE file.val]
SameCapture(a, b) == \A f \in FileNames : Stamp(f, a[f]) = Stamp(f, b[f])

AllAbsent(c) == \A f \in FileNames : ~Here(c[f])
HasSocket(c) == Here(c["sock"]) \/ Here(c["bsock"])
Metadata(c) == IF ~Here(c["meta"]) THEN NoRecord ELSE c["meta"].val
Disagree(c) == Here(c["pid"]) /\ Metadata(c).pid # 0 /\ c["pid"].val # Metadata(c).pid
PidOf(c) == IF Here(c["pid"]) THEN c["pid"].val ELSE Metadata(c).pid
Selected(c) == SocketPathIn({f \in FileNames : Here(c[f])})

(* The identity of attempt: the process found at the pid, or an error. *)
KeyedIdentity(c, process) ==
  LET rec == Metadata(c) IN
  CASE PidOf(c) # 0 /\ process = {} -> "gone"
    [] PidOf(c) # 0 /\ process # {} ->
         LET r == CHOOSE r \in process : TRUE IN
         CASE ~r.leader -> "mismatch"
           [] r.leader /\ rec.tok = r.tok -> CheckBootIdentity(rec, Boot)
           [] OTHER -> "error"
    [] OTHER -> IF rec # NoRecord /\ ~HasSocket(c) THEN "gone" ELSE "unknown"

(* The judgement of attempt over a capture and a process: an error, an *)
(* answer, or "probe" when only the socket can tell. *)
Judgement(c, process) ==
  LET rec == Metadata(c)  id == KeyedIdentity(c, process) IN
  CASE AllAbsent(c) -> Missing
    [] ~AllAbsent(c) /\ (Disagree(c) \/ (~Here(c["meta"]) /\ ~HasSocket(c)) \/ id = "error") ->
         Indeterminate("ProcessIdentity")
    [] OTHER ->
         LET pid == IF id \in {"match", "unknown"} THEN PidOf(c) ELSE 0
             status == CASE rec.exited -> "exited"
                         [] ~rec.exited /\ id \in {"mismatch", "gone"} -> "vanished"
                         [] ~rec.exited /\ id = "unknown" /\ pid = 0 -> "probe"
                         [] OTHER -> "running"
         IN  Found(status, id, pid, rec)

(* probe_result: a listening socket answers, another errs. *)
Probed(c, j) ==
  CASE j.kind = "found" /\ j.status = "probe" ->
         IF Live(c[Selected(c)].val) THEN [j EXCEPT !.status = "running"] ELSE Indeterminate("SocketProbe")
    [] OTHER -> j

(* What an observer that read everything at once would answer now. *)
Now == Probed(files, Judgement(files, Process(procs, PidOf(files))))

----------------------------------------------------------------------------
Fresh == [f \in FileNames |-> NoFile(f)]

Ends(a) ==
  /\ at' = "done" /\ answer' = a /\ tries' = 0 /\ first' = Fresh /\ again' = Fresh /\ seen' = {}
  /\ UNCHANGED <<fvars, held>>

Fail(e) ==
  IF Retryable(e) /\ tries < Attempts
  THEN /\ at' = "c1" /\ tries' = tries + 1 /\ first' = Fresh /\ again' = Fresh /\ seen' = {}
       /\ answer' = Missing /\ held' = (Now = Missing)
       /\ UNCHANGED fvars
  ELSE Ends(Indeterminate(e))

(* observe_with, open_root: no root, no session. *)
Observe ==
  /\ at \in {"idle", "done"}
  /\ at' = "c1" /\ tries' = 1 /\ first' = Fresh /\ again' = Fresh /\ seen' = {}
  /\ answer' = Missing /\ held' = (Now = Missing)
  /\ UNCHANGED fvars

(* read_companion and stat_socket: one file of a capture, or an error. *)
Next4(s) == [c1 |-> 1, c1b |-> 2, c1c |-> 3, c1d |-> 4, c2 |-> 1, c2b |-> 2, c2c |-> 3, c2d |-> 4][s]
After(s) == [c1 |-> "c1b", c1b |-> "c1c", c1c |-> "c1d", c1d |-> "judge",
             c2 |-> "c2b", c2b |-> "c2c", c2c |-> "c2d", c2d |-> "confirm"][s]

ReadFirst ==
  /\ at \in {"c1", "c1b", "c1c", "c1d"}
  /\ first' = [first EXCEPT ![CaptureOrder[Next4(at)]] = files[CaptureOrder[Next4(at)]]]
  /\ at' = After(at)
  /\ UNCHANGED <<fvars, tries, again, seen, answer, held>>

ReadAgain ==
  /\ at \in {"c2", "c2b", "c2c", "c2d"}
  /\ again' = [again EXCEPT ![CaptureOrder[Next4(at)]] = files[CaptureOrder[Next4(at)]]]
  /\ at' = After(at)
  /\ UNCHANGED <<fvars, tries, first, seen, answer, held>>

ReadFails ==
  /\ Faults /\ at \notin {"idle", "done", "judge", "probe", "confirm"}
  /\ \E e \in {"EntryUnreadable", "EntryUnsafe"} : Fail(e)

(* The rest of attempt up to the second capture, with the first read of *)
(* the process. *)
Judges ==
  /\ at = "judge"
  /\ LET process == Process(procs, PidOf(first))
         j == Judgement(first, process)
     IN  \/ j.kind = "indeterminate" /\ Fail(j.error)
         \/ /\ j.kind # "indeterminate"
            /\ seen' = process /\ answer' = j
            /\ at' = IF j.kind = "found" /\ j.status = "probe" THEN "probe" ELSE "c2"
            /\ held' = (Now = j \/ (held /\ j = Missing))
            /\ UNCHANGED <<fvars, tries, first, again>>

(* probe_socket, open_socket_leaf: the pinned leaf must still be the one *)
(* that was captured. *)
Probes ==
  /\ at = "probe"
  /\ LET leaf == Selected(first)  j == Probed(first, answer) IN
     IF Stamp(leaf, files[leaf]) # Stamp(leaf, first[leaf]) THEN Fail("Changed")
     ELSE IF j.kind = "indeterminate" THEN Fail("SocketProbe")
     ELSE answer' = j /\ at' = "c2" /\ held' = (Now = j) /\ UNCHANGED <<fvars, tries, first, again, seen>>

(* Mutant: the second capture is not compared with the first. *)
UnmovedProcess == Process(procs, PidOf(first)) = seen

Unmoved == SameCapture(first, again) /\ Process(procs, PidOf(first)) = seen

Confirms ==
  /\ at = "confirm"
  /\ IF Unmoved
     THEN Ends(answer)
     ELSE Fail("Changed")

World ==
  /\ FilesStep
  /\ held' = (held \/ (at \notin {"idle", "done"} /\ Now' = answer))
  /\ UNCHANGED <<at, tries, first, again, seen, answer>>

KeyedInit ==
  /\ FilesInit
  /\ at = "idle" /\ tries = 0 /\ first = Fresh /\ again = Fresh /\ seen = {}
  /\ answer = Missing /\ held = FALSE

KeyedNext == Observe \/ ReadFirst \/ ReadAgain \/ ReadFails \/ Judges \/ Probes \/ Confirms \/ World
KeyedSpec == KeyedInit /\ [][KeyedNext]_kvars

----------------------------------------------------------------------------
(* Missing, and Found with a record, is the session's state of one instant *)
(* of the observation: record, pid file, socket and process together, *)
(* although each was read at a time of its own while daemons started, *)
(* ended and cleaned up, and although a pid or an inode may come back as *)
(* another one's. *)
AnswerWasTrue ==
  at = "done" /\ (answer = Missing \/ (answer.kind = "found" /\ answer.rec # NoRecord)) => held
=============================================================================
