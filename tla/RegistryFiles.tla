--------------------------- MODULE RegistryFiles ---------------------------
(***************************************************************************)
(* One session name's files in the registry directory, one write at a      *)
(* time: what a reader that takes no lock meets between two of its reads.  *)
(* A daemon publishes its socket, its pid file and its record in that      *)
(* order and takes socket and pid file away when it ends; cleanup and the  *)
(* next launch follow.  A pid may be handed out again, an inode too.       *)
(***************************************************************************)
EXTENDS ProcessTable

CONSTANTS
  Pids,     \* pids the machine may use
  Inodes,   \* inode numbers the file system may use for one name
  Reused,   \* the files that may get any free inode; another's is the next after the one it had
  Short,    \* does <root>/<name>.sock fit a socket address?
  Boots,    \* boot identities a daemon may record
  MaxToken, \* bound: processes ever started
  MaxTick,  \* bound: ticks of the file system's clock
  MaxTouch  \* bound: rewrites of a record by a tag change

VARIABLES
  files,   \* "meta", "pid", "sock" (<name>.sock), "bsock" (the digest name) -> file
  procs,   \* pid -> [tok, state, leader]
  fork,    \* processes started so far
  daemon,  \* the newest daemon: its token, pid, boot and the step it is at
  clock    \* the tick that a write is stamped with

fvars == <<files, procs, fork, daemon, clock>>

FileNames == {"meta", "pid", "sock", "bsock"}
Boot == "here"
NoRecord == [gen |-> 0, pid |-> 0, tok |-> 0, boot |-> "none", exited |-> FALSE, touched |-> 0]
NoFile(f) == [ino |-> 0, at |-> 0, val |-> IF f = "meta" THEN NoRecord ELSE 0]
Here(file) == file.ino # 0
Live(tok) == \E p \in DOMAIN procs : procs[p].tok = tok

(* atomic_write, UnixListener::bind: a new inode, which is not the one the *)
(* file had while the temporary copy stood beside it. *)
AtomicWrite(f, v) ==
  \E i \in (IF f \in Reused THEN Inodes ELSE {1 + files[f].ino}) \ {files[f].ino} :
    files' = [files EXCEPT ![f] = [ino |-> i, at |-> clock, val |-> v]]

Unlink(f) == files' = [files EXCEPT ![f] = NoFile(f)]

(* socket_path_in: a published socket decides, else the length of the path. *)
SocketPathIn(present) ==
  CASE "bsock" \in present -> "bsock"
    [] "bsock" \notin present /\ "sock" \in present -> "sock"
    [] OTHER -> IF Short THEN "sock" ELSE "bsock"

Record(d) == [gen |-> d.tok, pid |-> d.pid, tok |-> d.tok, boot |-> d.boot, exited |-> FALSE, touched |-> 0]

(* publish_session: the daemon of the new generation, file by file. *)
Starts(p, boot) ==
  /\ daemon.at = "none" /\ p \notin DOMAIN procs /\ fork < MaxToken
  /\ fork' = fork + 1
  /\ procs' = [x \in DOMAIN procs \cup {p} |->
                 IF x = p THEN [tok |-> fork + 1, state |-> "run", leader |-> TRUE] ELSE procs[x]]
  /\ daemon' = [tok |-> fork + 1, pid |-> p, boot |-> boot, at |-> "bind"]
  /\ UNCHANGED <<files, clock>>

BindsSocket ==
  /\ daemon.at = "bind"
  /\ AtomicWrite(SocketPathIn({f \in FileNames : Here(files[f])}), daemon.tok)
  /\ daemon' = [daemon EXCEPT !.at = "pid"]
  /\ UNCHANGED <<procs, fork, clock>>

WritesPid ==
  /\ daemon.at = "pid"
  /\ AtomicWrite("pid", daemon.pid)
  /\ daemon' = [daemon EXCEPT !.at = "meta"]
  /\ UNCHANGED <<procs, fork, clock>>

WritesRecord ==
  /\ daemon.at = "meta"
  /\ AtomicWrite("meta", Record(daemon))
  /\ daemon' = [daemon EXCEPT !.at = "serving"]
  /\ UNCHANGED <<procs, fork, clock>>

(* write_exit_metadata, then cleanup_socket. *)
RecordsExit ==
  /\ daemon.at = "serving" /\ Live(daemon.tok)
  /\ AtomicWrite("meta", [files["meta"].val EXCEPT !.exited = TRUE])
  /\ daemon' = [daemon EXCEPT !.at = "unsock"]
  /\ UNCHANGED <<procs, fork, clock>>

(* cleanup_socket and cleanup_all_while_locked: by the daemon as it ends, *)
(* or by a command once the daemon is known to be dead. *)
Removes ==
  LET next == [unsock |-> "unpid", unpid |-> "unmeta", unmeta |-> "none"]
      gone == IF Here(files["bsock"]) THEN "bsock" ELSE "sock"
  IN  /\ daemon.at \in DOMAIN next
      /\ Unlink(CASE daemon.at = "unsock" -> gone [] daemon.at = "unpid" -> "pid" [] OTHER -> "meta")
      /\ daemon' = [daemon EXCEPT !.at = next[@]]
      /\ UNCHANGED <<procs, fork, clock>>

(* A daemon may end anywhere; a command then cleans up, or a launch takes *)
(* the row over as it is. *)
Dies ==
  /\ Live(daemon.tok)
  /\ procs' = [x \in DOMAIN procs \ {daemon.pid} |-> procs[x]]
  /\ UNCHANGED <<files, fork, daemon, clock>>

Abandoned ==
  /\ daemon.at \notin {"none", "unpid", "unmeta"} /\ ~Live(daemon.tok)
  /\ daemon' = [daemon EXCEPT !.at = "unsock"] \/ daemon' = [daemon EXCEPT !.at = "none"]
  /\ UNCHANGED <<files, procs, fork, clock>>

(* A process or a thread of a stranger gets a pid; it ends. *)
Stranger(p) ==
  /\ fork < MaxToken /\ p \notin DOMAIN procs
  /\ fork' = fork + 1
  /\ \E lead \in BOOLEAN :
       procs' = [x \in DOMAIN procs \cup {p} |->
                   IF x = p THEN [tok |-> fork + 1, state |-> "run", leader |-> lead] ELSE procs[x]]
  /\ UNCHANGED <<files, daemon, clock>>

(* A tag change rewrites the record in place of itself. *)
Touches ==
  /\ Here(files["meta"]) /\ daemon.at = "serving" /\ files["meta"].val.touched < MaxTouch
  /\ AtomicWrite("meta", [files["meta"].val EXCEPT !.touched = @ + 1])
  /\ UNCHANGED <<procs, fork, daemon, clock>>

Ticks == clock < MaxTick /\ clock' = clock + 1 /\ UNCHANGED <<files, procs, fork, daemon>>

FilesInit ==
  /\ files = [f \in FileNames |-> NoFile(f)]
  /\ procs = <<>> /\ fork = 0 /\ clock = 0
  /\ daemon = [tok |-> 0, pid |-> 0, boot |-> "none", at |-> "none"]

FilesStep ==
  \/ \E p \in Pids : Stranger(p) \/ \E boot \in Boots : Starts(p, boot)
  \/ BindsSocket \/ WritesPid \/ WritesRecord \/ RecordsExit \/ Removes \/ Dies \/ Abandoned \/ Touches \/ Ticks
=============================================================================
