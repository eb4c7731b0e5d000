-------------------------- MODULE MCCommands --------------------------
(* The commands a user runs against the registry and its daemons: each one *)
(* is looked at by itself, in one run. *)
EXTENDS PlainLaunch, AttachClient, PeerQuery, TerminalHandle, Picker, CommandLine

CONSTANT Parts  \* the components this run looks at, one at a time

VARIABLES part

vars == <<part, lvars, avars, qvars, hvars, pvars, cmdvars>>

(* A component that is not looked at has no state. *)
NoLaunch == dmn = 0 /\ row = 0 /\ elock = 0 /\ clock = 0 /\ pin = 0 /\ usr = 0
NoAttach == a = 0 /\ seen = 0 /\ peer = 0 /\ session = 0 /\ user = 0
NoQuery == q = 0 /\ wire = 0 /\ dae = 0 /\ got = 0
NoHandle == core = 0 /\ st = 0 /\ pub = 0 /\ chan = 0 /\ rdr = 0 /\ prog = 0
  /\ api = 0
NoPicker == world = 0 /\ all = 0 /\ shown = 0 /\ filter = 0 /\ region = 0
  /\ notice = 0 /\ theme = 0 /\ saved = 0 /\ ui = 0 /\ target = 0 /\ dirty = 0
  /\ exit = 0 /\ term = 0 /\ height = 0 /\ reader = 0 /\ paused = 0
  /\ stop = 0 /\ input = 0 /\ channel = 0 /\ frame = 0 /\ aim = 0
  /\ allowed = 0 /\ typed = 0 /\ changes = 0
NoWords == words = 0 /\ nested = 0 /\ outcome = 0

Init ==
  /\ part \in Parts
  /\ IF part = "launch" THEN LaunchInit ELSE NoLaunch
  /\ IF part = "attach" THEN AttachInit ELSE NoAttach
  /\ IF part = "query" THEN QueryInit ELSE NoQuery
  /\ IF part = "handle" THEN HandleInit ELSE NoHandle
  /\ IF part = "picker" THEN PickerInit ELSE NoPicker
  /\ IF part = "words" THEN CommandInit ELSE NoWords

LaunchMoves ==
  part = "launch" /\ LaunchNext /\ UNCHANGED <<part, avars, qvars, hvars,
    pvars, cmdvars>>
AttachMoves ==
  part = "attach" /\ AttachNext /\ UNCHANGED <<part, lvars, qvars, hvars,
    pvars, cmdvars>>
QueryMoves ==
  part = "query" /\ QueryNext /\ UNCHANGED <<part, lvars, avars, hvars, pvars,
    cmdvars>>
HandleMoves ==
  part = "handle" /\ HandleNext /\ UNCHANGED <<part, lvars, avars, qvars,
    pvars, cmdvars>>
PickerMoves ==
  part = "picker" /\ PickerNext /\ UNCHANGED <<part, lvars, avars, qvars,
    hvars, cmdvars>>
WordsMoves ==
  part = "words" /\ CommandNext /\ UNCHANGED <<part, lvars, avars, qvars,
    hvars, pvars>>

Next == LaunchMoves \/ AttachMoves \/ QueryMoves \/ HandleMoves \/ PickerMoves
        \/ WordsMoves

Spec == Init /\ [][Next]_vars
----------------------------------------------------------------------------
(* Daemon::claim and launch: however launches, restarts and stops overlap, *)
(* at most one daemon serves the name. *)
LaunchesAreExclusive == part = "launch" => OneDaemonServes

(* launch.rs, restart.rs, up.rs, down.rs: no command that looked earlier *)
(* takes or replaces the record of a daemon that serves and was not told to *)
(* stop. *)
LiveDaemonsKeepRecords == [][part = "launch" => LiveDaemonKeepsRecord]_vars

(* attach.rs: what the terminal shows is the session's output with nothing *)
(* missing, repeated or reordered since the last screen of its connection, *)
(* across reconnects, and only the peer's own bytes are malformed. *)
(* handle.rs: the cached snapshot is current, a ready or open read belongs *)
(* to the current attempt, observers know the published frame, every read *)
(* is answered once. *)
ViewsAreCurrent ==
  /\ part = "attach" => ViewIsWhole /\ MalformedOnlyFromPeer
  /\ part = "handle" => /\ CacheIsCurrent /\ ReadyIsOwnScreen /\ OpenReadIsLive
                         /\ ObserverIsUpToDate /\ ReadsAnsweredOnce

(* connection.rs, control.rs, send.rs: a stream hands on every frame once, *)
(* in order, the ones read ahead included; a control answer comes from the *)
(* daemon that was asked for; a send that reports success delivered all. *)
AnswersAreOwn == part = "query" => NothingLostOrReordered /\ ControlAnswerIsOwn /\ SendIsWhole

(* What the user chose is what is done.  interactive: a refresh leaves the *)
(* selection on the row the user chose, and a reader thread told to pause *)
(* takes of a session's input no more than the read it was in.  cli: words after the command reach the *)
(* child, a change is made to what was named, and no word that a command *)
(* takes is lost. *)
ChoicesAreKept ==
  /\ part = "picker" => SelectionIsKept /\ TerminalIsLent
  /\ part = "words" => WordsReachTarget /\ EveryWordCounts
============================================================================
