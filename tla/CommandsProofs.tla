--------------------------- MODULE CommandsProofs ---------------------------
(***************************************************************************)
(* Proofs about the commands of a user: those that start and stop a        *)
(* session's daemon, for any number of users, whatever each of them runs,  *)
(* and of daemons; attach's client, over any number of connections; and    *)
(* the terminal handle, over any number of attempts, readers and callers.  *)
(***************************************************************************)
EXTENDS MCCommands, TLAPS

----------------------------------------------------------------------------
(* The inductive invariant. *)

Places == {"idle", "elock", "clock", "check", "spawn", "socket", "publication",
           "release", "stop", "loss", "names", "remove", "id", "done"}
DaemonStates == {"none", "born", "pinned", "bound", "recorded", "serving", "dead"}
Publishing == {"pinned", "bound", "recorded"}
Started == {"socket", "publication", "release", "done"}
Results == {"none", "running", "missing", "stopped", "changed", "stays", "removed",
            "skipped", "taken", "busy", "error", "timeout", "exited", "ok"}
Numbers == Daemons \cup {0}

DaemonType == [st : DaemonStates, by : {Free} \cup {User(u) : u \in Users},
               term : BOOLEAN, told : BOOLEAN]
UserType == [op : UserCommands, img : Images, pc : Places, obs : Numbers,
             names : BOOLEAN, d : Numbers, result : Results]
RowType == [rec : Numbers, sock : BOOLEAN, started : BOOLEAN, exited : BOOLEAN]
LaunchTypes ==
  /\ dmn \in [Daemons -> DaemonType] /\ usr \in [Users -> UserType]
  /\ row \in RowType /\ pin \in Numbers

(* Whoever publishes has the claim pinned; the record is of a daemon that *)
(* was started, and is the publishing one's once it is recorded. *)
PinInv ==
  /\ \A d \in Daemons : dmn[d].st \in Publishing <=> pin = d
  /\ \A d \in Daemons : dmn[d].st = "recorded" => row.rec = d /\ ~row.exited
  /\ row.rec # 0 => dmn[row.rec].st # "none"

(* A daemon that serves and was not told to stop has the record, and nobody *)
(* publishes. *)
InService(d) == dmn[d].st = "serving" /\ ~dmn[d].term
ServeInv ==
  \A d \in Daemons : InService(d) => row.rec = d /\ ~row.exited /\ pin = 0

(* A command that looks under the locks has the claim, nobody has it *)
(* pinned, and the daemon it remembers is dead. *)
CheckInv(u) ==
  /\ usr[u].pc = "check" => clock = User(u) /\ pin = 0
  /\ usr[u].pc \in {"stop", "loss"} => usr[u].obs # 0 /\ dmn[usr[u].obs].st # "none"
  /\ usr[u].pc \in {"elock", "clock", "check"} =>
       usr[u].op = "run" \/ (usr[u].obs # 0 /\ dmn[usr[u].obs].st = "dead")

(* A claim is lent to the daemon of a command that is past its start. *)
LentInv(u) == \A d \in Daemons : dmn[d].by = User(u) => usr[u].pc \in Started

LaunchInv ==
  /\ LaunchTypes /\ PinInv /\ ServeInv
  /\ \A u \in Users : CheckInv(u) /\ LentInv(u)

----------------------------------------------------------------------------
(* What the parts of a step do. *)

LEMMA NumberFacts ==
  /\ 0 \notin Daemons /\ 1 \in Daemons /\ Numbers = Daemons \cup {0}
  /\ \A u, v : User(u) = User(v) => u = v
  /\ \A u, d : User(u) # Free /\ Dmn(d) # Free /\ User(u) # Dmn(d)
BY LaunchAssumption DEF Daemons, Numbers, User, Dmn, Free

(* A session that is not running has no daemon that serves. *)
LEMMA NotRunning ==
  ASSUME LaunchInv, NewSession # "running"
  PROVE  \A d \in Daemons : ~InService(d)
<1> SUFFICES ASSUME NEW d \in Daemons, InService(d) PROVE FALSE BY SMTT(60)
<1>1. row.rec = d /\ ~row.exited BY DEF LaunchInv, ServeInv
<1>2. Live(row.rec) /\ row.rec # 0 BY <1>1, NumberFacts DEF Live, InService
<1> QED BY <1>1, <1>2, Zenon DEF NewSession

(* A command's step changes only its own place. *)
UserMoves(u) ==
  /\ usr' \in [Users -> UserType]
  /\ \A v \in Users \ {u} : usr'[v] = usr[v]
  /\ usr'[u].op = usr[u].op


(* A SIGTERM is the most it does to a daemon. *)
Signals ==
  /\ dmn' \in [Daemons -> DaemonType]
  /\ \A d \in Daemons : /\ dmn'[d].st = dmn[d].st /\ dmn'[d].by = dmn[d].by
                        /\ dmn[d].term => dmn'[d].term

LEMMA SignalFacts ==
  ASSUME LaunchInv
  PROVE  /\ UNCHANGED dmn => Signals
         /\ \A d \in Numbers : Stops(d) => Signals
<1>1. dmn \in [Daemons -> DaemonType] BY DEF LaunchInv, LaunchTypes
<1>2. UNCHANGED dmn => Signals BY <1>1 DEF Signals
<1>3. ASSUME NEW d \in Numbers, Stops(d) PROVE Signals
  <2>1. dmn' = [dmn EXCEPT ![d].term = TRUE] BY <1>3 DEF Stops
  <2> QED BY <1>1, <2>1 DEF Signals, DaemonType
<1> QED BY <1>2, <1>3

(* The record goes only when nobody serves or publishes. *)
RowGoes == row' = NoRow /\ pin = 0 /\ \A d \in Daemons : ~InService(d)

LEMMA UserKeeps ==
  ASSUME LaunchInv, NEW u \in Users, UserMoves(u), Signals, UNCHANGED pin,
         UNCHANGED row \/ RowGoes,
         \A v \in Users \ {u} : clock = User(v) => clock' = User(v),
         usr[u].pc \in Started => usr'[u].pc \in Started,
         CheckInv(u)'
  PROVE  LaunchInv'
<1>0. /\ dmn \in [Daemons -> DaemonType] /\ usr \in [Users -> UserType]
      /\ row \in RowType /\ pin \in Numbers BY DEF LaunchInv, LaunchTypes
<1>1. LaunchTypes'
  <2>1. NoRow \in RowType BY DEF NoRow, RowType, Numbers
  <2> QED BY <1>0, <2>1 DEF LaunchTypes, UserMoves, Signals, RowGoes
<1>2. PinInv'
  <2>1. \A d \in Daemons : dmn[d].st \in Publishing <=> pin = d BY DEF LaunchInv, PinInv
  <2>2. \A d \in Daemons : dmn'[d].st \in Publishing <=> pin' = d BY <2>1 DEF Signals
  <2>3. CASE UNCHANGED row BY <1>0, <2>2, <2>3 DEF LaunchInv, PinInv, Signals, RowType, Numbers
  <2>4. CASE RowGoes
    <3>1. row'.rec = 0 BY <2>4 DEF RowGoes, NoRow
    <3>2. \A d \in Daemons : dmn[d].st # "recorded" BY <2>1, <2>4, NumberFacts DEF RowGoes, Publishing
    <3> QED BY <2>2, <3>1, <3>2 DEF PinInv, Signals
  <2> QED BY <2>3, <2>4
<1>3. ServeInv'
  <2> SUFFICES ASSUME NEW d \in Daemons, InService(d)'
               PROVE  row'.rec = d /\ ~row'.exited /\ pin' = 0 BY DEF ServeInv
  <2>1. InService(d) BY DEF InService, Signals
  <2>2. UNCHANGED row BY <2>1 DEF RowGoes
  <2> QED BY <2>1, <2>2 DEF LaunchInv, ServeInv
<1>4. ASSUME NEW v \in Users, v # u PROVE CheckInv(v)'
  <2>1. usr'[v] = usr[v] /\ usr[v].obs \in Numbers BY <1>0, <1>4 DEF UserMoves, UserType
  <2>2. usr[v].obs # 0 => dmn'[usr[v].obs].st = dmn[usr[v].obs].st BY <2>1 DEF Signals, Numbers
  <2>3. CheckInv(v) BY DEF LaunchInv
  <2> QED BY <1>4, <2>1, <2>2, <2>3 DEF CheckInv
<1>5. ASSUME NEW v \in Users PROVE LentInv(v)'
  <2>1. LentInv(v) BY DEF LaunchInv
  <2>2. CASE v = u BY <2>1, <2>2 DEF LentInv, Signals
  <2>3. CASE v # u BY <2>1, <2>3 DEF LentInv, Signals, UserMoves
  <2> QED BY <2>2, <2>3
<1> QED BY <1>1, <1>2, <1>3, <1>4, <1>5 DEF LaunchInv

(* Where a command goes, and what it remembers. *)
Goes(u, p, o) == UserMoves(u) /\ usr'[u].pc = p /\ usr'[u].obs = o

LEMMA SetGoes ==
  ASSUME LaunchInv, NEW u \in Users
  PROVE  /\ \A p \in Places : Set(u, [pc |-> p]) => Goes(u, p, usr[u].obs)
         /\ \A p \in Places, o \in Numbers :
              /\ Set(u, [pc |-> p, obs |-> o]) => Goes(u, p, o)
              /\ Set(u, [obs |-> o, pc |-> p]) => Goes(u, p, o)
              /\ Set(u, [pc |-> p, d |-> o]) => Goes(u, p, usr[u].obs)
         /\ \A p \in Places, r \in Results :
              Set(u, [pc |-> p, result |-> r]) => Goes(u, p, usr[u].obs)
         /\ \A r \in Results : Set(u, Finished(u, r)) => Goes(u, "done", usr[u].obs)
         /\ \A p \in Places, b \in BOOLEAN :
              Set(u, [names |-> b, pc |-> p]) => Goes(u, p, usr[u].obs)
<1>0. usr \in [Users -> UserType] BY DEF LaunchInv, LaunchTypes
<1>1. ASSUME NEW p \in Places, Set(u, [pc |-> p]) PROVE Goes(u, p, usr[u].obs)
  BY <1>0, <1>1 DEF Set, Goes, UserMoves, UserType
<1>2. ASSUME NEW p \in Places, NEW o \in Numbers PROVE
              /\ Set(u, [pc |-> p, obs |-> o]) => Goes(u, p, o)
              /\ Set(u, [obs |-> o, pc |-> p]) => Goes(u, p, o)
              /\ Set(u, [pc |-> p, d |-> o]) => Goes(u, p, usr[u].obs)
  BY <1>0, <1>2 DEF Set, Goes, UserMoves, UserType
<1>3. ASSUME NEW p \in Places, NEW r \in Results, Set(u, [pc |-> p, result |-> r])
      PROVE  Goes(u, p, usr[u].obs) BY <1>0, <1>3 DEF Set, Goes, UserMoves, UserType
<1>4. ASSUME NEW r \in Results, Set(u, Finished(u, r)) PROVE Goes(u, "done", usr[u].obs)
  BY <1>3, <1>4 DEF Finished, Places
<1>5. ASSUME NEW p \in Places, NEW b \in BOOLEAN, Set(u, [names |-> b, pc |-> p])
      PROVE  Goes(u, p, usr[u].obs) BY <1>0, <1>5 DEF Set, Goes, UserMoves, UserType
<1> QED BY <1>1, <1>2, <1>3, <1>4, <1>5

(* Places where a command has nothing to remember yet or any more. *)
Unguarded == Places \ {"check", "stop", "loss", "elock", "clock"}

LEMMA GoesPlainly ==
  ASSUME LaunchInv, NEW u \in Users, NEW p \in Unguarded, NEW o, Goes(u, p, o),
         Signals, UNCHANGED pin, UNCHANGED row \/ RowGoes,
         \A v \in Users \ {u} : clock = User(v) => clock' = User(v),
         usr[u].pc \in Started => p \in Started
  PROVE  LaunchInv'
<1>1. CheckInv(u)' BY DEF CheckInv, Goes, Unguarded
<1> QED BY <1>1, UserKeeps DEF Goes

(* Looking changes nothing but the one who looks. *)
LEMMA LooksKeep ==
  ASSUME LaunchInv, NEW u \in Users, Looks(u)
  PROVE  LaunchInv'
<1>0. UNCHANGED <<dmn, row, elock, clock, pin>> /\ usr[u].pc = "idle"
  BY DEF Looks, RunLooks, AttachLooks, RestartLooks, ManifestLooks, Locks, At
<1>1. row.rec \in Numbers /\ (row.rec # 0 => dmn[row.rec].st # "none") /\ 0 \in Numbers
  BY DEF LaunchInv, LaunchTypes, RowType, PinInv, Numbers
<1>2. Signals BY <1>0, SignalFacts
<1>3. ASSUME NEW o, Goes(u, "done", o) \/ Goes(u, "names", o) \/ Goes(u, "remove", o)
      PROVE  LaunchInv'
  <2>1. {"done", "names", "remove"} \subseteq Unguarded BY DEF Unguarded, Places
  <2>2. usr[u].pc \notin Started BY <1>0 DEF Started
  <2> QED BY <1>0, <1>2, <1>3, <2>1, <2>2, GoesPlainly
<1>4. ASSUME NEW p \in {"stop", "loss"}, Goes(u, p, row.rec), row.rec # 0
      PROVE  LaunchInv'
  <2>1. CheckInv(u)' BY <1>0, <1>1, <1>4 DEF CheckInv, Goes
  <2>2. usr[u].pc \notin Started BY <1>0 DEF Started
  <2> QED BY <1>0, <1>2, <1>4, <2>1, <2>2, UserKeeps DEF Goes
<1>p. {"done", "names", "remove", "elock", "stop", "loss"} \subseteq Places BY DEF Places
<1>s. {"running", "missing"} \subseteq Results BY DEF Results
<1>5. CASE RunLooks(u)
  <2>1. CASE Set(u, Finished(u, "running")) BY <1>3, <1>s, <2>1, SetGoes
  <2>2. CASE Set(u, [pc |-> "elock", obs |-> 0])
    <3>1. Goes(u, "elock", 0) BY <1>1, <1>p, <2>2, SetGoes
    <3>2. usr'[u].op = "run" BY <1>5, <3>1 DEF RunLooks, Goes, UserMoves
    <3>3. CheckInv(u)' BY <3>1, <3>2 DEF CheckInv, Goes
    <3>4. usr[u].pc \notin Started BY <1>0 DEF Started
    <3> QED BY <1>0, <1>2, <3>1, <3>3, <3>4, UserKeeps DEF Goes
  <2> QED BY <1>5, <2>1, <2>2 DEF RunLooks
<1>n. NewSession \notin {"none", "running"} => row.rec # 0 BY DEF NewSession
<1>r. NewSession = "running" => row.rec # 0 BY DEF NewSession
<1>6. CASE AttachLooks(u)
  <2>1. \/ Set(u, Finished(u, "missing")) \/ Set(u, Finished(u, "running"))
        \/ Set(u, [pc |-> "loss", obs |-> row.rec]) /\ row.rec # 0 BY <1>6, <1>n DEF AttachLooks
  <2>2. \/ Goes(u, "done", usr[u].obs)
        \/ (Goes(u, "loss", row.rec) /\ row.rec # 0) BY <1>1, <1>p, <1>s, <2>1, SetGoes
  <2> QED BY <1>3, <1>4, <2>2
<1>7. CASE RestartLooks(u)
  <2>1. \/ Set(u, Finished(u, "missing"))
        \/ Set(u, [pc |-> "stop", obs |-> row.rec]) /\ row.rec # 0
        \/ Set(u, [pc |-> "loss", obs |-> row.rec]) /\ row.rec # 0 BY <1>7, <1>n, <1>r DEF RestartLooks
  <2>2. \/ Goes(u, "done", usr[u].obs)
        \/ (Goes(u, "loss", row.rec) /\ row.rec # 0)
        \/ (Goes(u, "stop", row.rec) /\ row.rec # 0) BY <1>1, <1>p, <1>s, <2>1, SetGoes
  <2> QED BY <1>3, <1>4, <2>2
<1>8. CASE ManifestLooks(u)
  <2>1. PICK p \in {"done", "stop", "names", "remove"} :
             /\ Set(u, [obs |-> row.rec, pc |-> p])
             /\ p = "stop" => row.rec # 0 BY <1>8, <1>r DEF ManifestLooks
  <2>2. Goes(u, p, row.rec) BY <1>1, <1>p, <2>1, SetGoes
  <2> QED BY <1>3, <1>4, <2>1, <2>2
<1> QED BY <1>5, <1>6, <1>7, <1>8 DEF Looks

(* Steps of a command that end in a plain place and touch no lock. *)
LEMMA PlainSteps ==
  ASSUME LaunchInv, NEW u \in Users,
         UpLists(u) \/ UpChooses(u) \/ Waits(u) \/ PublicationTimeout(u) \/ ManifestRemoves(u)
  PROVE  LaunchInv'
<1>0. UNCHANGED <<elock, clock, pin>>
  BY DEF UpLists, UpChooses, Waits, WaitsForSocket, SeesPublication, SeesAnother,
         SeesEarlyExit, PublicationTimeout, ManifestRemoves, Locks
<1>p. {"remove", "id", "spawn", "done", "publication", "release"} \subseteq Places \cap Unguarded
  BY DEF Places, Unguarded
<1>s. {"taken", "timeout", "exited", "ok", "removed", "skipped"} \subseteq Results BY DEF Results
<1>d. usr[u].d \in Numbers BY DEF LaunchInv, LaunchTypes, UserType
<1>c. ASSUME NEW p \in Unguarded, Goes(u, p, usr[u].obs), Signals, UNCHANGED row \/ RowGoes,
             usr[u].pc \in Started => p \in Started
      PROVE  LaunchInv' BY <1>0, <1>c, GoesPlainly
<1>1. CASE UpLists(u) \/ UpChooses(u)
  <2>1. \/ \E b \in BOOLEAN, p \in {"remove", "id"} : Set(u, [names |-> b, pc |-> p])
        \/ Set(u, Finished(u, "taken")) \/ Set(u, [pc |-> "spawn"]) BY <1>1 DEF UpLists, UpChooses
  <2>2. \E p \in {"remove", "id", "spawn", "done"} : Goes(u, p, usr[u].obs) BY <1>p, <1>s, <2>1, SetGoes
  <2>3. UNCHANGED <<dmn, row>> /\ usr[u].pc \notin Started BY <1>1 DEF UpLists, UpChooses, At, Started
  <2> QED BY <1>c, <1>p, <2>2, <2>3, SignalFacts
<1>g. GivesUp(u) => Goes(u, "release", usr[u].obs) /\ Signals
  BY <1>d, <1>p, <1>s, SetGoes, SignalFacts DEF GivesUp
<1>2. CASE Waits(u) \/ PublicationTimeout(u)
  <2>1. UNCHANGED row BY <1>2 DEF Waits, WaitsForSocket, SeesPublication, SeesAnother, SeesEarlyExit,
       PublicationTimeout
  <2>2. \/ GivesUp(u)
        \/ /\ UNCHANGED dmn
           /\ \/ Set(u, [pc |-> "publication"])
              \/ \E r \in {"exited", "ok"} : Set(u, [pc |-> "release", result |-> r])
    BY <1>2 DEF Waits, WaitsForSocket, SeesPublication, SeesAnother, SeesEarlyExit,
       PublicationTimeout
  <2>3. /\ Signals
        /\ Goes(u, "publication", usr[u].obs) \/ Goes(u, "release", usr[u].obs)
    BY <1>g, <1>p, <1>s, <2>2, SetGoes, SignalFacts
  <2>4. {"publication", "release"} \subseteq Started BY DEF Started
  <2> QED BY <1>c, <1>p, <2>1, <2>3, <2>4
<1>3. CASE ManifestRemoves(u)
  <2>1. UNCHANGED dmn /\ usr[u].pc \notin Started BY <1>3 DEF ManifestRemoves, At, Started
  <2>2. \/ Set(u, [pc |-> "id"]) \/ Set(u, Finished(u, "removed")) \/ Set(u, Finished(u, "skipped"))
    BY <1>3 DEF ManifestRemoves
  <2>3. Goes(u, "id", usr[u].obs) \/ Goes(u, "done", usr[u].obs) BY <1>p, <1>s, <2>2, SetGoes
  <2>4. CASE UNCHANGED row BY <1>c, <1>p, <2>1, <2>3, <2>4, SignalFacts
  <2>5. CASE row' = NoRow /\ ClaimFree /\ OwnerLost
    <3>1. NewSession # "running" BY <2>5 DEF NewSession, OwnerLost
    <3>2. RowGoes BY <2>5, <3>1, NotRunning DEF RowGoes, ClaimFree
    <3> QED BY <1>c, <1>p, <2>1, <2>3, <3>2, SignalFacts
  <2> QED BY <1>3, <2>4, <2>5 DEF ManifestRemoves
<1> QED BY <1>1, <1>2, <1>3

(* The stop of the daemon it remembers, and the wait for its end. *)
LEMMA StopSteps ==
  ASSUME LaunchInv, NEW u \in Users, RestartStops(u) \/ OwnerLossWaits(u)
  PROVE  LaunchInv'
<1>0. /\ UNCHANGED <<row, elock, clock, pin>> /\ usr[u].pc \in {"stop", "loss"}
      /\ usr[u].pc \notin Started BY DEF RestartStops, OwnerLossWaits, Locks, At, Started
<1>1. /\ usr[u].obs # 0 /\ dmn[usr[u].obs].st # "none" /\ usr[u].obs \in Numbers
      /\ row.rec \in Numbers BY <1>0 DEF LaunchInv, CheckInv, LaunchTypes, UserType, RowType
<1>p. {"done", "loss", "elock"} \subseteq Places /\ "done" \in Unguarded BY DEF Places, Unguarded
<1>s. {"stopped", "changed", "stays"} \subseteq Results BY DEF Results
<1>2. Signals
  <2>1. UNCHANGED dmn \/ Stops(row.rec) BY DEF RestartStops, OwnerLossWaits, Stops
  <2> QED BY <1>1, <2>1, SignalFacts
<1>3. \/ Goes(u, "done", usr[u].obs) \/ Goes(u, "loss", usr[u].obs)
      \/ Goes(u, "elock", usr[u].obs) /\ ~Live(usr[u].obs) /\ UNCHANGED dmn
  <2>1. \/ \E r \in {"stopped", "changed", "stays"} : Set(u, Finished(u, r))
        \/ Set(u, [pc |-> "loss"])
        \/ Set(u, [pc |-> "elock"]) /\ ~Live(usr[u].obs) /\ UNCHANGED dmn
    BY DEF RestartStops, OwnerLossWaits
  <2>2. CASE \E r \in {"stopped", "changed", "stays"} : Set(u, Finished(u, r)) BY <1>s, <2>2, SetGoes
  <2>3. CASE Set(u, [pc |-> "loss"]) BY <1>p, <2>3, SetGoes
  <2>4. CASE Set(u, [pc |-> "elock"]) /\ ~Live(usr[u].obs) /\ UNCHANGED dmn BY <1>p, <2>4, SetGoes
  <2> QED BY <2>1, <2>2, <2>3, <2>4
<1>4. CASE Goes(u, "done", usr[u].obs) BY <1>0, <1>2, <1>4, <1>p, GoesPlainly
<1>5. CASE Goes(u, "loss", usr[u].obs)
  <2>1. dmn'[usr[u].obs].st = dmn[usr[u].obs].st BY <1>1, <1>2 DEF Signals, Numbers
  <2>2. CheckInv(u)' BY <1>1, <1>5, <2>1 DEF CheckInv, Goes
  <2> QED BY <1>0, <1>2, <1>5, <2>2, UserKeeps DEF Goes
<1>6. CASE Goes(u, "elock", usr[u].obs) /\ ~Live(usr[u].obs) /\ UNCHANGED dmn
  <2>1. dmn[usr[u].obs].st = "dead" BY <1>1, <1>6 DEF Live
  <2>2. CheckInv(u)' BY <1>1, <1>6, <2>1 DEF CheckInv, Goes
  <2> QED BY <1>0, <1>2, <1>6, <2>2, UserKeeps DEF Goes
<1> QED BY <1>3, <1>4, <1>5, <1>6

(* Taking the locks, looking under them, and letting go. *)
LEMMA LockSteps ==
  ASSUME LaunchInv, NEW u \in Users,
         TakesEvents(u) \/ TakesCreation(u) \/ Checks(u) \/ Releases(u)
  PROVE  LaunchInv'
<1>0. UNCHANGED <<dmn, pin>> /\ usr[u].obs \in Numbers
  BY DEF LaunchInv, LaunchTypes, UserType, TakesEvents, TakesCreation, Checks, Releases
<1>2. Signals BY <1>0, SignalFacts
<1>p. /\ {"done", "clock", "check", "spawn"} \subseteq Places
      /\ {"done", "spawn"} \subseteq Unguarded /\ "done" \in Started BY DEF Places, Unguarded, Started
<1>s. {"busy", "changed"} \subseteq Results BY DEF Results
<1>u. \A v \in Users \ {u} : User(v) # User(u) /\ User(v) # Free BY NumberFacts
<1>i. CheckInv(u) BY DEF LaunchInv
<1>3. CASE TakesEvents(u)
  <2>0. UNCHANGED <<row, clock>> /\ usr[u].pc = "elock" BY <1>3 DEF TakesEvents, At
  <2>1. Set(u, [pc |-> "clock"]) \/ Set(u, Finished(u, "busy")) BY <1>3 DEF TakesEvents
  <2>2. Goes(u, "clock", usr[u].obs) \/ Goes(u, "done", usr[u].obs) BY <1>p, <1>s, <2>1, SetGoes
  <2>3. CASE Goes(u, "clock", usr[u].obs)
    <3>1. CheckInv(u)' BY <1>0, <1>i, <2>0, <2>3 DEF CheckInv, Goes, UserMoves
    <3>2. usr[u].pc \notin Started BY <2>0 DEF Started
    <3> QED BY <1>0, <1>2, <2>0, <2>3, <3>1, <3>2, UserKeeps DEF Goes
  <2>4. CASE Goes(u, "done", usr[u].obs) BY <1>0, <1>2, <1>p, <2>0, <2>4, GoesPlainly
  <2> QED BY <2>2, <2>3, <2>4
<1>4. CASE TakesCreation(u)
  <2>0. UNCHANGED row /\ usr[u].pc = "clock" BY <1>4 DEF TakesCreation, At
  <2>1. \/ Set(u, [pc |-> "check"]) /\ ClaimFree /\ clock' = User(u)
        \/ Set(u, Finished(u, "busy")) /\ UNCHANGED clock BY <1>4 DEF TakesCreation
  <2>2. CASE Set(u, [pc |-> "check"]) /\ ClaimFree /\ clock' = User(u)
    <3>1. Goes(u, "check", usr[u].obs) BY <1>p, <2>2, SetGoes
    <3>2. CheckInv(u)' BY <1>0, <1>i, <2>0, <2>2, <3>1 DEF CheckInv, Goes, UserMoves, ClaimFree
    <3>3. usr[u].pc \notin Started BY <2>0 DEF Started
    <3>4. \A v \in Users \ {u} : clock # User(v) BY <1>u, <2>2 DEF ClaimFree
    <3> QED BY <1>0, <1>2, <2>0, <3>1, <3>2, <3>3, <3>4, UserKeeps DEF Goes
  <2>3. CASE Set(u, Finished(u, "busy")) /\ UNCHANGED clock
    <3>1. Goes(u, "done", usr[u].obs) BY <1>s, <2>3, SetGoes
    <3> QED BY <1>0, <1>2, <1>p, <2>0, <2>3, <3>1, GoesPlainly
  <2> QED BY <2>1, <2>2, <2>3
<1>5. CASE Checks(u)
  <2>0. usr[u].pc = "check" /\ usr[u].pc \notin Started BY <1>5 DEF Checks, At, Started
  <2>1. clock = User(u) /\ pin = 0 BY <1>i, <2>0 DEF CheckInv
  <2>2. \A v \in Users \ {u} : clock # User(v) BY <1>u, <2>1
  <2>3. CASE Set(u, Finished(u, "changed")) /\ UNCHANGED row
    <3>1. Goes(u, "done", usr[u].obs) BY <1>s, <2>3, SetGoes
    <3> QED BY <1>0, <1>2, <1>p, <2>0, <2>2, <2>3, <3>1, GoesPlainly
  <2>4. CASE /\ Set(u, [pc |-> "spawn"]) /\ row' = NoRow
             /\ \/ usr[u].op = "run" /\ NewSession # "running"
                \/ usr[u].op # "run" /\ row.rec = usr[u].obs
    <3>1. Goes(u, "spawn", usr[u].obs) BY <1>p, <2>4, SetGoes
    <3>2. NewSession # "running"
      <4>1. CASE usr[u].op # "run" /\ row.rec = usr[u].obs
        <5>1. dmn[row.rec].st = "dead" BY <1>i, <2>0, <4>1 DEF CheckInv
        <5> QED BY <5>1 DEF NewSession, Live
      <4> QED BY <2>4, <4>1
    <3>3. RowGoes BY <2>1, <2>4, <3>2, NotRunning DEF RowGoes
    <3> QED BY <1>0, <1>2, <1>p, <2>0, <2>2, <3>1, <3>3, GoesPlainly
  <2> QED BY <1>5, <2>3, <2>4 DEF Checks
<1>6. CASE Releases(u)
  <2>1. UNCHANGED row /\ Set(u, [pc |-> "done"]) BY <1>6 DEF Releases
  <2>2. Goes(u, "done", usr[u].obs) BY <1>p, <2>1, SetGoes
  <2>3. \A v \in Users \ {u} : clock = User(v) => clock' = User(v) BY <1>6, <1>u DEF Releases
  <2> QED BY <1>0, <1>2, <1>p, <2>1, <2>2, <2>3, GoesPlainly
<1> QED BY <1>3, <1>4, <1>5, <1>6

(* A daemon is started. *)
LEMMA StartStep ==
  ASSUME LaunchInv, NEW u \in Users, Starts(u)
  PROVE  LaunchInv'
<1>0. UNCHANGED <<row, elock, clock, pin>> /\ usr[u].pc = "spawn" BY DEF Starts, Locks, At
<1>1. usr[u].pc \notin Started BY <1>0 DEF Started
<1>p. {"socket", "release"} \subseteq Places \cap Unguarded \cap Started BY DEF Places, Unguarded, Started
<1>2. CASE Set(u, [pc |-> "release", result |-> "error"]) /\ UNCHANGED dmn
  <2>1. Goes(u, "release", usr[u].obs) BY <1>2, <1>p, SetGoes DEF Results
  <2> QED BY <1>0, <1>1, <1>2, <1>p, <2>1, GoesPlainly, SignalFacts
<1>3. ASSUME NEW d \in Daemons, dmn[d].st = "none",
             dmn' = [dmn EXCEPT ![d] = [Unborn EXCEPT !.st = "born",
                                        !.by = IF usr[u].op = "up" THEN Free ELSE User(u)]],
             Set(u, [pc |-> "socket", d |-> d])
      PROVE  LaunchInv'
  <2>0. /\ dmn \in [Daemons -> DaemonType] /\ usr \in [Users -> UserType]
        /\ row \in RowType /\ pin \in Numbers BY DEF LaunchInv, LaunchTypes
  <2>1. Goes(u, "socket", usr[u].obs) BY <1>3, <1>p, SetGoes DEF Numbers
  <2>2. /\ dmn' \in [Daemons -> DaemonType] /\ \A e \in Daemons \ {d} : dmn'[e] = dmn[e]
        /\ dmn'[d].st = "born" /\ dmn'[d].by \in {Free, User(u)}
    BY <1>3, <2>0 DEF DaemonType, DaemonStates, Unborn
  <2>3. LaunchTypes' BY <1>0, <2>0, <2>1, <2>2 DEF LaunchTypes, Goes, UserMoves
  <2>4. PinInv'
    <3>1. \A e \in Daemons : dmn[e].st \in Publishing <=> pin = e BY DEF LaunchInv, PinInv
    <3>2. pin # d BY <1>3, <3>1 DEF Publishing
    <3>3. \A e \in Daemons : dmn'[e].st \in Publishing <=> pin' = e
      BY <1>0, <2>2, <3>1, <3>2 DEF Publishing
    <3>4. row.rec # d /\ row.rec \in Numbers /\ (row.rec # 0 => dmn[row.rec].st # "none")
      BY <1>3, <2>0, NumberFacts DEF LaunchInv, PinInv, RowType
    <3>5. row'.rec # 0 => dmn'[row'.rec].st # "none" BY <1>0, <2>2, <3>4 DEF Numbers
    <3>6. \A e \in Daemons : dmn'[e].st = "recorded" => row'.rec = e /\ ~row'.exited
      BY <1>0, <2>2 DEF LaunchInv, PinInv
    <3> QED BY <3>3, <3>5, <3>6 DEF PinInv
  <2>5. ServeInv'
    <3>1. ServeInv BY DEF LaunchInv
    <3> QED BY <1>0, <2>2, <3>1 DEF ServeInv, InService
  <2>6. ASSUME NEW v \in Users PROVE CheckInv(v)'
    <3>1. CASE v = u BY <2>1, <3>1 DEF CheckInv, Goes
    <3>2. CASE v # u
      <4>1. usr'[v] = usr[v] /\ usr[v].obs \in Numbers BY <2>0, <2>1, <3>2 DEF Goes, UserMoves, UserType
      <4>2. CheckInv(v) BY DEF LaunchInv
      <4>3. usr[v].obs \in Daemons /\ usr[v].obs # d => dmn'[usr[v].obs] = dmn[usr[v].obs] BY <2>2
      <4> QED BY <1>0, <1>3, <4>1, <4>2, <4>3 DEF CheckInv, Numbers
    <3> QED BY <3>1, <3>2
  <2>7. ASSUME NEW v \in Users PROVE LentInv(v)'
    <3> SUFFICES ASSUME NEW e \in Daemons, dmn'[e].by = User(v)
                 PROVE  usr'[v].pc \in Started BY DEF LentInv
    <3>1. CASE v = u BY <1>p, <2>1, <3>1 DEF Goes
    <3>2. CASE v # u
      <4>1. e # d BY <2>2, <3>2, NumberFacts
      <4>2. dmn[e].by = User(v) BY <2>2, <4>1
      <4>3. usr[v].pc \in Started BY <4>2 DEF LaunchInv, LentInv
      <4> QED BY <2>1, <3>2, <4>3 DEF Goes, UserMoves
    <3> QED BY <3>1, <3>2
  <2> QED BY <2>3, <2>4, <2>5, <2>6, <2>7 DEF LaunchInv
<1> QED BY <1>2, <1>3 DEF Starts

(* A daemon's step: it changes its own place, which it leaves for good. *)
DaemonMoves(d) ==
  /\ UNCHANGED usr
  /\ dmn' \in [Daemons -> DaemonType]
  /\ \A e \in Daemons \ {d} : dmn'[e] = dmn[e]
  /\ dmn'[d].by = dmn[d].by /\ dmn'[d].term = dmn[d].term
  /\ dmn[d].st \notin {"none", "dead"} /\ dmn'[d].st # "none"

LEMMA DaemonKeeps ==
  ASSUME LaunchInv, NEW d \in Daemons, DaemonMoves(d), row' \in RowType, pin' \in Numbers,
         PinInv', ServeInv',
         \A u \in Users : usr[u].pc = "check" => clock' = clock /\ pin' = 0
  PROVE  LaunchInv'
<1>1. LaunchTypes' BY DEF LaunchInv, LaunchTypes, DaemonMoves
<1>2. ASSUME NEW u \in Users PROVE CheckInv(u)'
  <2>1. usr[u].obs \in Numbers /\ usr' = usr /\ CheckInv(u)
    BY DEF LaunchInv, LaunchTypes, UserType, DaemonMoves
  <2>2. CASE usr[u].obs = d
    <3>1. dmn[d].st # "dead" /\ dmn'[d].st # "none" BY DEF DaemonMoves
    <3> QED BY <2>1, <2>2, <3>1 DEF CheckInv
  <2>3. CASE usr[u].obs # d
    <3>1. usr[u].obs # 0 => dmn'[usr[u].obs] = dmn[usr[u].obs] BY <2>1, <2>3 DEF DaemonMoves, Numbers
    <3> QED BY <2>1, <3>1 DEF CheckInv
  <2> QED BY <2>2, <2>3
<1>3. ASSUME NEW u \in Users PROVE LentInv(u)' BY DEF LaunchInv, LentInv, DaemonMoves
<1> QED BY <1>1, <1>2, <1>3 DEF LaunchInv

LEMMA DaemonStepMoves ==
  ASSUME LaunchInv, NEW d \in Daemons, NEW s \in DaemonStates \ {"none"},
         dmn' = [dmn EXCEPT ![d].st = s], dmn[d].st \notin {"none", "dead"}, UNCHANGED usr
  PROVE  DaemonMoves(d) /\ dmn'[d].st = s
<1>1. dmn \in [Daemons -> DaemonType] BY DEF LaunchInv, LaunchTypes
<1> QED BY <1>1 DEF DaemonMoves, DaemonType

(* A daemon that ends, recording its exit or not, lets go of its claim. *)
LEMMA DeathKeeps ==
  ASSUME LaunchInv, NEW d \in Daemons, Dies(d), dmn[d].st \notin {"none", "dead"},
         UNCHANGED usr, row' \in RowType, row'.rec = row.rec,
         row'.exited # row.exited => row.rec = d
  PROVE  LaunchInv'
<1>0. /\ row \in RowType /\ pin \in Numbers /\ "dead" \in DaemonStates \ {"none"}
  BY DEF LaunchInv, LaunchTypes, DaemonStates
<1>1. DaemonMoves(d) /\ dmn'[d].st = "dead" BY <1>0, DaemonStepMoves DEF Dies
<1>2. \A e \in Daemons \ {d} : dmn'[e] = dmn[e] BY <1>1 DEF DaemonMoves
<1>3. pin' = (IF pin = d THEN 0 ELSE pin) /\ pin' \in Numbers BY <1>0 DEF Dies, Numbers
<1>4. PinInv'
  <2>1. \A e \in Daemons : dmn[e].st \in Publishing <=> pin = e BY DEF LaunchInv, PinInv
  <2>2. \A e \in Daemons : dmn'[e].st \in Publishing <=> pin' = e
    BY <1>1, <1>2, <1>3, <2>1, NumberFacts DEF Publishing
  <2>3. row'.rec # 0 => dmn'[row'.rec].st # "none"
    <3>1. row.rec # 0 => row.rec \in Daemons /\ dmn[row.rec].st # "none"
      BY <1>0 DEF LaunchInv, PinInv, RowType, Numbers
    <3> QED BY <1>1, <1>2, <3>1
  <2>4. ASSUME NEW e \in Daemons, dmn'[e].st = "recorded"
        PROVE  row'.rec = e /\ ~row'.exited
    <3>1. e # d /\ dmn[e].st = "recorded" BY <1>1, <1>2, <2>4
    <3>2. row.rec = e /\ ~row.exited BY <3>1 DEF LaunchInv, PinInv
    <3> QED BY <3>1, <3>2
  <2> QED BY <2>2, <2>3, <2>4 DEF PinInv
<1>5. ServeInv'
  <2> SUFFICES ASSUME NEW e \in Daemons, InService(e)'
               PROVE  row'.rec = e /\ ~row'.exited /\ pin' = 0 BY DEF ServeInv
  <2>1. e # d /\ InService(e) BY <1>1, <1>2 DEF InService
  <2>2. row.rec = e /\ ~row.exited /\ pin = 0 BY <2>1 DEF LaunchInv, ServeInv
  <2> QED BY <1>3, <2>1, <2>2
<1>6. ASSUME NEW u \in Users, usr[u].pc = "check" PROVE clock' = clock /\ pin' = 0
  <2>1. clock = User(u) /\ pin = 0 BY <1>6 DEF LaunchInv, CheckInv
  <2> QED BY <1>3, <2>1, NumberFacts DEF Dies
<1> QED BY <1>1, <1>3, <1>4, <1>5, <1>6, DaemonKeeps

LEMMA PrepareStep ==
  ASSUME LaunchInv, NEW d \in Daemons, Prepares(d)
  PROVE  LaunchInv'
<1>0. /\ row \in RowType /\ UNCHANGED <<row, usr>> /\ dmn[d].st = "born"
      /\ "pinned" \in DaemonStates \ {"none"} BY DEF LaunchInv, LaunchTypes, Prepares, DaemonStates
<1>1. CASE Dies(d) BY <1>0, <1>1, DeathKeeps
<1>2. CASE /\ NewSession # "running" /\ dmn' = [dmn EXCEPT ![d].st = "pinned"]
           /\ \/ dmn[d].by # Free /\ clock = dmn[d].by /\ pin = 0 /\ pin' = d /\ UNCHANGED clock
              \/ dmn[d].by = Free /\ ClaimFree /\ clock' = Dmn(d) /\ pin' = d
  <2>1. DaemonMoves(d) /\ dmn'[d].st = "pinned" BY <1>0, <1>2, DaemonStepMoves
  <2>2. \A e \in Daemons \ {d} : dmn'[e] = dmn[e] BY <2>1 DEF DaemonMoves
  <2>3. pin = 0 /\ pin' = d /\ pin' \in Numbers BY <1>2 DEF ClaimFree, Numbers
  <2>4. PinInv'
    <3>1. \A e \in Daemons : dmn[e].st \in Publishing <=> pin = e BY DEF LaunchInv, PinInv
    <3>2. \A e \in Daemons : dmn'[e].st \in Publishing <=> pin' = e
      BY <2>1, <2>2, <2>3, <3>1, NumberFacts DEF Publishing
    <3>3. row'.rec # 0 => dmn'[row'.rec].st # "none"
      <4>1. row.rec # 0 => row.rec \in Daemons /\ dmn[row.rec].st # "none"
        BY <1>0 DEF LaunchInv, PinInv, RowType, Numbers
      <4> QED BY <1>0, <2>1, <2>2, <4>1
    <3>4. \A e \in Daemons : dmn'[e].st # "recorded"
      BY <2>1, <2>2, <2>3, <3>1, NumberFacts DEF Publishing
    <3> QED BY <3>2, <3>3, <3>4 DEF PinInv
  <2>5. ServeInv'
    <3>1. \A e \in Daemons : ~InService(e) BY <1>2, NotRunning
    <3>2. \A e \in Daemons : ~InService(e)' BY <2>1, <2>2, <3>1 DEF InService
    <3> QED BY <3>2 DEF ServeInv
  <2>6. ASSUME NEW u \in Users, usr[u].pc = "check" PROVE FALSE
    <3>1. clock = User(u) BY <2>6 DEF LaunchInv, CheckInv
    <3>2. dmn[d].by = User(u) BY <1>2, <3>1, NumberFacts DEF ClaimFree
    <3>3. usr[u].pc \in Started BY <3>2 DEF LaunchInv, LentInv
    <3> QED BY <2>6, <3>3 DEF Started
  <2> QED BY <1>0, <2>1, <2>3, <2>4, <2>5, <2>6, DaemonKeeps
<1> QED BY <1>1, <1>2 DEF Prepares

(* The steps of the daemon that has the claim pinned. *)
LEMMA PublishSteps ==
  ASSUME LaunchInv, NEW d \in Daemons, ClearsAndBinds(d) \/ WritesRecord(d) \/ StartsChild(d)
  PROVE  LaunchInv'
<1>0. /\ row \in RowType /\ UNCHANGED usr /\ dmn[d].st \in Publishing
      /\ dmn[d].st \notin {"none", "dead"} /\ pin \in Numbers
      /\ {"bound", "recorded", "serving"} \subseteq DaemonStates \ {"none"}
  BY DEF LaunchInv, LaunchTypes, ClearsAndBinds, WritesRecord, StartsChild, Publishing,
         DaemonStates
<1>p. \A e \in Daemons : dmn[e].st \in Publishing <=> pin = e BY DEF LaunchInv, PinInv
<1>q. pin = d /\ pin # 0 BY <1>0, <1>p, NumberFacts
<1>s. \A e \in Daemons : ~InService(e) BY <1>q DEF LaunchInv, ServeInv
<1>r. row.rec # 0 => row.rec \in Daemons /\ dmn[row.rec].st # "none"
  BY <1>0 DEF LaunchInv, PinInv, RowType, Numbers
<1>c. \A u \in Users : usr[u].pc # "check" BY <1>q DEF LaunchInv, CheckInv
<1>1. CASE Dies(d) /\ row' \in {row, [row EXCEPT !.started = TRUE, !.sock = FALSE]}
  <2>1. row' \in RowType /\ row'.rec = row.rec /\ row'.exited = row.exited BY <1>0, <1>1 DEF RowType
  <2> QED BY <1>0, <1>1, <2>1, DeathKeeps
<1>2. CASE /\ dmn' = [dmn EXCEPT ![d].st = "bound"] /\ UNCHANGED pin
           /\ row' = [row EXCEPT !.started = FALSE, !.sock = TRUE]
  <2>1. DaemonMoves(d) /\ dmn'[d].st = "bound" BY <1>0, <1>2, DaemonStepMoves
  <2>2. \A e \in Daemons \ {d} : dmn'[e] = dmn[e] BY <2>1 DEF DaemonMoves
  <2>3. row' \in RowType /\ row'.rec = row.rec BY <1>0, <1>2 DEF RowType
  <2>4. PinInv'
    <3>1. \A e \in Daemons : dmn'[e].st \in Publishing <=> pin' = e
      BY <1>2, <1>p, <1>q, <2>1, <2>2 DEF Publishing
    <3>2. \A e \in Daemons : dmn'[e].st # "recorded" BY <1>p, <1>q, <2>1, <2>2 DEF Publishing
    <3> QED BY <1>r, <2>1, <2>2, <2>3, <3>1, <3>2 DEF PinInv
  <2>5. \A e \in Daemons : ~InService(e)' BY <1>s, <2>1, <2>2 DEF InService
  <2> QED BY <1>0, <1>2, <1>c, <2>1, <2>3, <2>4, <2>5, DaemonKeeps DEF ServeInv
<1>3. CASE /\ dmn' = [dmn EXCEPT ![d].st = "recorded"] /\ UNCHANGED pin
           /\ row' = [row EXCEPT !.rec = d, !.exited = FALSE]
  <2>1. DaemonMoves(d) /\ dmn'[d].st = "recorded" BY <1>0, <1>3, DaemonStepMoves
  <2>2. \A e \in Daemons \ {d} : dmn'[e] = dmn[e] BY <2>1 DEF DaemonMoves
  <2>3. row' \in RowType /\ row'.rec = d /\ ~row'.exited BY <1>0, <1>3 DEF RowType, Numbers
  <2>4. PinInv'
    <3>1. \A e \in Daemons : dmn'[e].st \in Publishing <=> pin' = e
      BY <1>3, <1>p, <1>q, <2>1, <2>2 DEF Publishing
    <3>2. \A e \in Daemons \ {d} : dmn'[e].st # "recorded" BY <1>p, <1>q, <2>2 DEF Publishing
    <3> QED BY <2>1, <2>3, <3>1, <3>2 DEF PinInv
  <2>5. \A e \in Daemons : ~InService(e)' BY <1>s, <2>1, <2>2 DEF InService
  <2> QED BY <1>0, <1>3, <1>c, <2>1, <2>3, <2>4, <2>5, DaemonKeeps DEF ServeInv
<1>4. CASE /\ StartsChild(d) /\ dmn' = [dmn EXCEPT ![d].st = "serving"] /\ pin' = 0
           /\ row' = [row EXCEPT !.started = TRUE]
  <2>1. DaemonMoves(d) /\ dmn'[d].st = "serving" BY <1>0, <1>4, DaemonStepMoves
  <2>2. \A e \in Daemons \ {d} : dmn'[e] = dmn[e] BY <2>1 DEF DaemonMoves
  <2>3. row' \in RowType /\ row'.rec = d /\ ~row'.exited
    <3>1. row.rec = d /\ ~row.exited BY <1>4 DEF StartsChild, LaunchInv, PinInv
    <3> QED BY <1>0, <1>4, <3>1 DEF RowType
  <2>4. PinInv'
    <3>1. \A e \in Daemons : dmn'[e].st \notin Publishing BY <1>p, <1>q, <2>1, <2>2 DEF Publishing
    <3> QED BY <1>4, <2>1, <2>3, <3>1, NumberFacts DEF PinInv, Publishing
  <2>5. \A e \in Daemons \ {d} : ~InService(e)' BY <1>s, <2>2 DEF InService
  <2> QED BY <1>0, <1>4, <1>c, <2>1, <2>3, <2>4, <2>5, DaemonKeeps DEF ServeInv, Numbers
<1> QED BY <1>1, <1>2, <1>3, <1>4 DEF ClearsAndBinds, WritesRecord, StartsChild, Locks

LEMMA DaemonEnds ==
  ASSUME LaunchInv, NEW d \in Daemons, Ends(d)
  PROVE  LaunchInv'
<1>0. /\ row \in RowType /\ UNCHANGED usr /\ Dies(d) /\ dmn[d].st \notin {"none", "dead"}
  BY DEF LaunchInv, LaunchTypes, Ends, Live
<1>1. row' \in RowType /\ row'.rec = row.rec /\ (row'.exited # row.exited => row.rec = d)
  BY <1>0 DEF Ends, RowType
<1> QED BY <1>0, <1>1, DeathKeeps

LEMMA NotifyStep ==
  ASSUME LaunchInv, NEW d \in Daemons, Notifies(d)
  PROVE  LaunchInv'
<1>0. /\ dmn \in [Daemons -> DaemonType] /\ row \in RowType /\ pin \in Numbers
      /\ UNCHANGED <<row, elock, clock, pin, usr>> /\ dmn[d].st = "serving"
      /\ dmn' = [dmn EXCEPT ![d].told = TRUE] BY DEF LaunchInv, LaunchTypes, Notifies, Locks
<1>1. /\ DaemonMoves(d) /\ \A e \in Daemons : dmn'[e].st = dmn[e].st /\ dmn'[e].term = dmn[e].term
  BY <1>0 DEF DaemonMoves, DaemonType
<1>2. PinInv' BY <1>0, <1>1 DEF LaunchInv, PinInv, RowType, Numbers
<1>3. ServeInv' BY <1>0, <1>1 DEF LaunchInv, ServeInv, InService
<1>4. \A u \in Users : usr[u].pc = "check" => clock' = clock /\ pin' = 0 BY <1>0 DEF LaunchInv, CheckInv
<1> QED BY <1>0, <1>1, <1>2, <1>3, <1>4, DaemonKeeps

LEMMA LaunchStep ==
  ASSUME LaunchInv, LaunchNext
  PROVE  LaunchInv'
<1>1. ASSUME NEW u \in Users, UserStep(u) PROVE LaunchInv'
  BY <1>1, LooksKeep, PlainSteps, StopSteps, LockSteps, StartStep DEF UserStep
<1>2. ASSUME NEW d \in Daemons, DaemonStep(d) \/ Ends(d) PROVE LaunchInv'
  BY <1>2, PrepareStep, PublishSteps, NotifyStep, DaemonEnds DEF DaemonStep
<1> QED BY <1>1, <1>2 DEF LaunchNext

LEMMA LaunchStutters ==
  ASSUME LaunchInv, UNCHANGED lvars
  PROVE  LaunchInv'
BY DEF LaunchInv, LaunchTypes, PinInv, ServeInv, InService, CheckInv, LentInv, lvars

LEMMA LaunchBegins ==
  ASSUME LaunchInit
  PROVE  LaunchInv
<1>1. PICK was \in {"none", "born", "serving"} :
           /\ dmn = [d \in Daemons |-> IF d = 1 THEN [Unborn EXCEPT !.st = was, !.told = (was = "serving")]
                        ELSE Unborn]
           /\ row = IF was = "serving" THEN [rec |-> 1, sock |-> TRUE, started |-> TRUE, exited |-> FALSE]
                    ELSE NoRow BY DEF LaunchInit
<1>2. PICK ops \in [Users -> UserCommands], imgs \in [Users -> Images] :
           usr = [u \in Users |-> Idle(ops[u], imgs[u])] BY DEF LaunchInit
<1>3. pin = 0 /\ clock = Free BY DEF LaunchInit
<1>4. dmn \in [Daemons -> DaemonType] /\ row \in RowType
  BY <1>1, NumberFacts DEF DaemonType, DaemonStates, Unborn, RowType, NoRow
<1>5. usr \in [Users -> UserType] /\ \A u \in Users : usr[u].pc = "idle"
  BY <1>2 DEF UserType, Idle, Places, Results, Numbers
<1>6. LaunchTypes BY <1>3, <1>4, <1>5 DEF LaunchTypes, Numbers
<1>7. /\ \A d \in Daemons : dmn[d].st \in {"none", "born", "serving"} /\ dmn[d].by = Free
      /\ \A d \in Daemons : dmn[d].st = "serving" => d = 1 /\ was = "serving"
      /\ was = "serving" => dmn[1].st = "serving" BY <1>1, NumberFacts DEF Unborn
<1>8. PinInv
  <2>1. row.rec # 0 => dmn[row.rec].st # "none" BY <1>1, <1>7 DEF NoRow
  <2> QED BY <1>3, <1>7, <2>1, NumberFacts DEF PinInv, Publishing
<1>9. ServeInv BY <1>1, <1>3, <1>7 DEF ServeInv, InService
<1>10. \A u \in Users : CheckInv(u) /\ LentInv(u) BY <1>5, <1>7, NumberFacts DEF CheckInv, LentInv
<1> QED BY <1>6, <1>8, <1>9, <1>10 DEF LaunchInv

----------------------------------------------------------------------------
(* What the invariant gives. *)

LEMMA LaunchExclusive ==
  ASSUME LaunchInv
  PROVE  OneDaemonServes
<1> SUFFICES ASSUME NEW d \in Daemons, NEW e \in Daemons,
                    dmn[d].st \in {"recorded", "serving"}, ~dmn[d].term,
                    dmn[e].st \in {"recorded", "serving"}, ~dmn[e].term
             PROVE  d = e BY DEF OneDaemonServes
<1>1. \A x \in Daemons : dmn[x].st = "recorded" => row.rec = x BY DEF LaunchInv, PinInv
<1>2. \A x \in Daemons : dmn[x].st = "serving" /\ ~dmn[x].term => row.rec = x
  BY DEF LaunchInv, ServeInv, InService
<1> QED BY <1>1, <1>2

LEMMA RecordStays ==
  ASSUME LaunchInv, LaunchNext, NEW d \in Daemons, row.rec = d, InService(d)
  PROVE  row'.rec = d
<1>0. row \in RowType /\ pin = 0 BY DEF LaunchInv, LaunchTypes, ServeInv
<1>1. Live(row.rec) /\ NewSession = "running"
  <2>1. Live(row.rec) BY NumberFacts DEF Live, InService
  <2> QED BY <2>1, NotRunning
<1>2. ASSUME NEW u \in Users, UserStep(u) PROVE row'.rec = d
  <2>1. CASE ManifestRemoves(u) BY <1>1, <2>1 DEF ManifestRemoves, OwnerLost
  <2>2. CASE Checks(u)
    <3>1. usr[u].op # "run" => dmn[usr[u].obs].st = "dead" BY <2>2 DEF Checks, At, LaunchInv, CheckInv
    <3>2. row.rec # usr[u].obs \/ usr[u].op = "run" BY <3>1 DEF InService
    <3> QED BY <1>1, <2>2, <3>2 DEF Checks
  <2>3. CASE Looks(u) BY <2>3 DEF Looks, RunLooks, AttachLooks, RestartLooks, ManifestLooks
  <2>4. CASE RestartStops(u) \/ OwnerLossWaits(u) \/ UpLists(u) \/ UpChooses(u)
    BY <2>4 DEF RestartStops, OwnerLossWaits, UpLists, UpChooses
  <2>5. CASE TakesEvents(u) \/ TakesCreation(u) \/ Starts(u) \/ Releases(u)
    BY <2>5 DEF TakesEvents, TakesCreation, Starts, Releases
  <2>6. CASE Waits(u) \/ PublicationTimeout(u)
    BY <2>6 DEF Waits, WaitsForSocket, SeesPublication, SeesAnother, SeesEarlyExit,
       PublicationTimeout
  <2> QED BY <1>2, <2>1, <2>2, <2>3, <2>4, <2>5, <2>6 DEF UserStep
<1>3. ASSUME NEW e \in Daemons, DaemonStep(e) \/ Ends(e) PROVE row'.rec = d
  <2>1. CASE WritesRecord(e)
    <3>1. pin = e BY <2>1 DEF WritesRecord, LaunchInv, PinInv, Publishing
    <3> QED BY <1>0, <3>1, NumberFacts
  <2>2. CASE Prepares(e) \/ Notifies(e) BY <2>2 DEF Prepares, Notifies
  <2>3. CASE ClearsAndBinds(e) \/ StartsChild(e) \/ Ends(e)
    BY <1>0, <2>3 DEF ClearsAndBinds, StartsChild, Ends, RowType
  <2> QED BY <1>3, <2>1, <2>2, <2>3 DEF DaemonStep
<1> QED BY <1>2, <1>3 DEF LaunchNext

LaunchPart == part = "launch" => LaunchInv

LEMMA PartBegins == Init => LaunchPart
BY LaunchBegins DEF Init, LaunchPart

LEMMA PartSteps ==
  ASSUME LaunchPart, [Next]_vars
  PROVE  LaunchPart' /\ (part = "launch" => LaunchInv /\ (LaunchNext \/ UNCHANGED lvars))
<1>1. part' = part
  BY DEF Next, LaunchMoves, AttachMoves, QueryMoves, HandleMoves, PickerMoves, WordsMoves, vars
<1>2. part = "launch" => LaunchNext \/ UNCHANGED lvars
  BY DEF Next, LaunchMoves, AttachMoves, QueryMoves, HandleMoves, PickerMoves, WordsMoves, vars
<1> QED BY <1>1, <1>2, LaunchStep, LaunchStutters DEF LaunchPart

(* Whatever the users run, and however their commands and the daemons they *)
(* start interleave: whoever publishes has the claim pinned, the daemon *)
(* that serves has the record, and a command that acts under the locks *)
(* remembers a dead daemon (spawn_daemon, prepare_publication, *)
(* publish_session). *)
THEOREM LaunchInvariance == Spec => []LaunchPart
<1>1. LaunchPart /\ [Next]_vars => LaunchPart' BY PartSteps
<1> QED BY <1>1, PartBegins, PTL DEF Spec

(* However launches, restarts and stops overlap, two daemons that nobody *)
(* told to stop never serve the name at once (Daemon::claim, launch.rs). *)
THEOREM ExclusiveLaunches == Spec => []LaunchesAreExclusive
<1>1. LaunchPart => LaunchesAreExclusive BY LaunchExclusive DEF LaunchPart, LaunchesAreExclusive
<1> QED BY <1>1, LaunchInvariance, PTL

(* No run, attach, restart, up or down that looked earlier takes or *)
(* replaces the record of a daemon that serves and was not told to stop *)
(* (launch.rs, restart.rs, up.rs, down.rs). *)
THEOREM RecordsKept == Spec => LiveDaemonsKeepRecords
<1>1. ASSUME LaunchPart, [Next]_vars
      PROVE  [part = "launch" => LiveDaemonKeepsRecord]_vars
  <2> SUFFICES ASSUME part = "launch" PROVE LiveDaemonKeepsRecord OBVIOUS
  <2>1. LaunchInv /\ (LaunchNext \/ UNCHANGED lvars) BY <1>1, PartSteps
  <2>2. CASE LaunchNext BY <2>1, <2>2, RecordStays DEF LiveDaemonKeepsRecord, InService
  <2>3. CASE UNCHANGED lvars BY <2>3 DEF LiveDaemonKeepsRecord, lvars
  <2> QED BY <2>1, <2>2, <2>3
<1> QED BY <1>1, LaunchInvariance, PTL DEF Spec, LiveDaemonsKeepRecords

----------------------------------------------------------------------------
(* The attached client: the types, and the inductive invariant. *)

FrameTypes == {"Geometry", "Screen", "Data", "Exit", "ConnectionError", "Malformed", "Half"}
FrameRecord == [t : FrameTypes, n : Nat]
Machines == {"off", "geometry", "screen", "ready"}
EndResults == {"none", "1", "0", "detached", "code", "signal"}
Trailers == {"none", "ConnectionLost", "Exited", "Detached"}
AttachRecord ==
  [sock : Nat, reader : {"empty", "half"}, machine : Machines, raw : BOOLEAN,
   remote : BOOLEAN, max : Tries, exited : BOOLEAN, dropped : BOOLEAN, armed : BOOLEAN,
   phase : {"Live", "Reconnecting"}, attempt : Nat, stdin : BOOLEAN, tty : BOOLEAN,
   trailer : Trailers, result : EndResults]
SeenRecord ==
  [conn : Nat, geom : BOOLEAN, screen : BOOLEAN, upto : Nat, torn : BOOLEAN, early : BOOLEAN,
   ended : BOOLEAN]
PeerRecord ==
  [id : Nat \ {0}, open : BOOLEAN, wire : Seq(FrameRecord), served : BOOLEAN, size : Nat,
   v1 : BOOLEAN, bad : BOOLEAN, detached : BOOLEAN]
AttachTypes ==
  /\ a \in AttachRecord /\ seen \in SeenRecord /\ peer \in PeerRecord
  /\ session \in [out : Nat, exited : BOOLEAN]
  /\ user \in [win : Nat, winch : BOOLEAN, keys : Nat, stop : BOOLEAN]

(* The screen, the geometry of this connection have been shown. *)
Began == seen.conn = a.sock /\ seen.screen
Placed == seen.conn = a.sock /\ seen.geom
Shown(f) == f.t \in {"Screen", "Data"}

(* What is on the wire continues what was shown: the screen comes first and *)
(* once, each piece of output follows the one before it, or what was shown. *)
ScreenFirst(w) ==
  \A i \in DOMAIN w :
    /\ w[i].t = "Screen" => ~Began /\ \A j \in 1..(i - 1) : w[j].t \notin {"Screen", "Data", "Exit"}
    /\ w[i].t \in {"Data", "Exit"} => Began \/ \E j \in 1..(i - 1) : w[j].t = "Screen"
InOrderFrom(w) ==
  /\ \A i \in DOMAIN w : w[i].t = "Data" =>
       \/ \E j \in 1..(i - 1) : Shown(w[j]) /\ w[i].n = w[j].n + 1
       \/ Began /\ w[i].n = seen.upto + 1 /\ \A j \in 1..(i - 1) : ~Shown(w[j])
  /\ \A i, j \in DOMAIN w : i < j /\ Shown(w[i]) /\ Shown(w[j]) => w[i].n < w[j].n
(* Nothing is there before the daemon serves, and all the output while it *)
(* does. *)
WireWhole(w) ==
  /\ ~peer.served => ~Began /\ \A i \in DOMAIN w : w[i].t \notin StreamEvents
  /\ \A i \in DOMAIN w : Shown(w[i]) => w[i].n <= session.out
  /\ peer.open /\ peer.served =>
       \/ \E i \in DOMAIN w : Shown(w[i]) /\ w[i].n = session.out
       \/ Began /\ seen.upto = session.out /\ \A i \in DOMAIN w : ~Shown(w[i])
(* Half a frame is the last of its connection. *)
WireEnds(w) ==
  /\ \A i \in DOMAIN w : w[i].t = "Half" => i = Len(w) /\ ~peer.open
  /\ \A i \in DOMAIN w : w[i].t = "Malformed" => peer.bad
  /\ a.reader = "half" => w = <<>> /\ ~peer.open
MachineInv ==
  /\ a.machine \in {"screen", "ready"} => Placed
  /\ a.machine = "ready" => Began
WireInv(w) == ScreenFirst(w) /\ InOrderFrom(w) /\ WireWhole(w) /\ WireEnds(w)
LineInv ==
  /\ a.sock \in {0, peer.id} /\ seen.conn <= peer.id
  /\ a.dropped => peer.bad
  /\ ~seen.torn /\ ~seen.early
AttachInv == AttachTypes /\ LineInv /\ (a.sock # 0 => MachineInv /\ WireInv(peer.wire))
----------------------------------------------------------------------------
LEMMA AttachBegins == ASSUME AttachInit PROVE AttachInv
<1>1. a \in AttachRecord /\ a.sock = 1 /\ ~a.dropped /\ a.machine \in {"off", "geometry"}
      /\ a.reader = "empty" BY DEF AttachInit, AttachRecord, Machines, Trailers, EndResults
<1>2. seen \in SeenRecord /\ seen.conn = 0 /\ ~seen.torn /\ ~seen.early BY DEF AttachInit, SeenRecord
<1>3. peer \in PeerRecord /\ peer.id = 1 /\ peer.wire = <<>> /\ ~peer.served /\ ~peer.bad
  <2>1. <<>> \in Seq(FrameRecord) OBVIOUS
  <2> QED BY <2>1 DEF AttachInit, PeerRecord
<1>4. session \in [out : Nat, exited : BOOLEAN]
      /\ user \in [win : Nat, winch : BOOLEAN, keys : Nat, stop : BOOLEAN] BY DEF AttachInit
<1>5. ~Began BY <1>1, <1>2 DEF Began
<1>6. DOMAIN peer.wire = {} BY <1>3
<1>7. WireInv(peer.wire)
  BY <1>1, <1>3, <1>5, <1>6 DEF WireInv, ScreenFirst, InOrderFrom, WireWhole, WireEnds
<1> QED BY <1>1, <1>2, <1>3, <1>4, <1>7 DEF AttachInv, AttachTypes, LineInv, MachineInv

(* The ends of the loop leave no connection. *)
LEMMA FinishFacts ==
  ASSUME NEW s \in AttachRecord, NEW code \in EndResults
  PROVE  /\ Finish(s, code) \in AttachRecord /\ Finish(s, code).sock = 0
         /\ Finish(s, code).dropped <=> s.dropped
BY DEF Finish, CleanExit, AttachRecord
LEMMA TrailerFacts ==
  ASSUME NEW s \in AttachRecord, NEW end \in Trailers
  PROVE  /\ Trailer(s, end) \in AttachRecord
         /\ Trailer(s, end).dropped <=> s.dropped
BY DEF Trailer, CleanExit, AttachRecord
LEMMA TrailerFinish ==
  ASSUME NEW s \in AttachRecord, NEW end \in Trailers, NEW code \in EndResults
  PROVE  /\ Finish(Trailer(s, end), code) \in AttachRecord
         /\ Finish(Trailer(s, end), code).sock = 0
         /\ Finish(Trailer(s, end), code).dropped <=> s.dropped
BY FinishFacts, TrailerFacts
LEMMA DisconnectFacts ==
  ASSUME NEW s \in AttachRecord, NEW err \in BOOLEAN
  PROVE  /\ Disconnected(s, err) \in AttachRecord /\ Disconnected(s, err).sock = 0
         /\ Disconnected(s, err).dropped <=> s.dropped
<1> DEFINE c == [s EXCEPT !.sock = 0]
<1>1. c \in AttachRecord /\ c.sock = 0 /\ (c.dropped <=> s.dropped) BY DEF AttachRecord
<1>2. StartReconnect(c) \in AttachRecord /\ StartReconnect(c).sock = 0
      /\ (StartReconnect(c).dropped <=> c.dropped) BY <1>1 DEF AttachRecord, StartReconnect
<1>3. {"1", "code"} \subseteq EndResults /\ "ConnectionLost" \in Trailers BY DEF EndResults, Trailers
<1>4. Disconnected(s, err) \in
        {StartReconnect(c), Finish(c, "1"), Finish(Trailer(c, "ConnectionLost"), "1"),
         Finish(c, "code")} BY DEF Disconnected
<1> DEFINE Sound(v) == v \in AttachRecord /\ v.sock = 0 /\ (v.dropped <=> s.dropped)
<1> HIDE DEF c
<1>5. Sound(StartReconnect(c)) BY <1>1, <1>2
<1>6. Sound(Finish(c, "1")) /\ Sound(Finish(c, "code")) BY <1>1, <1>3, FinishFacts
<1>7. Sound(Finish(Trailer(c, "ConnectionLost"), "1")) BY <1>1, <1>3, TrailerFinish
<1> HIDE DEF Sound
<1>8. Sound(Disconnected(s, err)) BY <1>4, <1>5, <1>6, <1>7
<1> QED BY <1>8 DEF Sound

(* A step that leaves the connection needs nothing of the wire. *)
LEMMA Departs ==
  ASSUME AttachInv, a' \in AttachRecord, a'.sock = 0, peer' \in PeerRecord, peer'.id = peer.id,
         a'.dropped => peer'.bad, UNCHANGED <<seen, session, user>>
  PROVE  AttachInv'
BY DEF AttachInv, AttachTypes, LineInv

(* A step that changes neither what was shown nor the wire. *)
LEMMA Stays ==
  ASSUME AttachInv, AttachTypes',
         a'.sock = a.sock, a'.reader = a.reader, a'.machine = a.machine, a'.dropped <=> a.dropped,
         peer'.id = peer.id, peer'.open <=> peer.open, peer'.served <=> peer.served,
         peer'.bad <=> peer.bad, peer'.wire = peer.wire,
         UNCHANGED <<seen, session>>
  PROVE  AttachInv'
<1>1. (Began' <=> Began) /\ (Placed' <=> Placed) BY DEF Began, Placed
<1>2. LineInv' BY DEF AttachInv, LineInv
<1>3. ASSUME a.sock # 0 PROVE (MachineInv /\ WireInv(peer.wire))'
  <2>0. MachineInv /\ WireInv(peer.wire) BY <1>3 DEF AttachInv
  <2>1. MachineInv' BY <1>1, <2>0 DEF MachineInv
  <2>2. ScreenFirst(peer.wire)' /\ InOrderFrom(peer.wire)'
    BY <1>1, <2>0 DEF WireInv, ScreenFirst, InOrderFrom, Shown
  <2>3. WireWhole(peer.wire)' BY <1>1, <2>0 DEF WireInv, WireWhole, Shown
  <2>4. WireEnds(peer.wire)' BY <2>0 DEF WireInv, WireEnds
  <2> QED BY <2>1, <2>2, <2>3, <2>4 DEF WireInv
<1> QED BY <1>2, <1>3 DEF AttachInv
----------------------------------------------------------------------------
(* The other end. *)

LEMMA JoinFacts ==
  ASSUME NEW S, NEW u \in Seq(S), NEW v \in Seq(S)
  PROVE  /\ u \o v \in Seq(S) /\ Len(u \o v) = Len(u) + Len(v)
         /\ \A i \in 1..Len(u) : (u \o v)[i] = u[i]
         /\ \A i \in 1..Len(v) : (u \o v)[Len(u) + i] = v[i]
OBVIOUS

(* The daemon serves: the screen is the first of what it sends. *)
LEMMA ServesKeeps == ASSUME AttachInv, PeerServes PROVE AttachInv'
<1> DEFINE w == peer.wire
           g == IF peer.v1 THEN <<Frame("Geometry", 0)>> ELSE <<>>
           s == <<Frame("Screen", session.out)>>
           e == IF session.exited THEN <<Frame("Exit", 0)>> ELSE <<>>
           p == Len(w) + Len(g) + 1
<1>0. AttachTypes /\ LineInv BY DEF AttachInv
<1>1. /\ a \in AttachRecord /\ seen \in SeenRecord /\ peer \in PeerRecord /\ w \in Seq(FrameRecord)
      /\ session.out \in Nat /\ peer.id # 0 BY <1>0 DEF AttachTypes, PeerRecord
<1>2. a.sock # 0 /\ a.sock = peer.id /\ peer.open /\ ~peer.served BY DEF PeerServes, Connected
<1>3. MachineInv /\ WireInv(w) BY <1>2 DEF AttachInv
<1>4. ~Began /\ (\A i \in DOMAIN w : w[i].t \notin StreamEvents) BY <1>2, <1>3 DEF WireInv, WireWhole
<1>5. /\ g \in Seq(FrameRecord) /\ s \in Seq(FrameRecord) /\ e \in Seq(FrameRecord)
      /\ Len(s) = 1 /\ s[1].t = "Screen" /\ s[1].n = session.out
      /\ \A i \in 1..Len(g) : g[i].t = "Geometry"
      /\ \A i \in 1..Len(e) : e[i].t = "Exit"
  <2>1. /\ Frame("Geometry", 0) \in FrameRecord /\ Frame("Screen", session.out) \in FrameRecord
        /\ Frame("Exit", 0) \in FrameRecord BY <1>1 DEF Frame, FrameRecord, FrameTypes
  <2>2. g \in Seq(FrameRecord) /\ (\A i \in 1..Len(g) : g[i].t = "Geometry")
    <3>1. CASE peer.v1 BY <2>1, <3>1 DEF Frame
    <3>2. CASE ~peer.v1 BY <3>2
    <3> QED BY <3>1, <3>2
  <2>3. e \in Seq(FrameRecord) /\ (\A i \in 1..Len(e) : e[i].t = "Exit")
    <3>1. CASE session.exited BY <2>1, <3>1 DEF Frame
    <3>2. CASE ~session.exited BY <3>2
    <3> QED BY <3>1, <3>2
  <2>4. s \in Seq(FrameRecord) /\ Len(s) = 1 /\ s[1].t = "Screen" /\ s[1].n = session.out
    BY <2>1 DEF Frame
  <2> QED BY <2>2, <2>3, <2>4
<1> DEFINE x == ((w \o g) \o s) \o e
<1>6. peer'.wire = x /\ UNCHANGED <<a, seen, session, user>>
      /\ peer'.served /\ peer' \in PeerRecord /\ peer'.id = peer.id /\ (peer'.bad <=> peer.bad)
  <2>1. peer' = [peer EXCEPT !.served = TRUE, !.wire = x, !.open = ~session.exited] BY DEF PeerServes
  <2> HIDE DEF g, s, e
  <2>2. x \in Seq(FrameRecord) BY <1>1, <1>5
  <2>3. (~session.exited) \in BOOLEAN OBVIOUS
  <2> HIDE DEF x
  <2> QED BY <1>1, <2>1, <2>2, <2>3 DEF PeerRecord, PeerServes
<1> HIDE DEF g, s, e, w
<1>7. /\ DOMAIN x = 1..(p + Len(e)) /\ Len(x) = p + Len(e)
      /\ DOMAIN w = 1..Len(w) /\ Len(w) \in Nat /\ Len(g) \in Nat /\ Len(e) \in Nat
      /\ \A i \in 1..Len(w) : x[i] = w[i]
      /\ \A i \in 1..Len(g) : x[Len(w) + i] = g[i]
      /\ x[p] = s[1]
      /\ \A i \in 1..Len(e) : x[p + i] = e[i]
  <2> DEFINE y == w \o g
             z == y \o s
  <2>1. /\ y \in Seq(FrameRecord) /\ Len(y) = Len(w) + Len(g) /\ Len(w) \in Nat /\ Len(g) \in Nat
        /\ \A i \in 1..Len(w) : y[i] = w[i]
        /\ \A i \in 1..Len(g) : y[Len(w) + i] = g[i] BY <1>1, <1>5
  <2> HIDE DEF y
  <2>2. /\ z \in Seq(FrameRecord) /\ Len(z) = p
        /\ \A i \in 1..Len(y) : z[i] = y[i]
        /\ z[p] = s[1]
    <3>1. /\ z \in Seq(FrameRecord) /\ Len(z) = Len(y) + 1
          /\ \A i \in 1..Len(y) : z[i] = y[i]
          /\ \A i \in 1..Len(s) : z[Len(y) + i] = s[i]
      <4>1. y \in Seq(FrameRecord) /\ s \in Seq(FrameRecord) BY <1>5, <2>1
      <4>2. /\ z \in Seq(FrameRecord) /\ Len(z) = Len(y) + Len(s)
            /\ \A i \in 1..Len(y) : z[i] = y[i]
            /\ \A i \in 1..Len(s) : z[Len(y) + i] = s[i] BY <4>1, JoinFacts
      <4> HIDE DEF z
      <4> QED BY <1>5, <4>1, <4>2
    <3>2. z[Len(y) + 1] = s[1] BY <1>5, <3>1
    <3> QED BY <2>1, <3>1, <3>2
  <2> HIDE DEF z
  <2>3. /\ x \in Seq(FrameRecord) /\ Len(x) = p + Len(e) /\ DOMAIN x = 1..Len(x) /\ Len(e) \in Nat
        /\ \A i \in 1..p : x[i] = z[i]
        /\ \A i \in 1..Len(e) : x[p + i] = e[i]
    <3>1. x = z \o e BY DEF z, y
    <3> HIDE DEF x, p
    <3> QED BY SMTT(60), <1>5, <2>2, <3>1
  <2> HIDE DEF x
  <2>4. DOMAIN w = 1..Len(w) BY <1>1
  <2>5. \A i \in 1..Len(w) : x[i] = w[i] BY <2>1, <2>2, <2>3
  <2>6. ASSUME NEW i \in 1..Len(g) PROVE x[Len(w) + i] = g[i]
    <3>1. Len(w) + i \in 1..Len(y) /\ Len(w) + i \in 1..p BY <2>1
    <3>2. y[Len(w) + i] = g[i] BY <2>1
    <3> QED BY <2>2, <2>3, <3>1, <3>2
  <2>7. x[p] = s[1] BY <2>1, <2>2, <2>3
  <2> QED BY <2>1, <2>3, <2>4, <2>5, <2>6, <2>7
<1> HIDE DEF x
<1>8. /\ \A i \in 1..Len(w) : x[i].t \notin StreamEvents /\ x[i] = w[i]
      /\ \A i \in (Len(w) + 1)..(p - 1) : x[i].t = "Geometry"
      /\ \A i \in (p + 1)..(p + Len(e)) : x[i].t = "Exit"
      /\ x[p].t = "Screen" /\ x[p].n = session.out /\ p \in Nat /\ p > Len(w)
  <2>1. \A i \in 1..Len(w) : x[i].t \notin StreamEvents BY <1>4, <1>7
  <2>2. ASSUME NEW i \in (Len(w) + 1)..(p - 1) PROVE x[i].t = "Geometry"
    <3>1. i - Len(w) \in 1..Len(g) /\ i = Len(w) + (i - Len(w)) BY <1>7
    <3>2. PICK k \in 1..Len(g) : i = Len(w) + k BY <3>1
    <3> QED BY SMTT(60), <1>5, <1>7, <3>2
  <2>3. ASSUME NEW i \in (p + 1)..(p + Len(e)) PROVE x[i].t = "Exit"
    <3>1. i - p \in 1..Len(e) /\ i = p + (i - p) BY <1>7
    <3>2. PICK k \in 1..Len(e) : i = p + k BY <3>1
    <3> QED BY SMTT(60), <1>5, <1>7, <3>2
  <2> QED BY <1>5, <1>7, <2>1, <2>2, <2>3
<1> HIDE DEF p
<1>9. ~Began' /\ (Placed' <=> Placed) BY <1>4, <1>6 DEF Began, Placed
<1>a. ASSUME NEW i \in DOMAIN x
      PROVE  \/ i \in 1..Len(w) /\ x[i].t \notin StreamEvents /\ i < p
             \/ x[i].t = "Geometry" /\ i < p
             \/ i = p
             \/ x[i].t = "Exit" /\ i > p
  <2>1. i \in 1..Len(w) \/ i \in (Len(w) + 1)..(p - 1) \/ i = p \/ i \in (p + 1)..(p + Len(e))
    BY <1>7, <1>8
  <2> QED BY <1>7, <1>8, <2>1
<1>b. /\ \A i \in DOMAIN x : x[i].t = "Screen" => i = p
      /\ \A i \in DOMAIN x : x[i].t \in {"Data", "Exit"} => x[i].t = "Exit" /\ p \in 1..(i - 1)
      /\ p \in DOMAIN x BY SMTT(60), <1>7, <1>8, <1>a DEF StreamEvents
<1>10. ScreenFirst(peer.wire)' BY SMTT(60), <1>6, <1>7, <1>8, <1>9, <1>a, <1>b DEF ScreenFirst, StreamEvents
<1>11. InOrderFrom(peer.wire)' BY <1>6, <1>8, <1>b DEF InOrderFrom, Shown
<1>12. WireWhole(peer.wire)' BY <1>1, <1>6, <1>8, <1>b DEF WireWhole, Shown
<1>13. WireEnds(peer.wire)'
  <2>1. a.reader # "half" /\ (\A i \in 1..Len(w) : w[i].t # "Half" /\ (w[i].t = "Malformed" => peer.bad))
    BY <1>2, <1>3, <1>7 DEF WireInv, WireEnds
  <2>2. \A i \in DOMAIN x : x[i].t \in {"Half", "Malformed"} => i \in 1..Len(w) BY <1>7, <1>8, <1>a
  <2> QED BY <1>6, <1>8, <2>1, <2>2 DEF WireEnds
<1>14. (AttachTypes /\ LineInv /\ MachineInv)'
  BY <1>0, <1>3, <1>6, <1>9 DEF AttachTypes, LineInv, MachineInv, Began
<1> QED BY <1>10, <1>11, <1>12, <1>13, <1>14 DEF AttachInv, WireInv

LEMMA AppendFacts ==
  ASSUME NEW S, NEW w \in Seq(S), NEW f \in S
  PROVE  /\ Append(w, f) \in Seq(S) /\ Len(Append(w, f)) = Len(w) + 1 /\ Len(w) \in Nat
         /\ DOMAIN Append(w, f) = 1..(Len(w) + 1) /\ DOMAIN w = 1..Len(w)
         /\ \A i \in 1..Len(w) : Append(w, f)[i] = w[i]
         /\ Append(w, f)[Len(w) + 1] = f
OBVIOUS

(* One frame more: output while the daemon serves, its end, an error. *)
LEMMA OneMore ==
  ASSUME AttachInv, NEW f \in FrameRecord, f.t \notin {"Geometry", "Screen", "Half"},
         peer.open, peer' \in PeerRecord, peer'.id = peer.id, peer'.wire = Append(peer.wire, f),
         peer'.served <=> peer.served, peer.bad => peer'.bad, f.t = "Malformed" => peer'.bad,
         UNCHANGED <<a, seen, user>>, session' \in [out : Nat, exited : BOOLEAN],
         session'.out = IF f.t = "Data" THEN session.out + 1 ELSE session.out,
         f.t = "Data" => f.n = session.out + 1,
         f.t \in {"Data", "Exit"} => peer.served
  PROVE  AttachInv'
<1> DEFINE w == peer.wire
           m == Len(w) + 1
<1>0. AttachTypes /\ LineInv BY DEF AttachInv
<1>1. w \in Seq(FrameRecord) /\ session.out \in Nat BY <1>0 DEF AttachTypes, PeerRecord
<1>2. /\ DOMAIN peer'.wire = 1..m /\ DOMAIN w = 1..Len(w) /\ Len(w) \in Nat /\ Len(peer'.wire) = m
      /\ \A i \in 1..Len(w) : peer'.wire[i] = w[i]
      /\ peer'.wire[m] = f BY <1>1, AppendFacts
<1>3. (AttachTypes /\ LineInv)' BY <1>0 DEF AttachTypes, LineInv
<1>4. (Began' <=> Began) /\ (Placed' <=> Placed) BY DEF Began, Placed
<1>5. ASSUME a.sock # 0 PROVE (MachineInv /\ WireInv(peer.wire))'
  <2>0. MachineInv /\ WireInv(w) BY <1>5 DEF AttachInv
  <2>1. MachineInv' BY <1>4, <2>0 DEF MachineInv
  <2>a. ScreenFirst(w) /\ InOrderFrom(w) /\ WireWhole(w) /\ WireEnds(w) BY <2>0 DEF WireInv
  <2> HIDE DEF w
  <2>b. \A i \in 1..m : i \in 1..Len(w) \/ i = m BY <1>2
  <2>c. \A i \in 1..Len(w) : w[i].n \in Nat
    <3>1. \A i \in 1..Len(w) : w[i] \in FrameRecord BY <1>1
    <3> QED BY <3>1 DEF FrameRecord
  <2>d. m \in Nat /\ (\A i \in 1..Len(w) : i \in 1..(m - 1)) /\ 1..(m - 1) = 1..Len(w) BY <1>2
  <2>e. \A i \in 1..Len(w) : 1..(i - 1) \subseteq 1..Len(w) BY <1>2
  <2>f. peer'.served /\ f.t \in {"Data", "Exit"} =>
          Began \/ \E j \in 1..Len(w) : w[j].t = "Screen"
    <3> SUFFICES ASSUME peer'.served, f.t \in {"Data", "Exit"}, ~Began
                 PROVE  \E j \in 1..Len(w) : w[j].t = "Screen" OBVIOUS
    <3>1. PICK i \in DOMAIN w : Shown(w[i]) BY <2>a DEF WireWhole
    <3> QED BY <1>2, <2>a, <2>e, <3>1 DEF ScreenFirst, Shown
  <2>2. ScreenFirst(peer.wire)'
    <3> SUFFICES ASSUME NEW i \in 1..m
                 PROVE  /\ peer'.wire[i].t = "Screen" =>
                             ~Began /\ \A j \in 1..(i - 1) : peer'.wire[j].t \notin {"Screen", "Data", "Exit"}
                        /\ peer'.wire[i].t \in {"Data", "Exit"} =>
                             Began \/ \E j \in 1..(i - 1) : peer'.wire[j].t = "Screen"
      BY <1>2, <1>4 DEF ScreenFirst
    <3> HIDE DEF m
    <3>1. CASE i \in 1..Len(w) BY ZenonT(60), <1>2, <2>a, <2>e, <3>1 DEF ScreenFirst
    <3>2. CASE i = m
      <4>1. f.t # "Screen" OBVIOUS
      <4>2. f.t \in {"Data", "Exit"} => Began \/ \E j \in 1..(i - 1) : peer'.wire[j].t = "Screen"
        BY <1>2, <2>d, <2>f, <3>2
      <4> QED BY <1>2, <3>2, <4>1, <4>2
    <3> QED BY <2>b, <3>1, <3>2
  <2>3. InOrderFrom(peer.wire)'
    <3> HIDE DEF m
    <3>1. ASSUME NEW i \in 1..m, peer'.wire[i].t = "Data"
          PROVE  \/ \E j \in 1..(i - 1) : Shown(peer'.wire[j]) /\ peer'.wire[i].n = peer'.wire[j].n + 1
                 \/ /\ Began /\ peer'.wire[i].n = seen.upto + 1
                    /\ \A j \in 1..(i - 1) : ~Shown(peer'.wire[j])
      <4>1. CASE i \in 1..Len(w) BY ZenonT(60), <1>2, <2>a, <2>e, <3>1, <4>1 DEF InOrderFrom
      <4>2. CASE i = m
        <5>1. f.t = "Data" /\ f.n = session.out + 1 /\ peer.served BY <1>2, <3>1, <4>2
        <5>2. CASE \E k \in DOMAIN w : Shown(w[k]) /\ w[k].n = session.out
          BY <1>2, <2>d, <4>2, <5>1, <5>2
        <5>3. CASE Began /\ seen.upto = session.out /\ \A k \in DOMAIN w : ~Shown(w[k])
          BY <1>2, <2>d, <4>2, <5>1, <5>3
        <5> QED BY <2>a, <5>1, <5>2, <5>3 DEF WireWhole
      <4> QED BY <2>b, <4>1, <4>2
    <3>2. ASSUME NEW i \in 1..m, NEW j \in 1..m, i < j, Shown(peer'.wire[i]), Shown(peer'.wire[j])
          PROVE  peer'.wire[i].n < peer'.wire[j].n
      <4>1. i \in 1..Len(w) BY <1>2, <2>b, <2>d, <3>2
      <4>2. CASE j \in 1..Len(w) BY <1>2, <2>a, <3>2, <4>1, <4>2 DEF InOrderFrom
      <4>3. CASE j = m
        <5>1. f.t = "Data" /\ f.n = session.out + 1 BY <1>2, <3>2, <4>3 DEF Shown
        <5>2. w[i].n <= session.out BY <1>2, <2>a, <3>2, <4>1 DEF WireWhole
        <5> QED BY <1>1, <1>2, <2>c, <4>1, <4>3, <5>1, <5>2
      <4> QED BY <2>b, <4>2, <4>3
    <3> QED BY <1>2, <1>4, <3>1, <3>2 DEF InOrderFrom
  <2>4. WireWhole(peer.wire)'
    <3> HIDE DEF m
    <3>1. ~peer'.served => ~Began' /\ \A i \in 1..m : peer'.wire[i].t \notin StreamEvents
      <4>1. ~peer'.served => f.t \notin StreamEvents BY DEF StreamEvents
      <4> QED BY <1>2, <1>4, <2>a, <2>b, <4>1 DEF WireWhole
    <3>2. \A i \in 1..m : Shown(peer'.wire[i]) => peer'.wire[i].n <= session'.out
      <4>1. \A i \in 1..Len(w) : Shown(w[i]) => w[i].n <= session'.out
        BY <1>1, <1>2, <2>a, <2>c DEF WireWhole
      <4>2. Shown(f) => f.n <= session'.out BY <1>1 DEF Shown
      <4> QED BY <1>2, <2>b, <4>1, <4>2
    <3>3. peer'.open /\ peer'.served =>
            \/ \E i \in 1..m : Shown(peer'.wire[i]) /\ peer'.wire[i].n = session'.out
            \/ Began' /\ seen'.upto = session'.out /\ \A i \in 1..m : ~Shown(peer'.wire[i])
      <4>1. CASE f.t = "Data"
        <5>1. Shown(f) /\ f.n = session'.out BY <4>1 DEF Shown
        <5> QED BY <1>2, <2>d, <5>1
      <4>2. CASE f.t # "Data"
        <5>1. ~Shown(f) /\ session'.out = session.out BY <4>2 DEF Shown
        <5> QED BY SMTT(60), <1>2, <1>4, <2>a, <2>b, <2>d, <5>1 DEF WireWhole
      <4> QED BY <4>1, <4>2
    <3> QED BY <1>2, <3>1, <3>2, <3>3 DEF WireWhole
  <2>5. WireEnds(peer.wire)'
    <3>1. a.reader # "half" /\ \A i \in 1..Len(w) : w[i].t # "Half" BY <1>2, <2>a DEF WireEnds
    <3>2. \A i \in 1..Len(w) : w[i].t = "Malformed" => peer'.bad BY <1>2, <2>a DEF WireEnds
    <3> HIDE DEF m
    <3> QED BY <1>2, <2>b, <3>1, <3>2 DEF WireEnds
  <2> QED BY <2>1, <2>2, <2>3, <2>4, <2>5 DEF WireInv
<1> QED BY <1>3, <1>5 DEF AttachInv

LEMMA SpeaksKeeps == ASSUME AttachInv, PeerSpeaks PROVE AttachInv'
<1>0. AttachTypes /\ LineInv BY DEF AttachInv
<1>1. /\ peer \in PeerRecord /\ peer.wire \in Seq(FrameRecord)
      /\ session \in [out : Nat, exited : BOOLEAN] /\ session.out \in Nat
  BY <1>0 DEF AttachTypes, PeerRecord
<1>2. /\ session' \in [out : Nat, exited : BOOLEAN] /\ session'.out = session.out + 1
      /\ UNCHANGED <<a, seen, user>> BY <1>1 DEF PeerSpeaks
<1>3. CASE peer.open /\ peer.served
  <2> DEFINE f == Frame("Data", session.out + 1)
  <2>1. f \in FrameRecord /\ f.t = "Data" /\ f.n = session.out + 1
    BY <1>1 DEF Frame, FrameRecord, FrameTypes
  <2>2. peer' = [peer EXCEPT !.wire = Append(@, f)] BY <1>3 DEF PeerSpeaks
  <2> HIDE DEF f
  <2>3. Append(peer.wire, f) \in Seq(FrameRecord) BY <1>1, <2>1, AppendFacts
  <2>4. peer' \in PeerRecord /\ peer'.id = peer.id /\ peer'.wire = Append(peer.wire, f)
        /\ (peer'.served <=> peer.served) /\ (peer'.bad <=> peer.bad) BY <1>1, <2>2, <2>3 DEF PeerRecord
  <2> QED BY <1>2, <1>3, <2>1, <2>4, OneMore
<1>4. CASE ~(peer.open /\ peer.served)
  <2>1. peer' = peer BY <1>4 DEF PeerSpeaks
  <2>2. (AttachTypes /\ LineInv)' BY <1>0, <1>2, <2>1 DEF AttachTypes, LineInv
  <2>3. (Began' <=> Began) /\ (Placed' <=> Placed) BY <1>2 DEF Began, Placed
  <2>4. ASSUME a.sock # 0 PROVE (MachineInv /\ WireInv(peer.wire))'
    <3>0. MachineInv /\ WireInv(peer.wire) BY <2>4 DEF AttachInv
    <3>1. MachineInv' /\ ScreenFirst(peer.wire)' /\ InOrderFrom(peer.wire)' /\ WireEnds(peer.wire)'
      BY <1>2, <2>1, <2>3, <3>0 DEF MachineInv, WireInv, ScreenFirst, InOrderFrom, WireEnds
    <3>2. WireWhole(peer.wire)'
      <4>1. \A i \in DOMAIN peer.wire : peer.wire[i].n \in Nat
        <5>1. \A i \in DOMAIN peer.wire : peer.wire[i] \in FrameRecord BY <1>1
        <5> QED BY <5>1 DEF FrameRecord
      <4> QED BY <1>1, <1>2, <1>4, <2>1, <2>3, <3>0, <4>1 DEF WireInv, WireWhole, Shown
    <3> QED BY <3>1, <3>2 DEF WireInv
  <2> QED BY <1>2, <2>2, <2>4 DEF AttachInv
<1> QED BY <1>3, <1>4

LEMMA ExitsKeeps == ASSUME AttachInv, PeerExits PROVE AttachInv'
<1>0. AttachTypes /\ LineInv BY DEF AttachInv
<1>1. /\ peer \in PeerRecord /\ peer.wire \in Seq(FrameRecord)
      /\ session \in [out : Nat, exited : BOOLEAN] BY <1>0 DEF AttachTypes, PeerRecord
<1>2. /\ session' \in [out : Nat, exited : BOOLEAN] /\ session'.out = session.out
      /\ UNCHANGED <<a, seen, user>> BY <1>1 DEF PeerExits
<1>3. CASE peer.open /\ peer.served
  <2> DEFINE f == Frame("Exit", 0)
  <2>1. f \in FrameRecord /\ f.t = "Exit" BY DEF Frame, FrameRecord, FrameTypes
  <2>2. peer' = [peer EXCEPT !.wire = Append(@, f), !.open = FALSE] BY <1>3 DEF PeerExits
  <2> HIDE DEF f
  <2>3. Append(peer.wire, f) \in Seq(FrameRecord) BY <1>1, <2>1, AppendFacts
  <2>4. peer' \in PeerRecord /\ peer'.id = peer.id /\ peer'.wire = Append(peer.wire, f)
        /\ (peer'.served <=> peer.served) /\ (peer'.bad <=> peer.bad) BY <1>1, <2>2, <2>3 DEF PeerRecord
  <2> QED BY <1>2, <1>3, <2>1, <2>4, OneMore
<1>4. CASE ~(peer.open /\ peer.served)
  <2>1. peer' = peer BY <1>4 DEF PeerExits
  <2>2. (AttachTypes /\ LineInv)' BY <1>0, <1>2, <2>1 DEF AttachTypes, LineInv
  <2>3. (Began' <=> Began) /\ (Placed' <=> Placed) BY <1>2 DEF Began, Placed
  <2>4. ASSUME a.sock # 0 PROVE (MachineInv /\ WireInv(peer.wire))'
    BY <1>2, <2>1, <2>3, <2>4 DEF AttachInv, MachineInv, WireInv, ScreenFirst, InOrderFrom,
       WireWhole, WireEnds
  <2> QED BY <1>2, <2>2, <2>4 DEF AttachInv
<1> QED BY <1>3, <1>4

(* The line is cut: what had arrived stays, and half a frame behind it. *)
LEMMA CutKeeps ==
  ASSUME AttachInv, a.sock # 0, peer.open, NEW k \in 0..Len(peer.wire),
         peer' = [peer EXCEPT !.wire = SubSeq(@, 1, k)
                                         \o (IF k < Len(@) THEN <<Frame("Half", 0)>> ELSE <<>>),
                              !.open = FALSE],
         UNCHANGED <<a, seen, session, user>>
  PROVE  AttachInv'
<1> DEFINE w == peer.wire
           h == IF k < Len(w) THEN <<Frame("Half", 0)>> ELSE <<>>
           u == SubSeq(w, 1, k)
           x == u \o h
<1>0. AttachTypes /\ LineInv /\ MachineInv /\ WireInv(w) BY DEF AttachInv
<1>1. peer \in PeerRecord /\ w \in Seq(FrameRecord) BY <1>0 DEF AttachTypes, PeerRecord
<1>2. h \in Seq(FrameRecord) /\ Len(h) \in {0, 1} /\ (\A i \in 1..Len(h) : h[i].t = "Half")
  <2>1. Frame("Half", 0) \in FrameRecord /\ Frame("Half", 0).t = "Half"
    BY DEF Frame, FrameRecord, FrameTypes
  <2>2. CASE k < Len(w) BY <2>1, <2>2
  <2>3. CASE ~(k < Len(w)) BY <2>3
  <2> QED BY <2>2, <2>3
<1>3. u \in Seq(FrameRecord) /\ Len(u) = k /\ (\A i \in 1..k : u[i] = w[i])
      /\ Len(w) \in Nat /\ DOMAIN w = 1..Len(w) /\ k \in 0..Len(w) BY <1>1
<1>4. peer' = [peer EXCEPT !.wire = x, !.open = FALSE] OBVIOUS
<1> HIDE DEF h, u, w
<1>5. /\ x \in Seq(FrameRecord) /\ Len(x) = k + Len(h) /\ DOMAIN x = 1..Len(x) /\ Len(h) \in Nat
      /\ \A i \in 1..k : x[i] = w[i]
      /\ \A i \in 1..Len(h) : x[k + i] = h[i]
  <2>1. /\ x \in Seq(FrameRecord) /\ Len(x) = Len(u) + Len(h)
        /\ \A i \in 1..Len(u) : x[i] = u[i]
        /\ \A i \in 1..Len(h) : x[Len(u) + i] = h[i]
    <3>1. u \in Seq(FrameRecord) /\ h \in Seq(FrameRecord) BY <1>2, <1>3
    <3> QED BY <3>1, JoinFacts
  <2> HIDE DEF x
  <2> QED BY <1>2, <1>3, <2>1
<1> HIDE DEF x
<1>6. peer' \in PeerRecord /\ peer'.wire = x /\ peer'.id = peer.id /\ ~peer'.open
      /\ (peer'.served <=> peer.served) /\ (peer'.bad <=> peer.bad) BY <1>1, <1>4, <1>5 DEF PeerRecord
<1>7. \A i \in DOMAIN x : \/ i \in 1..k /\ i \in DOMAIN w /\ x[i] = w[i] /\ 1..(i - 1) \subseteq 1..k
                          \/ i = Len(x) /\ x[i].t = "Half"
  <2> SUFFICES ASSUME NEW i \in DOMAIN x
               PROVE  \/ i \in 1..k /\ i \in DOMAIN w /\ x[i] = w[i] /\ 1..(i - 1) \subseteq 1..k
                      \/ i = Len(x) /\ x[i].t = "Half" OBVIOUS
  <2>1. i \in 1..k \/ (Len(h) = 1 /\ i = k + 1)
    <3>1. i \in 1..(k + Len(h)) /\ k \in Nat /\ Len(h) \in {0, 1} BY <1>2, <1>3, <1>5
    <3>2. CASE Len(h) = 0 BY <3>1, <3>2
    <3>3. CASE Len(h) = 1 BY <3>1, <3>3
    <3> QED BY <3>1, <3>2, <3>3
  <2>2. CASE i \in 1..k BY <1>3, <1>5, <2>2
  <2>3. CASE Len(h) = 1 /\ i = k + 1
    <3>1. x[k + 1] = h[1] /\ h[1].t = "Half" /\ Len(x) = k + 1 BY <1>2, <1>3, <1>5, <2>3
    <3> QED BY <2>3, <3>1
  <2> QED BY <2>1, <2>2, <2>3
<1>8. (Began' <=> Began) /\ (Placed' <=> Placed) BY DEF Began, Placed
<1>9. (AttachTypes /\ LineInv /\ MachineInv)' BY <1>0, <1>6, <1>8 DEF AttachTypes, LineInv, MachineInv
<1>10. ScreenFirst(peer.wire)'
  <2> SUFFICES ASSUME NEW i \in DOMAIN x
               PROVE  /\ x[i].t = "Screen" =>
                           ~Began /\ \A j \in 1..(i - 1) : x[j].t \notin {"Screen", "Data", "Exit"}
                      /\ x[i].t \in {"Data", "Exit"} =>
                           Began \/ \E j \in 1..(i - 1) : x[j].t = "Screen" BY ZenonT(60), <1>6, <1>8 DEF ScreenFirst
  <2>1. CASE i \in 1..k /\ i \in DOMAIN w /\ x[i] = w[i] /\ 1..(i - 1) \subseteq 1..k
    <3>1. \A j \in 1..(i - 1) : x[j] = w[j] BY SMTT(60), <1>5, <2>1
    <3> QED BY <1>0, <2>1, <3>1 DEF WireInv, ScreenFirst
  <2> QED BY SMTT(60), <1>7, <2>1
<1>11. InOrderFrom(peer.wire)'
  <2>1. ASSUME NEW i \in DOMAIN x, x[i].t = "Data"
        PROVE  \/ \E j \in 1..(i - 1) : Shown(x[j]) /\ x[i].n = x[j].n + 1
               \/ Began /\ x[i].n = seen.upto + 1 /\ \A j \in 1..(i - 1) : ~Shown(x[j])
    <3>1. i \in DOMAIN w /\ x[i] = w[i] /\ \A j \in 1..(i - 1) : x[j] = w[j] BY <1>5, <1>7, <2>1
    <3> QED BY <1>0, <2>1, <3>1 DEF WireInv, InOrderFrom
  <2>2. ASSUME NEW i \in DOMAIN x, NEW j \in DOMAIN x, i < j, Shown(x[i]), Shown(x[j])
        PROVE  x[i].n < x[j].n
    <3>1. i \in DOMAIN w /\ x[i] = w[i] /\ j \in DOMAIN w /\ x[j] = w[j] BY <1>7, <2>2 DEF Shown
    <3> QED BY <1>0, <2>2, <3>1 DEF WireInv, InOrderFrom
  <2> QED BY ZenonT(60), <1>6, <1>8, <2>1, <2>2 DEF InOrderFrom
<1>12. WireWhole(peer.wire)' BY <1>0, <1>6, <1>7, <1>8 DEF WireInv, WireWhole, Shown, StreamEvents
<1>13. WireEnds(peer.wire)' BY SMTT(60), <1>0, <1>5, <1>6, <1>7 DEF WireInv, WireEnds
<1> QED BY <1>9, <1>10, <1>11, <1>12, <1>13 DEF AttachInv, WireInv

LEMMA FailsKeeps == ASSUME AttachInv, PeerFails PROVE AttachInv'
<1>0. AttachTypes /\ LineInv BY DEF AttachInv
<1>1. /\ peer \in PeerRecord /\ peer.wire \in Seq(FrameRecord)
      /\ session \in [out : Nat, exited : BOOLEAN] BY <1>0 DEF AttachTypes, PeerRecord
<1>2. a.sock # 0 /\ peer.open /\ UNCHANGED <<a, seen, session, user>> BY DEF PeerFails, Connected
<1>3. ASSUME NEW f \in FrameRecord, f.t \in {"ConnectionError", "Malformed"},
             peer' \in PeerRecord, peer'.id = peer.id, peer'.wire = Append(peer.wire, f),
             peer'.served <=> peer.served, peer.bad => peer'.bad, f.t = "Malformed" => peer'.bad
      PROVE  AttachInv' BY <1>1, <1>2, <1>3, OneMore
<1>4. CASE peer' = [peer EXCEPT !.wire = Append(@, Frame("ConnectionError", 0)), !.open = FALSE]
  <2> DEFINE f == Frame("ConnectionError", 0)
  <2>1. f \in FrameRecord /\ f.t = "ConnectionError" BY DEF Frame, FrameRecord, FrameTypes
  <2> HIDE DEF f
  <2>2. peer' = [peer EXCEPT !.wire = Append(@, f), !.open = FALSE] BY <1>4 DEF f
  <2>3. Append(peer.wire, f) \in Seq(FrameRecord) BY <1>1, <2>1, AppendFacts
  <2>4. peer' \in PeerRecord /\ peer'.id = peer.id /\ peer'.wire = Append(peer.wire, f)
        /\ (peer'.served <=> peer.served) /\ (peer'.bad <=> peer.bad) BY <1>1, <2>2, <2>3 DEF PeerRecord
  <2> QED BY <1>3, <2>1, <2>4
<1>5. CASE peer' = [peer EXCEPT !.wire = Append(@, Frame("Malformed", 0)), !.bad = TRUE]
  <2> DEFINE f == Frame("Malformed", 0)
  <2>1. f \in FrameRecord /\ f.t = "Malformed" BY DEF Frame, FrameRecord, FrameTypes
  <2> HIDE DEF f
  <2>2. peer' = [peer EXCEPT !.wire = Append(@, f), !.bad = TRUE] BY <1>5 DEF f
  <2>3. Append(peer.wire, f) \in Seq(FrameRecord) BY <1>1, <2>1, AppendFacts
  <2>4. peer' \in PeerRecord /\ peer'.id = peer.id /\ peer'.wire = Append(peer.wire, f)
        /\ (peer'.served <=> peer.served) /\ peer'.bad BY <1>1, <2>2, <2>3 DEF PeerRecord
  <2> QED BY <1>3, <2>1, <2>4
<1> QED BY <1>2, <1>4, <1>5, CutKeeps DEF PeerFails
----------------------------------------------------------------------------
(* A frame is read. *)

(* What is shown of a frame continues what was shown before it. *)
LEMMA ShowsFacts ==
  ASSUME AttachInv, a.sock # 0, peer.wire # <<>>, NEW f, f = Head(peer.wire),
         f.t \in StreamEvents, Shows(f), a.machine # "off" => Accepts(a.machine, f.t) = "forwarded"
  PROVE  /\ seen' \in SeenRecord /\ seen'.conn = a.sock /\ ~seen'.torn /\ ~seen'.early
         /\ seen'.screen <=> Began \/ f.t = "Screen"
         /\ seen'.geom <=> Placed \/ f.t = "Geometry"
         /\ seen'.upto = IF Shown(f) THEN f.n ELSE seen.upto
<1> DEFINE old == IF seen.conn = a.sock THEN seen
                  ELSE [seen EXCEPT !.conn = a.sock, !.geom = FALSE, !.screen = FALSE]
<1>0. AttachTypes /\ LineInv /\ MachineInv /\ WireInv(peer.wire) BY DEF AttachInv
<1>1. a \in AttachRecord /\ seen \in SeenRecord /\ peer.wire \in Seq(FrameRecord) /\ a.sock \in Nat
      /\ a.machine \in Machines BY <1>0 DEF AttachTypes, PeerRecord, AttachRecord
<1>2. f = peer.wire[1] /\ f \in FrameRecord /\ f.n \in Nat /\ 1 \in DOMAIN peer.wire
  <2> DEFINE w == peer.wire
  <2>1. w \in Seq(FrameRecord) /\ w # <<>> /\ f = Head(w) BY <1>1
  <2> HIDE DEF w
  <2>2. f = w[1] /\ f \in FrameRecord /\ 1 \in DOMAIN w BY <2>1
  <2>3. f.n \in Nat BY <2>2 DEF FrameRecord
  <2> QED BY <2>2, <2>3 DEF w
<1>3. /\ old \in SeenRecord /\ old.conn = a.sock /\ ~old.torn /\ ~old.early
      /\ (old.screen <=> Began) /\ (old.geom <=> Placed) /\ old.upto = seen.upto
  BY <1>0, <1>1 DEF LineInv, SeenRecord, Began, Placed
<1>4. f.t = "Data" => Began /\ f.n = seen.upto + 1 BY <1>0, <1>2 DEF WireInv, InOrderFrom
<1>5. f.t = "Exit" => Began BY <1>0, <1>2 DEF WireInv, ScreenFirst
<1>6. f.t = "Screen" /\ a.machine # "off" => Placed
  BY <1>0, <1>1 DEF MachineInv, Accepts, StreamEvents, Machines
<1>7. seen' = CASE f.t = "Geometry" -> [old EXCEPT !.geom = TRUE]
                [] f.t = "Screen" -> [old EXCEPT !.screen = TRUE, !.upto = f.n,
                                                 !.early = @ \/ (a.machine # "off" /\ ~old.geom)]
                [] f.t = "Data" -> [old EXCEPT !.upto = f.n, !.early = @ \/ ~old.screen,
                                               !.torn = @ \/ (old.screen /\ f.n # old.upto + 1)]
                [] f.t = "Exit" -> [old EXCEPT !.early = @ \/ ~old.screen, !.ended = TRUE]
                [] OTHER -> old BY DEF Shows
<1> HIDE DEF old
<1>8. CASE f.t = "Geometry"
  <2>1. seen' = [old EXCEPT !.geom = TRUE] BY <1>7, <1>8
  <2> QED BY <1>3, <1>8, <2>1 DEF SeenRecord, Shown
<1>9. CASE f.t = "Screen"
  <2> DEFINE late == old.early \/ (a.machine # "off" /\ ~old.geom)
  <2>1. ~late /\ late \in BOOLEAN BY <1>3, <1>6, <1>9 DEF SeenRecord
  <2>2. seen' = [old EXCEPT !.screen = TRUE, !.upto = f.n, !.early = late] BY <1>7, <1>9
  <2> HIDE DEF late
  <2> QED BY <1>2, <1>3, <1>9, <2>1, <2>2 DEF SeenRecord, Shown
<1>10. CASE f.t = "Data"
  <2> DEFINE late == old.early \/ ~old.screen
             tears == old.torn \/ (old.screen /\ f.n # old.upto + 1)
  <2>1. ~late /\ late \in BOOLEAN /\ ~tears /\ tears \in BOOLEAN BY <1>3, <1>4, <1>10 DEF SeenRecord
  <2>2. seen' = [old EXCEPT !.upto = f.n, !.early = late, !.torn = tears] BY <1>7, <1>10
  <2> HIDE DEF late, tears
  <2> QED BY <1>2, <1>3, <1>10, <2>1, <2>2 DEF SeenRecord, Shown
<1>11. CASE f.t = "Exit"
  <2> DEFINE late == old.early \/ ~old.screen
  <2>1. ~late /\ late \in BOOLEAN BY <1>3, <1>5, <1>11 DEF SeenRecord
  <2>2. seen' = [old EXCEPT !.early = late, !.ended = TRUE] BY <1>7, <1>11
  <2> HIDE DEF late
  <2> QED BY <1>2, <1>3, <1>11, <2>1, <2>2 DEF SeenRecord, Shown
<1> QED BY <1>8, <1>9, <1>10, <1>11 DEF StreamEvents

(* The rest of the wire continues what is shown after its first frame. *)
LEMMA TailKeeps ==
  ASSUME AttachInv, a.sock # 0, peer.wire # <<>>, NEW f, f = Head(peer.wire),
         peer' = [peer EXCEPT !.wire = Tail(@)], UNCHANGED session, f.t # "Half",
         a'.reader = a.reader,
         Began' <=> Began \/ f.t = "Screen",
         seen'.upto = IF Shown(f) THEN f.n ELSE seen.upto
  PROVE  WireInv(peer.wire)'
<1> DEFINE w == peer.wire
           x == Tail(w)
<1>0. AttachTypes /\ WireInv(w) BY DEF AttachInv
<1>1. w \in Seq(FrameRecord) /\ peer \in PeerRecord /\ session.out \in Nat
  BY <1>0 DEF AttachTypes, PeerRecord
<1>2. /\ Len(w) \in Nat /\ Len(w) > 0 /\ DOMAIN w = 1..Len(w) /\ f = w[1]
      /\ DOMAIN x = 1..(Len(w) - 1) /\ Len(x) = Len(w) - 1
      /\ \A i \in 1..(Len(w) - 1) : x[i] = w[i + 1]
      /\ \A i \in 1..Len(w) : w[i] \in FrameRecord BY <1>1
<1>3. /\ peer'.wire = x /\ (peer'.open <=> peer.open) /\ (peer'.served <=> peer.served)
      /\ (peer'.bad <=> peer.bad) /\ session'.out = session.out BY <1>1 DEF PeerRecord
<1> HIDE DEF w, x
<1>4. ScreenFirst(w) /\ InOrderFrom(w) /\ WireWhole(w) /\ WireEnds(w) BY <1>0 DEF WireInv
<1>5. \A i \in 1..Len(w) : w[i].n \in Nat BY <1>2 DEF FrameRecord
<1>6. \A j \in DOMAIN w : j = 1 \/ (j - 1 \in DOMAIN x /\ x[j - 1] = w[j]) BY <1>2
<1>7. \A i \in DOMAIN x : i + 1 \in DOMAIN w /\ x[i] = w[i + 1] /\ i \in Nat /\ i > 0 BY <1>2
<1>8. 1 \in DOMAIN w /\ f = w[1] /\ f.n \in Nat BY <1>2, <1>5
<1>9. f.t = "Data" => Began BY <1>4, <1>8 DEF ScreenFirst
<1>10. ScreenFirst(peer.wire)'
  <2> SUFFICES ASSUME NEW i \in DOMAIN x
               PROVE  /\ x[i].t = "Screen" =>
                           ~Began' /\ \A j \in 1..(i - 1) : x[j].t \notin {"Screen", "Data", "Exit"}
                      /\ x[i].t \in {"Data", "Exit"} =>
                           Began' \/ \E j \in 1..(i - 1) : x[j].t = "Screen" BY <1>3 DEF ScreenFirst
  <2>0. i + 1 \in DOMAIN w /\ x[i] = w[i + 1] /\ i \in Nat /\ i > 0 /\ (i + 1) - 1 = i BY <1>7
  <2>1. CASE x[i].t = "Screen"
    <3>1. ~Began /\ \A j \in 1..i : w[j].t \notin {"Screen", "Data", "Exit"}
      BY <1>4, <2>0, <2>1 DEF ScreenFirst
    <3>2. f.t # "Screen" BY <1>8, <2>0, <3>1
    <3>3. \A j \in 1..(i - 1) : j + 1 \in 1..i /\ j \in DOMAIN x BY <1>2, <2>0
    <3>4. \A j \in 1..(i - 1) : x[j].t \notin {"Screen", "Data", "Exit"} BY <1>7, <3>1, <3>3
    <3> QED BY <2>1, <3>1, <3>2, <3>4
  <2>2. CASE x[i].t \in {"Data", "Exit"}
    <3>1. Began \/ \E j \in 1..i : w[j].t = "Screen" BY <1>4, <2>0, <2>2 DEF ScreenFirst
    <3>2. ASSUME NEW j \in 1..i, w[j].t = "Screen"
          PROVE  Began' \/ \E k \in 1..(i - 1) : x[k].t = "Screen"
      <4>1. CASE j = 1 BY <1>8, <3>2, <4>1
      <4>2. CASE j # 1
        <5>1. j \in DOMAIN w /\ j - 1 \in 1..(i - 1) BY <1>2, <2>0, <4>2
        <5> QED BY <1>6, <3>2, <4>2, <5>1
      <4> QED BY <4>1, <4>2
    <3> QED BY <2>2, <3>1, <3>2
  <2> QED BY <2>1, <2>2
<1>11. InOrderFrom(peer.wire)'
  <2>1. ASSUME NEW i \in DOMAIN x, x[i].t = "Data"
        PROVE  \/ \E j \in 1..(i - 1) : Shown(x[j]) /\ x[i].n = x[j].n + 1
               \/ Began' /\ x[i].n = seen'.upto + 1 /\ \A j \in 1..(i - 1) : ~Shown(x[j])
    <3>0. i + 1 \in DOMAIN w /\ x[i] = w[i + 1] /\ i \in Nat /\ i > 0 /\ (i + 1) - 1 = i BY <1>7
    <3>1. \/ \E j \in 1..i : Shown(w[j]) /\ w[i + 1].n = w[j].n + 1
          \/ Began /\ w[i + 1].n = seen.upto + 1 /\ \A j \in 1..i : ~Shown(w[j])
      BY <1>4, <2>1, <3>0 DEF InOrderFrom
    <3>2. ASSUME NEW j \in 1..i, Shown(w[j]), w[i + 1].n = w[j].n + 1, j # 1
          PROVE  \E k \in 1..(i - 1) : Shown(x[k]) /\ x[i].n = x[k].n + 1
      <4>1. j \in DOMAIN w /\ j - 1 \in 1..(i - 1) BY <1>2, <3>0, <3>2
      <4>2. x[j - 1] = w[j] BY <1>6, <3>2, <4>1
      <4> QED BY <3>0, <3>2, <4>1, <4>2
    <3>3. ASSUME Shown(w[1]), w[i + 1].n = w[1].n + 1
          PROVE  Began' /\ x[i].n = seen'.upto + 1 /\ \A j \in 1..(i - 1) : ~Shown(x[j])
      <4>1. Began' /\ seen'.upto = f.n BY <1>8, <1>9, <3>3 DEF Shown
      <4>2. ASSUME NEW j \in 1..(i - 1), Shown(x[j]) PROVE FALSE
        <5>1. j \in DOMAIN x /\ j + 1 \in DOMAIN w /\ x[j] = w[j + 1] /\ 1 < j + 1 /\ j + 1 < i + 1
          BY <1>2, <3>0
        <5>2. w[1].n < w[j + 1].n /\ w[j + 1].n < w[i + 1].n
          BY <1>4, <1>8, <2>1, <3>0, <3>3, <4>2, <5>1 DEF InOrderFrom, Shown
        <5>3. w[1].n \in Nat /\ w[j + 1].n \in Nat BY SMTT(60), <1>2, <1>5, <5>1
        <5> QED BY <3>3, <5>2, <5>3
      <4> QED BY <1>8, <3>0, <3>3, <4>1, <4>2
    <3>4. ASSUME Began, w[i + 1].n = seen.upto + 1, \A j \in 1..i : ~Shown(w[j])
          PROVE  Began' /\ x[i].n = seen'.upto + 1 /\ \A j \in 1..(i - 1) : ~Shown(x[j])
      <4>1. ~Shown(f) BY <1>8, <3>0, <3>4
      <4>2. \A j \in 1..(i - 1) : j + 1 \in 1..i /\ j \in DOMAIN x BY <1>2, <3>0
      <4>3. \A j \in 1..(i - 1) : ~Shown(x[j]) BY <1>7, <3>4, <4>2
      <4> QED BY <3>0, <3>4, <4>1, <4>3
    <3> QED BY <3>1, <3>2, <3>3, <3>4
  <2>2. ASSUME NEW i \in DOMAIN x, NEW j \in DOMAIN x, i < j, Shown(x[i]), Shown(x[j])
        PROVE  x[i].n < x[j].n
    <3>1. i + 1 \in DOMAIN w /\ j + 1 \in DOMAIN w /\ x[i] = w[i + 1] /\ x[j] = w[j + 1] /\ i + 1 < j + 1
      BY <1>7, <2>2
    <3> QED BY <1>4, <2>2, <3>1 DEF InOrderFrom
  <2> QED BY ZenonT(60), <1>3, <2>1, <2>2 DEF InOrderFrom
<1>12. WireWhole(peer.wire)'
  <2>1. ~peer.served => ~Began' /\ \A i \in DOMAIN x : x[i].t \notin StreamEvents
    <3>1. ~peer.served => f.t # "Screen" BY <1>4, <1>8 DEF WireWhole, StreamEvents
    <3> QED BY <1>4, <1>7, <3>1 DEF WireWhole
  <2>2. \A i \in DOMAIN x : Shown(x[i]) => x[i].n <= session.out BY <1>4, <1>7 DEF WireWhole
  <2>3. ASSUME peer.open, peer.served
        PROVE  \/ \E i \in DOMAIN x : Shown(x[i]) /\ x[i].n = session.out
               \/ Began' /\ seen'.upto = session.out /\ \A i \in DOMAIN x : ~Shown(x[i])
    <3>1. \/ \E i \in DOMAIN w : Shown(w[i]) /\ w[i].n = session.out
          \/ Began /\ seen.upto = session.out /\ \A i \in DOMAIN w : ~Shown(w[i])
      BY <1>4, <2>3 DEF WireWhole
    <3>2. ASSUME NEW i \in DOMAIN w, Shown(w[i]), w[i].n = session.out, i # 1
          PROVE  \E k \in DOMAIN x : Shown(x[k]) /\ x[k].n = session.out BY <1>6, <3>2
    <3>3. ASSUME Shown(w[1]), w[1].n = session.out
          PROVE  Began' /\ seen'.upto = session.out /\ \A i \in DOMAIN x : ~Shown(x[i])
      <4>1. Began' /\ seen'.upto = session.out BY <1>8, <1>9, <3>3 DEF Shown
      <4>2. ASSUME NEW i \in DOMAIN x, Shown(x[i]) PROVE FALSE
        <5>1. i + 1 \in DOMAIN w /\ x[i] = w[i + 1] /\ 1 < i + 1 BY <1>7
        <5>2. w[1].n < w[i + 1].n /\ w[i + 1].n <= session.out
          BY <1>4, <1>8, <3>3, <4>2, <5>1 DEF InOrderFrom, WireWhole
        <5>3. w[i + 1].n \in Nat BY <1>2, <1>5, <5>1
        <5> QED BY <1>1, <3>3, <5>2, <5>3
      <4> QED BY <4>1, <4>2
    <3>4. ASSUME Began, seen.upto = session.out, \A i \in DOMAIN w : ~Shown(w[i])
          PROVE  Began' /\ seen'.upto = session.out /\ \A i \in DOMAIN x : ~Shown(x[i])
      <4>1. ~Shown(f) BY <1>8, <3>4
      <4> QED BY <1>7, <3>4, <4>1
    <3> QED BY <3>1, <3>2, <3>3, <3>4
  <2> QED BY <1>3, <2>1, <2>2, <2>3 DEF WireWhole
<1>13. WireEnds(peer.wire)'
  <2>1. a.reader # "half"
    <3>1. w # <<>> BY DEF w
    <3> QED BY <1>4, <3>1 DEF WireEnds
  <2>2. \A i \in DOMAIN x : x[i].t = "Half" => i = Len(x) /\ ~peer.open BY <1>2, <1>4, <1>7 DEF WireEnds
  <2>3. \A i \in DOMAIN x : x[i].t = "Malformed" => peer.bad BY <1>4, <1>7 DEF WireEnds
  <2> QED BY <1>3, <2>1, <2>2, <2>3 DEF WireEnds
<1> QED BY <1>10, <1>11, <1>12, <1>13 DEF WireInv
----------------------------------------------------------------------------
(* The last frame read ends the loop. *)
LEMMA LeavesSeen ==
  ASSUME AttachInv, a' \in AttachRecord, a'.sock = 0, peer' \in PeerRecord, peer'.id = peer.id,
         a'.dropped => peer'.bad, UNCHANGED <<session, user>>,
         seen' \in SeenRecord, seen'.conn <= peer.id, ~seen'.torn, ~seen'.early
  PROVE  AttachInv'
BY DEF AttachInv, AttachTypes, LineInv

LEMMA TailFacts ==
  ASSUME AttachInv, peer.wire # <<>>, NEW f, f = Head(peer.wire),
         peer' = [peer EXCEPT !.wire = Tail(@)]
  PROVE  /\ peer' \in PeerRecord /\ peer'.id = peer.id /\ peer'.wire = Tail(peer.wire)
         /\ (peer'.bad <=> peer.bad) /\ (peer'.open <=> peer.open) /\ f \in FrameRecord
         /\ f = peer.wire[1] /\ 1 \in DOMAIN peer.wire
<1> DEFINE w == peer.wire
<1>1. peer \in PeerRecord /\ w \in Seq(FrameRecord) /\ w # <<>> /\ f = Head(w)
  BY DEF AttachInv, AttachTypes, PeerRecord
<1>2. peer' = [peer EXCEPT !.wire = Tail(w)] OBVIOUS
<1>3. w = peer.wire OBVIOUS
<1> HIDE DEF w
<1>4. Tail(w) \in Seq(FrameRecord) /\ f \in FrameRecord /\ f = w[1] /\ 1 \in DOMAIN w BY <1>1
<1>5. peer' \in PeerRecord /\ peer'.id = peer.id /\ peer'.wire = Tail(w)
      /\ (peer'.bad <=> peer.bad) /\ (peer'.open <=> peer.open) BY <1>1, <1>2, <1>4 DEF PeerRecord
<1> QED BY <1>3, <1>4, <1>5

(* Half a frame. *)
LEMMA HalfKeeps ==
  ASSUME AttachInv, a.sock # 0, peer.wire # <<>>, Head(peer.wire).t = "Half",
         peer' = [peer EXCEPT !.wire = Tail(@)], a' = [a EXCEPT !.reader = "half"],
         UNCHANGED <<seen, session, user>>
  PROVE  AttachInv'
<1> DEFINE w == peer.wire
           x == Tail(w)
<1>0. AttachTypes /\ LineInv /\ MachineInv /\ WireInv(w) /\ w \in Seq(FrameRecord)
  BY DEF AttachInv, AttachTypes, PeerRecord
<1>1. /\ peer' \in PeerRecord /\ peer'.id = peer.id /\ peer'.wire = x
      /\ (peer'.bad <=> peer.bad) /\ (peer'.open <=> peer.open)
      /\ w[1].t = "Half" /\ 1 \in DOMAIN w BY TailFacts
<1>2. (peer'.served <=> peer.served) /\ peer \in PeerRecord BY <1>0 DEF AttachTypes, PeerRecord
<1>3. a' \in AttachRecord /\ a'.sock = a.sock /\ a'.machine = a.machine /\ (a'.dropped <=> a.dropped)
  BY <1>0 DEF AttachTypes, AttachRecord
<1> HIDE DEF w
<1>4. Len(w) = 1 /\ ~peer.open BY <1>0, <1>1 DEF WireInv, WireEnds
<1>5. x = <<>>
  <2>1. x \in Seq(FrameRecord) /\ Len(x) = 0
    <3>1. w # <<>> /\ Len(w) = 1 /\ w \in Seq(FrameRecord) BY <1>0, <1>4
    <3> QED BY <3>1
  <2> HIDE DEF x
  <2> QED BY <2>1
<1>6. DOMAIN x = {} BY <1>5
<1> HIDE DEF x
<1>7. (Began' <=> Began) /\ (Placed' <=> Placed) BY <1>3 DEF Began, Placed
<1>8. ~peer.served => ~Began BY <1>0 DEF WireInv, WireWhole
<1>9. ScreenFirst(peer.wire)' /\ InOrderFrom(peer.wire)' BY <1>1, <1>6 DEF ScreenFirst, InOrderFrom
<1>10. WireWhole(peer.wire)' BY <1>1, <1>2, <1>4, <1>6, <1>7, <1>8 DEF WireWhole
<1>11. WireEnds(peer.wire)' BY <1>1, <1>4, <1>5, <1>6 DEF WireEnds
<1>12. (AttachTypes /\ LineInv /\ MachineInv)'
  BY <1>0, <1>1, <1>3, <1>7 DEF AttachTypes, LineInv, MachineInv
<1> QED BY <1>9, <1>10, <1>11, <1>12 DEF AttachInv, WireInv

(* A frame that is passed on. *)
LEMMA ForwardKeeps ==
  ASSUME AttachInv, a.sock # 0, peer.wire # <<>>, NEW f, f = Head(peer.wire),
         f.t \in StreamEvents, Shows(f), a.machine # "off" => Accepts(a.machine, f.t) = "forwarded",
         peer' = [peer EXCEPT !.wire = Tail(@)], UNCHANGED <<session, user>>,
         a' = [a EXCEPT !.machine = MachineAfter(@, f.t)]
  PROVE  AttachInv'
<1>0. AttachTypes /\ LineInv /\ MachineInv /\ WireInv(peer.wire) BY DEF AttachInv
<1>1. /\ seen' \in SeenRecord /\ seen'.conn = a.sock /\ ~seen'.torn /\ ~seen'.early
      /\ (seen'.screen <=> Began \/ f.t = "Screen")
      /\ (seen'.geom <=> Placed \/ f.t = "Geometry")
      /\ seen'.upto = IF Shown(f) THEN f.n ELSE seen.upto BY ShowsFacts
<1>2. peer' \in PeerRecord /\ peer'.id = peer.id /\ (peer'.bad <=> peer.bad) BY TailFacts
<1>3. a \in AttachRecord /\ a.machine \in Machines BY <1>0 DEF AttachTypes, AttachRecord
<1>4. MachineAfter(a.machine, f.t) \in Machines BY <1>3 DEF MachineAfter, Machines
<1>5. a' \in AttachRecord /\ a'.sock = a.sock /\ a'.reader = a.reader /\ (a'.dropped <=> a.dropped)
      /\ a'.machine = MachineAfter(a.machine, f.t) BY <1>3, <1>4 DEF AttachRecord
<1>6. Began' <=> Began \/ f.t = "Screen" BY <1>1, <1>5 DEF Began
<1>7. Placed' <=> Placed \/ f.t = "Geometry" BY <1>1, <1>5 DEF Placed
<1>8. f.t # "Half" BY DEF StreamEvents
<1>9. WireInv(peer.wire)' BY <1>1, <1>5, <1>6, <1>8, TailKeeps
<1>10. MachineInv' BY <1>0, <1>3, <1>5, <1>6, <1>7 DEF MachineInv, MachineAfter, Machines
<1>11. AttachTypes' BY <1>0, <1>1, <1>2, <1>5 DEF AttachTypes
<1>12. LineInv'
  <2>1. a.sock = peer.id /\ peer.id \in Nat /\ (a.dropped => peer.bad)
    BY <1>0 DEF AttachTypes, LineInv, PeerRecord
  <2> QED BY <1>1, <1>2, <1>5, <2>1 DEF LineInv
<1> QED BY <1>9, <1>10, <1>11, <1>12 DEF AttachInv

(* A frame the machine stream does not know. *)
LEMMA SkipKeeps ==
  ASSUME AttachInv, a.sock # 0, peer.wire # <<>>, NEW f, f = Head(peer.wire),
         f.t \notin StreamEvents, f.t # "Half",
         peer' = [peer EXCEPT !.wire = Tail(@)], UNCHANGED <<a, seen, session, user>>
  PROVE  AttachInv'
<1>0. AttachTypes /\ LineInv /\ MachineInv BY DEF AttachInv
<1>1. peer' \in PeerRecord /\ peer'.id = peer.id /\ (peer'.bad <=> peer.bad) BY TailFacts
<1>2. f.t # "Screen" /\ ~Shown(f) BY DEF StreamEvents, Shown
<1>3. (Began' <=> Began) /\ (Placed' <=> Placed) BY DEF Began, Placed
<1>4. WireInv(peer.wire)' BY <1>2, <1>3, TailKeeps
<1> QED BY <1>0, <1>1, <1>3, <1>4 DEF AttachInv, AttachTypes, LineInv, MachineInv

LEMMA ReadKeeps == ASSUME AttachInv, SocketReadable PROVE AttachInv'
<1>0. AttachTypes /\ LineInv /\ a \in AttachRecord /\ peer \in PeerRecord /\ a.sock # 0
      /\ a.sock = peer.id /\ UNCHANGED <<session, user>> /\ WireInv(peer.wire)
  BY DEF AttachInv, AttachTypes, SocketReadable, Connected
<1>r. {"1", "code"} \subseteq EndResults /\ {"ConnectionLost", "Exited"} \subseteq Trailers
  BY DEF EndResults, Trailers
<1>1. CASE peer.wire = <<>>
  <2>1. PICK err \in BOOLEAN : a' = Disconnected(a, err) /\ UNCHANGED <<peer, seen>>
    BY <1>1 DEF SocketReadable
  <2>2. a' \in AttachRecord /\ a'.sock = 0 /\ (a'.dropped <=> a.dropped) BY <1>0, <2>1, DisconnectFacts
  <2>3. a.dropped => peer.bad BY <1>0 DEF LineInv
  <2> QED BY <1>0, <2>1, <2>2, <2>3, Departs
<1>2. CASE peer.wire # <<>>
  <2> DEFINE f == Head(peer.wire)
  <2>0. peer' = [peer EXCEPT !.wire = Tail(@)] BY <1>2 DEF SocketReadable
  <2>t. /\ peer' \in PeerRecord /\ peer'.id = peer.id /\ (peer'.bad <=> peer.bad) /\ f \in FrameRecord
        /\ f = peer.wire[1] /\ 1 \in DOMAIN peer.wire BY <1>2, <2>0, TailFacts
  <2>e. a.reader # "half" BY <1>0, <1>2 DEF WireInv, WireEnds
  <2>d. a.dropped => peer.bad BY <1>0 DEF LineInv
  <2>1. CASE f.t = "Half"
    <3>1. a' = [a EXCEPT !.reader = "half"] /\ UNCHANGED seen BY <1>2, <2>1 DEF SocketReadable
    <3> QED BY <1>0, <1>2, <2>0, <2>1, <3>1, HalfKeeps
  <2>2. CASE f.t = "Malformed"
    <3> DEFINE s == [a EXCEPT !.dropped = TRUE]
    <3>1. a' = Disconnected(s, FALSE) /\ UNCHANGED seen BY <1>2, <2>2 DEF SocketReadable
    <3>2. s \in AttachRecord BY <1>0 DEF AttachRecord
    <3> HIDE DEF s
    <3>3. a' \in AttachRecord /\ a'.sock = 0 BY <3>1, <3>2, DisconnectFacts
    <3>4. peer.bad BY <1>0, <2>2, <2>t DEF WireInv, WireEnds
    <3> QED BY <1>0, <2>t, <3>1, <3>3, <3>4, Departs
  <2>3. CASE f.t \notin {"Half", "Malformed"}
    <3>1. PICK writable \in {TRUE, a.machine = "off"} : HandlePacket(f, writable)
      BY <1>2, <2>3, <2>e DEF SocketReadable
    <3> HIDE DEF f
    <3>2. ASSUME a' = Finish(a, "1") \/ a' = Finish(Trailer(a, "ConnectionLost"), "1"), UNCHANGED seen
          PROVE  AttachInv'
      <4>1. a' \in AttachRecord /\ a'.sock = 0 /\ (a'.dropped <=> a.dropped)
        <5>1. CASE a' = Finish(a, "1") BY <1>0, <1>r, <5>1, FinishFacts
        <5>2. CASE a' = Finish(Trailer(a, "ConnectionLost"), "1") BY <1>0, <1>r, <5>2, TrailerFinish
        <5> QED BY <3>2, <5>1, <5>2
      <4>2. a'.dropped => peer'.bad BY <2>t, <2>d, <4>1
      <4> QED BY <1>0, <2>t, <3>2, <4>1, <4>2, Departs
    <3>3. CASE f.t = "ConnectionError" BY <3>1, <3>2, <3>3 DEF HandlePacket
    <3>4. CASE f.t \in StreamEvents /\ (a.machine # "off" => Accepts(a.machine, f.t) = "forwarded")
      <4>0. f.t # "ConnectionError" /\ f = Head(peer.wire) BY <3>4 DEF StreamEvents, f
      <4>1. CASE a' = Finish(a, "1") /\ UNCHANGED seen BY <3>2, <4>1
      <4>2. CASE Shows(f)
        <5>1. /\ seen' \in SeenRecord /\ seen'.conn = a.sock /\ ~seen'.torn /\ ~seen'.early
          BY <1>0, <1>2, <3>4, <4>0, <4>2, ShowsFacts
        <5>2. CASE f.t = "Exit"
          <6> DEFINE s == [a EXCEPT !.exited = TRUE]
          <6>1. a' = Finish(s, "code") \/ a' = Finish(Trailer(s, "Exited"), "code")
                \/ (a' = Finish(a, "1") /\ UNCHANGED seen) BY <3>1, <3>4, <4>0, <5>2 DEF HandlePacket
          <6>2. s \in AttachRecord /\ (s.dropped <=> a.dropped) BY <1>0 DEF AttachRecord
          <6> HIDE DEF s
          <6>3. a' \in AttachRecord /\ a'.sock = 0 /\ (a'.dropped <=> a.dropped)
            <7>1. "1" \in EndResults /\ "code" \in EndResults /\ "Exited" \in Trailers BY <1>r
            <7>2. CASE a' = Finish(s, "code") BY <6>2, <7>1, <7>2, FinishFacts
            <7>3. CASE a' = Finish(Trailer(s, "Exited"), "code") BY <6>2, <7>1, <7>3, TrailerFinish
            <7>4. CASE a' = Finish(a, "1") BY <1>0, <7>1, <7>4, FinishFacts
            <7> QED BY <6>1, <7>2, <7>3, <7>4
          <6>4. seen'.conn <= peer.id BY <1>0, <5>1 DEF PeerRecord
          <6> QED BY <1>0, <2>t, <2>d, <5>1, <6>3, <6>4, LeavesSeen
        <5>3. CASE f.t # "Exit" /\ ~(a' = Finish(a, "1") /\ UNCHANGED seen)
          <6>1. a' = [a EXCEPT !.machine = MachineAfter(@, f.t)]
            <7>1. CASE a.machine # "off" BY <3>1, <3>4, <4>0, <5>3, <7>1 DEF HandlePacket
            <7>2. CASE a.machine = "off"
              <8>1. a' = a BY <3>1, <3>4, <4>0, <5>3, <7>2 DEF HandlePacket
              <8>2. MachineAfter(a.machine, f.t) = a.machine BY <7>2 DEF MachineAfter
              <8>3. a = [a EXCEPT !.machine = a.machine] BY <1>0 DEF AttachRecord
              <8> QED BY <8>1, <8>2, <8>3
            <7> QED BY <7>1, <7>2
          <6> QED BY <1>0, <1>2, <2>0, <3>4, <4>0, <4>2, <6>1, ForwardKeeps
        <5> QED BY <4>1, <5>2, <5>3
      <4> QED BY <3>1, <3>4, <4>0, <4>1, <4>2 DEF HandlePacket
    <3>5. CASE f.t \notin StreamEvents /\ f.t # "ConnectionError"
      <4>1. a.machine # "off" BY <2>3, <2>t, <3>5 DEF StreamEvents, FrameRecord, FrameTypes
      <4>2. Accepts(a.machine, f.t) = "skipped" BY <3>5 DEF Accepts
      <4>3. UNCHANGED <<a, seen>> BY <3>1, <3>5, <4>1, <4>2 DEF HandlePacket
      <4> QED BY <1>0, <1>2, <2>0, <2>3, <3>5, <4>3, SkipKeeps DEF f
    <3>6. CASE a.machine # "off" /\ f.t \in StreamEvents /\ Accepts(a.machine, f.t) # "forwarded"
      <4>1. Accepts(a.machine, f.t) = "unsupported" /\ f.t # "ConnectionError"
        BY <3>6 DEF Accepts, StreamEvents
      <4>2. a' = Finish(a, "1") /\ UNCHANGED seen BY <3>1, <3>6, <4>1 DEF HandlePacket
      <4> QED BY <3>2, <4>2
    <3> QED BY <3>3, <3>4, <3>5, <3>6
  <2> QED BY <2>1, <2>2, <2>3
<1> QED BY <1>1, <1>2

(* A new connection has an empty wire, and nothing of it was shown yet. *)
LEMMA ReadyKeeps ==
  ASSUME AttachInv, OnReady(Fresh(a), peer.id + 1),
         UNCHANGED <<seen, session, user>>
  PROVE  AttachInv'
<1>0. AttachTypes /\ LineInv /\ a \in AttachRecord /\ peer.id \in Nat /\ peer.id # 0 /\ seen.conn \in Nat
      /\ user.win \in Nat /\ seen.conn <= peer.id
  BY DEF AttachInv, AttachTypes, PeerRecord, SeenRecord, LineInv
<1> DEFINE s == Fresh(a)
           m == IF a.machine = "off" THEN a.machine ELSE "geometry"
<1>1. m \in {"off", "geometry"} /\ m \in Machines BY DEF Machines
<1>2. s = [a EXCEPT !.reader = "empty", !.dropped = FALSE, !.phase = "Live", !.machine = m] BY DEF Fresh
<1> HIDE DEF m
<1>3. s \in AttachRecord /\ s.machine = m /\ ~s.dropped /\ s.reader = "empty"
  BY ZenonT(60), <1>0, <1>1, <1>2 DEF AttachRecord
<1>4. a' = [s EXCEPT !.raw = a.tty, !.sock = peer.id + 1] BY DEF OnReady
<1>5. PICK v1 \in BOOLEAN :
        peer' = [id |-> peer.id + 1, open |-> TRUE, wire |-> <<>>, served |-> FALSE, size |-> user.win,
                 v1 |-> v1, bad |-> FALSE, detached |-> FALSE] BY DEF OnReady
<1> HIDE DEF s
<1>6. a' \in AttachRecord /\ a'.sock = peer.id + 1 /\ a'.machine = m /\ ~a'.dropped /\ a'.reader = "empty"
  <2> DEFINE t == a.tty
             n == peer.id + 1
  <2>1. t \in BOOLEAN /\ n \in Nat BY <1>0 DEF AttachRecord
  <2>2. a' = [s EXCEPT !.raw = t, !.sock = n] BY <1>4
  <2>3. n = peer.id + 1 OBVIOUS
  <2> HIDE DEF t, n
  <2>4. a' \in AttachRecord /\ a'.sock = n /\ a'.machine = s.machine /\ (a'.dropped <=> s.dropped)
        /\ a'.reader = s.reader BY <1>3, <2>1, <2>2 DEF AttachRecord
  <2> QED BY <1>3, <2>3, <2>4
<1>7. peer' \in PeerRecord /\ peer'.id = peer.id + 1 /\ peer'.wire = <<>> /\ ~peer'.served
  <2>1. <<>> \in Seq(FrameRecord) /\ peer.id + 1 \in Nat \ {0} BY <1>0
  <2> QED BY <1>0, <1>5, <2>1 DEF PeerRecord
<1>8. ~Began' /\ seen'.conn <= peer'.id BY <1>0, <1>6, <1>7 DEF Began
<1>9. DOMAIN (peer'.wire) = {} BY <1>7
<1>10. WireInv(peer.wire)'
  BY <1>6, <1>7, <1>8, <1>9 DEF WireInv, ScreenFirst, InOrderFrom, WireWhole, WireEnds
<1>11. AttachTypes' BY <1>0, <1>6, <1>7 DEF AttachTypes
<1>12. LineInv' BY <1>0, <1>6, <1>7, <1>8 DEF LineInv
<1> QED BY <1>1, <1>6, <1>10, <1>11, <1>12 DEF AttachInv, MachineInv

LEMMA RetryKeeps == ASSUME AttachInv, TryReconnect PROVE AttachInv'
<1>0. AttachTypes /\ LineInv /\ a \in AttachRecord /\ peer \in PeerRecord
      /\ UNCHANGED <<seen, session, user>> BY DEF AttachInv, AttachTypes, TryReconnect
<1>1. ASSUME a' = GiveUp(a), UNCHANGED peer PROVE AttachInv'
  <2> DEFINE s == [a EXCEPT !.phase = "Live"]
  <2>1. s \in AttachRecord /\ (s.dropped <=> a.dropped) BY <1>0 DEF AttachRecord
  <2>2. a' = Finish(Trailer(s, "ConnectionLost"), "1") BY <1>1 DEF GiveUp
  <2>3. "ConnectionLost" \in Trailers /\ "1" \in EndResults BY DEF Trailers, EndResults
  <2> HIDE DEF s
  <2>4. a' \in AttachRecord /\ a'.sock = 0 /\ (a'.dropped <=> a.dropped)
    BY <2>1, <2>2, <2>3, TrailerFinish
  <2> QED BY <1>0, <1>1, <2>4, Departs DEF LineInv
<1>2. ASSUME OnReady(Fresh(a), peer.id + 1) PROVE AttachInv' BY <1>0, <1>2, ReadyKeeps
<1>3. ASSUME a' = [a EXCEPT !.attempt = IF @ < BackoffSteps THEN @ + 1 ELSE @], UNCHANGED peer
      PROVE  AttachInv'
  <2> DEFINE n == IF a.attempt < BackoffSteps THEN a.attempt + 1 ELSE a.attempt
  <2>1. n \in Nat BY <1>0 DEF AttachRecord, BackoffSteps
  <2>2. a' = [a EXCEPT !.attempt = n] BY <1>3
  <2> HIDE DEF n
  <2>3. a' \in AttachRecord /\ a'.sock = a.sock /\ a'.reader = a.reader /\ a'.machine = a.machine
        /\ (a'.dropped <=> a.dropped) BY <1>0, <2>1, <2>2 DEF AttachRecord
  <2>4. AttachTypes' BY <1>0, <1>3, <2>3 DEF AttachTypes
  <2> QED BY <1>0, <1>3, <2>3, <2>4, Stays
<1> QED BY <1>1, <1>2, <1>3 DEF TryReconnect

LEMMA KeyKeeps == ASSUME AttachInv, NEW k \in {"detach", "ctrl-c"}, Key(k) PROVE AttachInv'
<1>0. AttachTypes /\ a \in AttachRecord /\ user \in [win : Nat, winch : BOOLEAN, keys : Nat, stop : BOOLEAN]
      /\ UNCHANGED <<seen, session, peer>> BY DEF AttachInv, AttachTypes, Key
<1>1. user' \in [win : Nat, winch : BOOLEAN, keys : Nat, stop : BOOLEAN]
  <2> DEFINE b == user.stop \/ (k = "ctrl-c" /\ a.phase = "Reconnecting")
             n == user.keys + 1
  <2>1. b \in BOOLEAN /\ n \in Nat BY <1>0
  <2>2. user' = [user EXCEPT !.keys = n, !.stop = b] BY DEF Key
  <2> HIDE DEF b, n
  <2> QED BY <1>0, <2>1, <2>2
<1>2. /\ a' \in AttachRecord /\ a'.sock = a.sock /\ a'.reader = a.reader /\ a'.machine = a.machine
      /\ (a'.dropped <=> a.dropped)
  <2>1. CASE a' = [a EXCEPT !.result = "signal"] BY <1>0, <2>1 DEF AttachRecord, EndResults
  <2>2. CASE a' = [a EXCEPT !.armed = ~@]
    <3> DEFINE b == ~a.armed
    <3>1. b \in BOOLEAN /\ a' = [a EXCEPT !.armed = b] BY <2>2
    <3> HIDE DEF b
    <3> QED BY <1>0, <3>1 DEF AttachRecord
  <2>3. CASE a' = a BY <1>0, <2>3
  <2> QED BY <2>1, <2>2, <2>3 DEF Key
<1>3. AttachTypes' BY <1>0, <1>1, <1>2 DEF AttachTypes
<1>4. /\ peer'.id = peer.id /\ (peer'.open <=> peer.open) /\ (peer'.served <=> peer.served)
      /\ (peer'.bad <=> peer.bad) /\ peer'.wire = peer.wire BY <1>0
<1> QED BY <1>0, <1>2, <1>3, <1>4, Stays

LEMMA DetachKeeps == ASSUME AttachInv, Detach PROVE AttachInv'
<1>0. AttachTypes /\ LineInv /\ a \in AttachRecord /\ peer \in PeerRecord /\ seen \in SeenRecord
      /\ UNCHANGED <<session, user>> BY DEF AttachInv, AttachTypes, Detach
<1>1. PICK writable : FinishDetach(writable) BY DEF Detach
<1>2. "detached" \in EndResults /\ "1" \in EndResults /\ "Detached" \in Trailers
  BY DEF EndResults, Trailers
<1>3. a' \in AttachRecord /\ a'.sock = 0 /\ (a'.dropped <=> a.dropped)
  <2>1. CASE a' = Finish(a, "1") BY <1>0, <1>2, <2>1, FinishFacts
  <2>2. CASE a' = Finish(a, "detached") BY <1>0, <1>2, <2>2, FinishFacts
  <2>3. CASE a' = Finish(Trailer(a, "Detached"), "detached") BY <1>0, <1>2, <2>3, TrailerFinish
  <2> QED BY <1>1, <2>1, <2>2, <2>3 DEF FinishDetach
<1>4. peer' \in PeerRecord /\ peer'.id = peer.id /\ (peer'.bad <=> peer.bad)
  <2>1. peer' = [peer EXCEPT !.detached = TRUE] \/ peer' = peer BY <1>1 DEF FinishDetach
  <2> QED BY <1>0, <2>1 DEF PeerRecord
<1>5. seen' \in SeenRecord /\ seen'.conn <= peer.id /\ ~seen'.torn /\ ~seen'.early
  <2>1. seen' = [seen EXCEPT !.ended = TRUE] \/ seen' = seen BY <1>1 DEF FinishDetach
  <2>2. seen' \in SeenRecord /\ seen'.conn = seen.conn /\ (seen'.torn <=> seen.torn)
        /\ (seen'.early <=> seen.early) BY <1>0, <2>1 DEF SeenRecord
  <2> QED BY <1>0, <2>2 DEF LineInv
<1> QED BY <1>0, <1>3, <1>4, <1>5, LeavesSeen DEF LineInv

LEMMA StdinKeeps == ASSUME AttachInv, StdinEnds PROVE AttachInv'
<1>0. AttachTypes /\ LineInv /\ a \in AttachRecord /\ UNCHANGED <<seen, peer, session, user>>
      /\ peer \in PeerRecord BY DEF AttachInv, AttachTypes, StdinEnds
<1> DEFINE c == [a EXCEPT !.stdin = FALSE]
<1>1. /\ c \in AttachRecord /\ c.sock = a.sock /\ c.reader = a.reader /\ c.machine = a.machine
      /\ (c.dropped <=> a.dropped) BY <1>0 DEF AttachRecord
<1>2. a' = Finish(c, "0") \/ a' = c BY DEF StdinEnds
<1> HIDE DEF c
<1>3. CASE a' = Finish(c, "0")
  <2>1. a' \in AttachRecord /\ a'.sock = 0 /\ (a'.dropped <=> a.dropped)
    <3>1. "0" \in EndResults BY DEF EndResults
    <3> QED BY <1>1, <1>3, <3>1, FinishFacts
  <2> QED BY <1>0, <2>1, Departs DEF LineInv
<1>4. CASE a' = c
  <2>1. AttachTypes' BY <1>0, <1>1, <1>4 DEF AttachTypes
  <2> QED BY <1>0, <1>1, <1>4, <2>1, Stays
<1> QED BY <1>2, <1>3, <1>4

LEMMA WindowKeeps == ASSUME AttachInv, WindowChanges \/ Sigwinch PROVE AttachInv'
<1>0. AttachTypes /\ peer \in PeerRecord /\ user \in [win : Nat, winch : BOOLEAN, keys : Nat, stop : BOOLEAN]
      /\ UNCHANGED <<a, seen, session>> BY DEF AttachInv, AttachTypes, WindowChanges, Sigwinch
<1>1. user' \in [win : Nat, winch : BOOLEAN, keys : Nat, stop : BOOLEAN]
  <2>1. user' = [user EXCEPT !.win = 2, !.winch = TRUE] \/ user' = [user EXCEPT !.winch = FALSE]
    BY DEF WindowChanges, Sigwinch
  <2>2. CASE user' = [user EXCEPT !.win = 2, !.winch = TRUE] BY <1>0, <2>2
  <2>3. CASE user' = [user EXCEPT !.winch = FALSE] BY <1>0, <2>3
  <2> QED BY <2>1, <2>2, <2>3
<1>2. peer' \in PeerRecord /\ peer'.id = peer.id /\ (peer'.open <=> peer.open)
      /\ (peer'.served <=> peer.served) /\ (peer'.bad <=> peer.bad) /\ peer'.wire = peer.wire
  <2>1. peer' = [peer EXCEPT !.size = user.win] \/ peer' = peer BY DEF WindowChanges, Sigwinch
  <2>2. user.win \in Nat BY <1>0
  <2> QED BY <1>0, <2>1, <2>2 DEF PeerRecord
<1>3. AttachTypes' BY <1>0, <1>1, <1>2 DEF AttachTypes
<1> QED BY <1>0, <1>2, <1>3, Stays

LEMMA AttachStep == ASSUME AttachInv, AttachNext PROVE AttachInv'
<1>1. CASE PeerServes BY <1>1, ServesKeeps
<1>2. CASE PeerSpeaks BY <1>2, SpeaksKeeps
<1>3. CASE PeerExits BY <1>3, ExitsKeeps
<1>4. CASE PeerFails BY <1>4, FailsKeeps
<1>5. CASE SocketReadable BY <1>5, ReadKeeps
<1>6. CASE TryReconnect BY <1>6, RetryKeeps
<1>7. CASE \E k \in {"detach", "ctrl-c"} : Key(k) BY <1>7, KeyKeeps
<1>8. CASE Detach BY <1>8, DetachKeeps
<1>9. CASE StdinEnds BY <1>9, StdinKeeps
<1>10. CASE WindowChanges \/ Sigwinch BY <1>10, WindowKeeps
<1>11. CASE Ended
  <2>1. UNCHANGED <<a, seen, peer, session, user>> BY <1>11 DEF Ended, avars
  <2>2. AttachTypes' BY <2>1 DEF AttachInv, AttachTypes
  <2> QED BY <2>1, <2>2, Stays
<1> QED BY <1>1, <1>2, <1>3, <1>4, <1>5, <1>6, <1>7, <1>8, <1>9, <1>10, <1>11 DEF AttachNext

LEMMA AttachStutters == ASSUME AttachInv, UNCHANGED avars PROVE AttachInv'
<1>1. UNCHANGED <<a, seen, peer, session, user>> BY DEF avars
<1>2. AttachTypes' BY <1>1 DEF AttachInv, AttachTypes
<1> QED BY <1>1, <1>2, Stays
LEMMA AttachShows == ASSUME AttachInv PROVE ViewIsWhole /\ MalformedOnlyFromPeer
BY DEF AttachInv, LineInv, ViewIsWhole, MalformedOnlyFromPeer

----------------------------------------------------------------------------
(* The terminal handle: the types, and the inductive invariant. *)

EventKinds == {"none", "on", "off", "read"}
HandleFrame ==
  [t : {"Data", "Exit"}, n : Nat, ev : EventKinds, req : Nat]
    \cup [t : {"Screen"}, n : Nat, ev : {"none", "on"}, req : Nat]
PastePackets == {"ReadOk", "ReadData", "ReadDone", "ReadError"}
PasteAnswer == [read : Nat, req : Nat, packet : PastePackets]
PlainKinds == {"Disconnected", "Publish", "CaptureFrame", "Close", "Reconnect", "Snapshot", "ObserveFrames"}
HandleMsg ==
  [m : {"Frame"}, n : Nat, x : HandleFrame] \cup [m : {"Paste"}, n : Nat, x : PasteAnswer]
    \cup [m : PlainKinds, n : Nat, x : {"none"}]
PasteRecord == [open : Nat, req : Nat, answer : BOOLEAN, data : Nat]
CoreRecord ==
  [backend : {"spawn", "attach"}, attempt : Nat, stream : BOOLEAN, screen : Nat \X Nat,
   mode : BOOLEAN, paste : PasteRecord, reads : Nat, pmode : BOOLEAN, dirty : BOOLEAN,
   pc : {"recv", "busy", "connecting", "closed"}]
Snapshots == Nat \X (Nat \X Nat)
StateRecord ==
  [rev : Nat, ready : BOOLEAN, connected : BOOLEAN, connecting : BOOLEAN, closed : BOOLEAN,
   exited : BOOLEAN, attempt : Nat, cache : Snapshots]
ReaderRecord == [live : BOOLEAN, wire : Seq(HandleFrame), open : BOOLEAN, served : BOOLEAN]
ProgRecord == [out : Nat, mode : BOOLEAN, reqs : Nat, got : Seq(Nat), wrong : BOOLEAN]
ApiRecord ==
  [snap : {"idle", "asked", "reply"}, reply : Snapshots, told : SUBSET (Nat \X Nat \X Nat),
   calls : Nat]
HandleTypes ==
  /\ pub \in [frame : Nat, observers : Nat]
  /\ chan \in Seq(HandleMsg)
  /\ rdr \in [Attempts -> ReaderRecord]
  /\ prog \in ProgRecord /\ api \in ApiRecord

(* What the actor keeps agrees with itself: an open read is of a stream in *)
(* paste mode, a ready handle shows its attempt's screen, a cached snapshot *)
(* of the current revision is the screen. *)
Fits(c, s) ==
  /\ c \in CoreRecord /\ s \in StateRecord
  /\ (c.pmode <=> c.mode) /\ (c.paste.open # 0 => c.mode)
  /\ (c.paste.open = 0 => c.paste.req = 0) /\ c.paste.open <= c.reads
  /\ s.attempt = c.attempt
  /\ (s.ready /\ ~s.exited /\ c.backend = "attach" => c.screen[1] = c.attempt)
  /\ s.rev > 0 /\ (s.cache[1] = s.rev => s.cache[2] = c.screen)

Replied == api.reply[1] <= st.rev /\ (api.reply[1] = st.rev => api.reply[2] = core.screen)
Observed ==
  /\ core.pc = "recv" => ~core.dirty
  /\ core.pc # "closed" /\ pub.observers > 0 =>
       pub.frame = st.rev \/ core.dirty \/ \E i \in DOMAIN chan : chan[i].m = "ObserveFrames"

(* Only the current attempt's stream is open, and a later one has no reader.*)
Owned ==
  /\ \A i \in DOMAIN chan : chan[i].m = "Frame" => chan[i].n <= core.attempt
  /\ \A n \in Attempts :
       /\ rdr[n].open => n = core.attempt
       /\ n > core.attempt => rdr[n].wire = <<>>
       /\ n > core.attempt /\ core.backend = "attach" => ~rdr[n].served

(* A frame of the current attempt, in the channel or still on the wire. *)
OfNow(m) == m.m = "Frame" /\ m.n = core.attempt
Unread(n) == n = core.attempt
(* The daemon's screen is the first frame of its attempt, and is drawn on a *)
(* terminal that has no read open. *)
Blank == ~core.mode /\ core.paste.open = 0
NoneWaits == \A j \in DOMAIN chan : ~OfNow(chan[j])
ScreenInv ==
  /\ \A i \in DOMAIN chan : OfNow(chan[i]) /\ chan[i].x.t = "Screen" =>
       Blank /\ \A j \in 1..(i - 1) : ~OfNow(chan[j])
  /\ \A n \in Attempts : Unread(n) =>
       /\ \A i \in DOMAIN rdr[n].wire : rdr[n].wire[i].t = "Screen" => i = 1 /\ Blank /\ NoneWaits
       /\ ~rdr[n].served => rdr[n].wire = <<>> /\ Blank /\ NoneWaits

(* The reads not seen yet come after those that were, in the order asked. *)
Asks(m) == OfNow(m) /\ m.x.ev = "read"
AheadOf(f, c, p) ==
  f.req <= p.reqs /\ c.paste.req < f.req /\ \A k \in DOMAIN p.got : p.got[k] < f.req
Ahead(f) == AheadOf(f, core, prog)
ChanOrder ==
  \A i \in DOMAIN chan : Asks(chan[i]) =>
    /\ Ahead(chan[i].x)
    /\ \A j \in DOMAIN chan : i < j /\ Asks(chan[j]) => chan[i].x.req < chan[j].x.req
WireOrder(w) ==
  \A i \in DOMAIN w : w[i].ev = "read" =>
    /\ Ahead(w[i])
    /\ \A j \in DOMAIN w : i < j /\ w[j].ev = "read" => w[i].req < w[j].req
    /\ \A j \in DOMAIN chan : Asks(chan[j]) => chan[j].x.req < w[i].req
OrderInv == ChanOrder /\ \A n \in Attempts : Unread(n) => WireOrder(rdr[n].wire)

(* Every caller's read is one that was opened, and the open one has the *)
(* request the caller was told. *)
Opened(read, req) == read \in 1..core.reads /\ (core.paste.open = read => core.paste.req = req)
ToldInv ==
  /\ \A r \in api.told : Opened(r[2], r[3])
  /\ \A i \in DOMAIN chan : chan[i].m = "Paste" => Opened(chan[i].x.read, chan[i].x.req)
AnswerInv ==
  /\ ~prog.wrong /\ core.paste.req <= prog.reqs
  /\ \A k \in DOMAIN prog.got : prog.got[k] <= prog.reqs
  /\ \A k \in DOMAIN prog.got : core.paste.open # 0 => prog.got[k] # core.paste.req
  /\ \A j, k \in DOMAIN prog.got : j # k => prog.got[j] # prog.got[k]

HandleInv ==
  /\ HandleTypes /\ Fits(core, st) /\ Replied /\ Observed /\ Owned /\ ScreenInv /\ OrderInv
  /\ ToldInv /\ AnswerInv
----------------------------------------------------------------------------
(* What the actor does with a message. *)

(* The screen, the revision and the frame to publish go together. *)
Advances(c, s, d, t) ==
  /\ d.backend = c.backend /\ d.attempt = c.attempt /\ (d.stream => c.stream)
  /\ \/ t.rev = s.rev /\ d.screen = c.screen /\ (c.dirty => d.dirty)
     \/ t.rev = s.rev + 1 /\ d.dirty
(* No read is opened, and the open one may end. *)
Keeps(c, d) ==
  /\ d.reads = c.reads
  /\ \/ d.paste.open = c.paste.open /\ d.paste.req = c.paste.req
     \/ d.paste.open = 0 /\ d.paste.req = 0
Lets(c, r) == Keeps(c, r.core) /\ r.in = <<>> /\ r.told = {}
Busies(c, r, req) ==
  /\ r.core.reads = c.reads /\ r.core.paste = c.paste /\ r.told = {}
  /\ r.in = <<<<req, "busy", req>>>>
OpensRead(c, r, req) ==
  /\ r.core.reads = c.reads + 1 /\ r.core.paste.open = c.reads + 1 /\ r.core.paste.req = req
  /\ r.in = <<>> /\ r.told = {<<c.attempt, c.reads + 1, req>>}
Says(c, r, m) ==
  /\ c.paste.open = m.x.read /\ r.core.reads = c.reads
  /\ r.core.paste.open = 0 /\ r.core.paste.req = 0 /\ r.told = {}
  /\ \E kind \in {"busy", "answer", "error"} : r.in = <<<<c.paste.req, kind, m.x.req>>>>

LEMMA NoPasteFacts ==
  NoPaste \in PasteRecord /\ NoPaste.open = 0 /\ NoPaste.req = 0
BY DEF NoPaste, PasteRecord

LEMMA PublishFacts ==
  ASSUME NEW c \in CoreRecord, NEW s \in StateRecord, NEW ev \in EventKinds, NEW req \in Nat,
         c.paste.open # 0 => c.mode,
         c.paste.open = 0 => c.paste.req = 0, c.paste.open <= c.reads, s.attempt = c.attempt,
         s.ready /\ ~s.exited /\ c.backend = "attach" => c.screen[1] = c.attempt,
         (ev = "on" /\ c.mode) \/ (ev = "off" /\ ~c.mode)
           \/ (ev \in {"none", "read"} /\ (c.pmode <=> c.mode)),
         NEW r, r = Publish(c, s, ev, req)
  PROVE  /\ Fits(r.core, r.st) /\ r.st.rev = s.rev + 1 /\ r.core.dirty
         /\ r.core.backend = c.backend /\ r.core.attempt = c.attempt /\ (r.core.stream <=> c.stream)
         /\ r.core.screen = c.screen /\ (r.core.mode <=> c.mode)
         /\ Lets(c, r) \/ (ev = "read" /\ c.mode /\ (Busies(c, r, req) \/ OpensRead(c, r, req)))
         /\ r.core.pc = c.pc /\ (r.st.ready <=> s.ready) /\ (r.st.exited <=> s.exited)
<1> DEFINE s1 == [s EXCEPT !.rev = @ + 1, !.cache = <<0, <<0, 0>>>>]
           d == [c EXCEPT !.dirty = TRUE]
           opened == [NoPaste EXCEPT !.open = c.reads + 1, !.req = req]
           open == [d EXCEPT !.reads = @ + 1, !.paste = opened]
<1>0. c.reads \in Nat /\ c.attempt \in Nat /\ s.rev \in Nat /\ c.paste.open \in Nat
  BY DEF CoreRecord, StateRecord, PasteRecord
<1>1. /\ s1 \in StateRecord /\ s1.rev = s.rev + 1 /\ s1.rev > 0 /\ s1.cache[1] = 0 /\ s1.attempt = s.attempt
      /\ (s1.ready <=> s.ready) /\ (s1.exited <=> s.exited)
  <2> DEFINE n == s.rev + 1
             e == <<0, <<0, 0>>>>
  <2>1. n \in Nat /\ n > 0 /\ e \in Snapshots /\ e[1] = 0 BY <1>0 DEF Snapshots
  <2>2. s1 = [s EXCEPT !.rev = n, !.cache = e] OBVIOUS
  <2> HIDE DEF n, e, s1
  <2>3. s1 \in StateRecord /\ s1.rev = n /\ s1.cache = e /\ s1.attempt = s.attempt
        /\ (s1.ready <=> s.ready) /\ (s1.exited <=> s.exited) BY <2>1, <2>2 DEF StateRecord
  <2> QED BY <2>1, <2>3 DEF n
<1>2. /\ d \in CoreRecord /\ d.dirty /\ d.backend = c.backend /\ d.attempt = c.attempt
      /\ (d.stream <=> c.stream) /\ d.screen = c.screen /\ (d.mode <=> c.mode)
      /\ (d.pmode <=> c.pmode) /\ d.paste = c.paste /\ d.reads = c.reads /\ d.pc = c.pc BY DEF CoreRecord
<1>3. opened \in PasteRecord /\ opened.open = c.reads + 1 /\ opened.req = req
  <2> DEFINE n == c.reads + 1
             e == NoPaste
  <2>1. n \in Nat /\ e \in PasteRecord /\ opened = [e EXCEPT !.open = n, !.req = req]
    BY <1>0, NoPasteFacts
  <2>2. n = c.reads + 1 OBVIOUS
  <2> HIDE DEF n, e, opened
  <2>3. opened \in PasteRecord /\ opened.open = n /\ opened.req = req BY <2>1 DEF PasteRecord
  <2> QED BY <2>2, <2>3
<1> HIDE DEF s1, d, opened
<1>4. ASSUME NEW e, NEW in, NEW told, r = Acts(e, s1, in, told)
      PROVE  r.core = e /\ r.st = s1 /\ r.in = in /\ r.told = told BY <1>4 DEF Acts
<1>5. s1.rev = s1.cache[1] => FALSE BY <1>1
<1>6. CASE ev = "on"
  <2> DEFINE e == [d EXCEPT !.pmode = TRUE]
  <2>1. r = Acts(e, s1, <<>>, {}) BY <1>6 DEF Publish, s1, d
  <2>2. /\ e \in CoreRecord /\ e.dirty /\ e.backend = c.backend /\ e.attempt = c.attempt
        /\ (e.stream <=> c.stream) /\ e.screen = c.screen /\ (e.mode <=> c.mode)
        /\ e.pmode /\ e.paste = c.paste /\ e.reads = c.reads /\ e.pc = c.pc BY <1>2 DEF CoreRecord
  <2> HIDE DEF e
  <2>3. r.core = e /\ r.st = s1 /\ r.in = <<>> /\ r.told = {} BY <1>4, <2>1
  <2> QED BY <1>1, <1>5, <1>6, <2>2, <2>3 DEF Fits, Lets, Keeps
<1>7. CASE ev = "off"
  <2> DEFINE e == [d EXCEPT !.pmode = FALSE, !.paste = NoPaste]
  <2>1. r = Acts(e, s1, <<>>, {}) BY <1>7 DEF Publish, s1, d
  <2>2. /\ e \in CoreRecord /\ e.dirty /\ e.backend = c.backend /\ e.attempt = c.attempt
        /\ (e.stream <=> c.stream) /\ e.screen = c.screen /\ (e.mode <=> c.mode)
        /\ ~e.pmode /\ e.paste = NoPaste /\ e.reads = c.reads /\ e.pc = c.pc
    BY <1>2, NoPasteFacts DEF CoreRecord
  <2> HIDE DEF e
  <2>3. r.core = e /\ r.st = s1 /\ r.in = <<>> /\ r.told = {} BY <1>4, <2>1
  <2> QED BY <1>0, <1>1, <1>5, <1>7, <2>2, <2>3, NoPasteFacts DEF Fits, Lets, Keeps
<1>8. CASE ev \in {"none", "read"} /\ r = Acts(d, s1, <<>>, {})
  <2>1. r.core = d /\ r.st = s1 /\ r.in = <<>> /\ r.told = {} BY <1>4, <1>8
  <2> QED BY <1>1, <1>2, <1>5, <1>8, <2>1 DEF Fits, Lets, Keeps
<1>9. CASE ev = "read" /\ c.pmode /\ c.paste.open # 0
  <2>1. r = Acts(d, s1, <<<<req, "busy", req>>>>, {}) BY <1>9 DEF Publish, s1, d
  <2>2. r.core = d /\ r.st = s1 /\ r.in = <<<<req, "busy", req>>>> /\ r.told = {} BY <1>4, <2>1
  <2> QED BY <1>1, <1>2, <1>5, <1>9, <2>2 DEF Fits, Busies
<1>10. CASE ev = "read" /\ c.pmode /\ c.paste.open = 0
  <2>1. r = Acts(open, s1, <<>>, {<<c.attempt, c.reads + 1, req>>}) BY <1>10 DEF Publish, s1, d, opened
  <2>2. /\ open \in CoreRecord /\ open.dirty /\ open.backend = c.backend /\ open.attempt = c.attempt
        /\ (open.stream <=> c.stream) /\ open.screen = c.screen /\ (open.mode <=> c.mode)
        /\ (open.pmode <=> c.pmode) /\ open.paste = opened /\ open.reads = c.reads + 1 /\ open.pc = c.pc
    <3> DEFINE n == c.reads + 1
    <3>1. n \in Nat /\ open = [d EXCEPT !.reads = n, !.paste = opened] BY <1>0, <1>2
    <3>2. n = c.reads + 1 OBVIOUS
    <3> HIDE DEF n, open
    <3>3. /\ open \in CoreRecord /\ open.dirty /\ open.backend = d.backend /\ open.attempt = d.attempt
          /\ (open.stream <=> d.stream) /\ open.screen = d.screen /\ (open.mode <=> d.mode)
          /\ (open.pmode <=> d.pmode) /\ open.paste = opened /\ open.reads = n /\ open.pc = d.pc
      BY <1>2, <1>3, <3>1 DEF CoreRecord
    <3> QED BY <1>2, <3>2, <3>3
  <2> HIDE DEF open
  <2>3. r.core = open /\ r.st = s1 /\ r.in = <<>> /\ r.told = {<<c.attempt, c.reads + 1, req>>}
    BY ZenonT(60), <1>4, <2>1
  <2> QED BY SMTT(60), <1>0, <1>1, <1>3, <1>5, <1>10, <2>2, <2>3 DEF Fits, OpensRead
<1>11. ev = "none" \/ (ev = "read" /\ ~c.pmode) => r = Acts(d, s1, <<>>, {}) BY DEF Publish, s1, d
<1> QED BY <1>6, <1>7, <1>8, <1>9, <1>10, <1>11 DEF EventKinds

LEMMA EndStreamFacts ==
  ASSUME NEW c \in CoreRecord, NEW e, e = EndStream(c)
  PROVE  /\ e \in CoreRecord /\ ~e.mode /\ e.paste.open = 0 /\ e.paste.req = 0
         /\ e.backend = c.backend /\ e.attempt = c.attempt /\ (e.stream <=> c.stream)
         /\ e.screen = c.screen /\ (e.pmode <=> c.pmode) /\ e.reads = c.reads
         /\ (e.dirty <=> c.dirty) /\ e.pc = c.pc
<1>1. e = [c EXCEPT !.paste = NoPaste, !.mode = FALSE] BY DEF EndStream
<1>2. /\ e \in CoreRecord /\ ~e.mode /\ e.paste = NoPaste
      /\ e.backend = c.backend /\ e.attempt = c.attempt /\ (e.stream <=> c.stream)
      /\ e.screen = c.screen /\ (e.pmode <=> c.pmode) /\ e.reads = c.reads
      /\ (e.dirty <=> c.dirty) /\ e.pc = c.pc BY <1>1, NoPasteFacts DEF CoreRecord
<1> QED BY <1>2, NoPasteFacts

(* A result: what holds of every message's. *)
Result(c, s, r) ==
  /\ Fits(r.core, r.st) /\ Advances(c, s, r.core, r.st)

LEMMA EndAndPublishFacts ==
  ASSUME NEW c, NEW s, Fits(c, s), NEW r, r = EndAndPublish(c, s)
  PROVE  /\ Result(c, s, r) /\ Lets(c, r) /\ ~r.core.mode /\ r.core.paste.open = 0
         /\ r.core.paste.req = 0 /\ (r.core.stream <=> c.stream)
         /\ r.core.screen = c.screen
<1> DEFINE e == EndStream(c)
<1>0. c \in CoreRecord /\ s \in StateRecord BY DEF Fits
<1>1. /\ e \in CoreRecord /\ ~e.mode /\ e.paste.open = 0 /\ e.paste.req = 0
      /\ e.backend = c.backend /\ e.attempt = c.attempt /\ (e.stream <=> c.stream)
      /\ e.screen = c.screen /\ (e.pmode <=> c.pmode) /\ e.reads = c.reads
      /\ (e.dirty <=> c.dirty) BY <1>0, EndStreamFacts
<1>2. e.reads \in Nat /\ s.rev \in Nat BY <1>0, <1>1 DEF CoreRecord, StateRecord
<1> HIDE DEF e
<1>3. CASE c.mode
  <2>1. r = Publish(e, s, "off", 0) BY <1>3 DEF EndAndPublish, e
  <2>2. "off" \in EventKinds /\ 0 \in Nat /\ 0 <= e.reads BY <1>2 DEF EventKinds
  <2>3. s.attempt = e.attempt /\ (s.ready /\ ~s.exited /\ e.backend = "attach" => e.screen[1] = e.attempt)
    BY <1>1 DEF Fits
  <2>4. /\ Fits(r.core, r.st) /\ r.st.rev = s.rev + 1 /\ r.core.dirty
        /\ r.core.backend = e.backend /\ r.core.attempt = e.attempt /\ (r.core.stream <=> e.stream)
        /\ r.core.screen = e.screen /\ (r.core.mode <=> e.mode)
        /\ Lets(e, r) BY <1>0, <1>1, <2>1, <2>2, <2>3, PublishFacts
  <2> QED BY <1>1, <2>4 DEF Result, Advances, Lets, Keeps
<1>4. CASE ~c.mode
  <2>1. r = Acts(e, s, <<>>, {}) BY <1>4 DEF EndAndPublish, e
  <2>2. r.core = e /\ r.st = s /\ r.in = <<>> /\ r.told = {} BY <2>1 DEF Acts
  <2> QED BY <1>0, <1>1, <1>2, <1>4, <2>2 DEF Result, Fits, Advances, Lets, Keeps
<1> QED BY <1>3, <1>4

(* The terminal takes a frame of its own attempt: the screen comes first. *)
LEMMA WritesFacts ==
  ASSUME NEW c \in CoreRecord, NEW f \in HandleFrame, NEW e, e = Writes(c, f)
  PROVE  /\ e \in CoreRecord /\ e.paste = c.paste
         /\ e.backend = c.backend /\ e.attempt = c.attempt /\ (e.stream <=> c.stream)
         /\ e.screen[1] = c.attempt /\ (e.pmode <=> c.pmode) /\ e.reads = c.reads
         /\ (e.dirty <=> c.dirty) /\ e.pc = c.pc
         /\ (e.mode <=> (f.ev = "on" \/ (f.ev # "off" /\ f.t # "Screen" /\ c.mode)))
<1> DEFINE m == CASE f.ev = "on" -> TRUE [] f.ev = "off" -> FALSE [] OTHER -> f.t # "Screen" /\ c.mode
           p == <<c.attempt, f.n>>
<1>1. e = [c EXCEPT !.screen = p, !.mode = m] BY DEF Writes
<1>2. m \in BOOLEAN /\ (m <=> (f.ev = "on" \/ (f.ev # "off" /\ f.t # "Screen" /\ c.mode)))
  BY DEF CoreRecord
<1>3. p \in Nat \X Nat /\ p[1] = c.attempt BY DEF CoreRecord, HandleFrame
<1> HIDE DEF m, p
<1>4. /\ e \in CoreRecord /\ e.paste = c.paste
      /\ e.backend = c.backend /\ e.attempt = c.attempt /\ (e.stream <=> c.stream)
      /\ e.screen = p /\ (e.pmode <=> c.pmode) /\ e.reads = c.reads
      /\ (e.dirty <=> c.dirty) /\ e.pc = c.pc /\ (e.mode <=> m) BY ZenonT(60), <1>1, <1>2, <1>3 DEF CoreRecord
<1> QED BY <1>2, <1>3, <1>4

LEMMA OutputFacts ==
  ASSUME NEW c, NEW s, Fits(c, s), NEW f \in HandleFrame, NEW r,
         f.t # "Exit", f.t = "Screen" => ~c.mode /\ c.paste.open = 0 /\ f.ev # "read" ,
         NEW req \in Nat, req = f.req \/ f.t = "Screen", r = Publish(Writes(c, f), s, f.ev, req)
  PROVE  /\ Result(c, s, r) /\ r.core.screen[1] = c.attempt
         /\ Lets(c, r) \/ (f.ev = "read" /\ (Busies(c, r, f.req) \/ OpensRead(c, r, f.req)))
<1> DEFINE e == Writes(c, f)
<1>0. c \in CoreRecord /\ s \in StateRecord /\ f.ev \in EventKinds BY DEF Fits, HandleFrame, EventKinds
<1>1. /\ e \in CoreRecord /\ e.paste = c.paste
      /\ e.backend = c.backend /\ e.attempt = c.attempt /\ (e.stream <=> c.stream)
      /\ e.screen[1] = c.attempt /\ (e.pmode <=> c.pmode) /\ e.reads = c.reads
      /\ (e.dirty <=> c.dirty)
      /\ (e.mode <=> (f.ev = "on" \/ (f.ev # "off" /\ f.t # "Screen" /\ c.mode))) BY <1>0, WritesFacts
<1> HIDE DEF e
<1>2. r = Publish(e, s, f.ev, req) BY DEF e
<1>3. CASE f.ev = "off" /\ c.paste.open # 0
  (* The read ends with the mode. *)
  <2> DEFINE s1 == [s EXCEPT !.rev = @ + 1, !.cache = <<0, <<0, 0>>>>]
             d == [e EXCEPT !.dirty = TRUE]
             g == [d EXCEPT !.pmode = FALSE, !.paste = NoPaste]
             o == [e EXCEPT !.paste = NoPaste]
  <2>1. r = Acts(g, s1, <<>>, {}) BY <1>2, <1>3 DEF Publish
  <2>2. o \in CoreRecord /\ o.paste = NoPaste /\ o.backend = e.backend /\ o.attempt = e.attempt
        /\ (o.stream <=> e.stream) /\ o.screen = e.screen /\ o.reads = e.reads /\ (o.mode <=> e.mode)
    BY <1>1, NoPasteFacts DEF CoreRecord
  <2>3. Publish(o, s, "off", 0) = Acts(g, s1, <<>>, {})
    <3>1. [[o EXCEPT !.dirty = TRUE] EXCEPT !.pmode = FALSE, !.paste = NoPaste] = g
      BY <1>1, NoPasteFacts DEF CoreRecord
    <3> QED BY <3>1 DEF Publish
  <2>4. r = Publish(o, s, "off", 0) BY <2>1, <2>3
  <2> HIDE DEF o, g, d, s1
  <2>5. "off" \in EventKinds /\ 0 \in Nat /\ s.attempt = o.attempt /\ o.paste.open = 0 /\ o.paste.req = 0
        /\ ~o.mode /\ o.screen[1] = o.attempt /\ o.paste.open <= o.reads
    BY <1>0, <1>1, <1>3, <2>2, NoPasteFacts DEF EventKinds, Fits, CoreRecord
  <2>6. /\ Fits(r.core, r.st) /\ r.st.rev = s.rev + 1 /\ r.core.dirty
        /\ r.core.backend = o.backend /\ r.core.attempt = o.attempt /\ (r.core.stream <=> o.stream)
        /\ r.core.screen = o.screen /\ Lets(o, r) BY <1>0, <2>2, <2>4, <2>5, PublishFacts
  <2>7. r.core.paste.open = 0 /\ r.core.paste.req = 0 /\ r.core.reads = c.reads
    BY <1>1, <2>2, <2>5, <2>6 DEF Lets, Keeps
  <2> QED BY <1>1, <2>2, <2>6, <2>7 DEF Result, Advances, Lets, Keeps
<1>4. CASE ~(f.ev = "off" /\ c.paste.open # 0)
  <2>1. e.paste.open # 0 => e.mode BY <1>1, <1>4 DEF Fits
  <2>2. (e.paste.open = 0 => e.paste.req = 0) /\ e.paste.open <= e.reads /\ s.attempt = e.attempt
        /\ e.screen[1] = e.attempt BY <1>1 DEF Fits
  <2>3. (f.ev = "on" /\ e.mode) \/ (f.ev = "off" /\ ~e.mode)
          \/ (f.ev \in {"none", "read"} /\ (e.pmode <=> e.mode)) BY <1>0, <1>1 DEF Fits, EventKinds
  <2>4. /\ Fits(r.core, r.st) /\ r.st.rev = s.rev + 1 /\ r.core.dirty
        /\ r.core.backend = e.backend /\ r.core.attempt = e.attempt /\ (r.core.stream <=> e.stream)
        /\ r.core.screen = e.screen
        /\ Lets(e, r) \/ (f.ev = "read" /\ e.mode /\ (Busies(e, r, req) \/ OpensRead(e, r, req)))
    BY <1>0, <1>1, <1>2, <2>1, <2>2, <2>3, PublishFacts
  <2>5. Lets(c, r) \/ (f.ev = "read" /\ (Busies(c, r, f.req) \/ OpensRead(c, r, f.req)))
    BY <1>1, <2>4 DEF Lets, Keeps, Busies, OpensRead
  <2> QED BY <1>1, <2>4, <2>5 DEF Result, Advances
<1> QED BY <1>3, <1>4

LEMMA ExitFacts ==
  ASSUME NEW c, NEW s, Fits(c, s), NEW r, r = OnExit(c, s)
  PROVE  Result(c, s, r) /\ Lets(c, r) /\ ~r.core.mode
<1> DEFINE e == EndStream(c)
           ev == IF c.mode THEN "off" ELSE "none"
           p == Publish(e, s, ev, 0)
<1>0. c \in CoreRecord /\ s \in StateRecord BY DEF Fits
<1>1. /\ e \in CoreRecord /\ ~e.mode /\ e.paste.open = 0 /\ e.paste.req = 0
      /\ e.backend = c.backend /\ e.attempt = c.attempt /\ (e.stream <=> c.stream)
      /\ e.screen = c.screen /\ (e.pmode <=> c.pmode) /\ e.reads = c.reads BY <1>0, EndStreamFacts
<1>2. e.reads \in Nat /\ ev \in EventKinds /\ 0 \in Nat
      /\ ((ev = "off" /\ ~e.mode) \/ (ev = "none" /\ (e.pmode <=> e.mode)))
  BY <1>0, <1>1 DEF CoreRecord, EventKinds, Fits
<1>3. r = [p EXCEPT !.st.exited = TRUE, !.st.ready = TRUE] BY DEF OnExit
<1>p. p = Publish(e, s, ev, 0) OBVIOUS
<1> HIDE DEF e, ev, p
<1>4. s.attempt = e.attempt /\ (s.ready /\ ~s.exited /\ e.backend = "attach" => e.screen[1] = e.attempt)
      /\ 0 <= e.reads BY <1>1, <1>2 DEF Fits
<1>5. /\ Fits(p.core, p.st) /\ p.st.rev = s.rev + 1 /\ p.core.dirty
      /\ p.core.backend = e.backend /\ p.core.attempt = e.attempt /\ (p.core.stream <=> e.stream)
      /\ p.core.screen = e.screen /\ (p.core.mode <=> e.mode)
      /\ Lets(e, p) BY <1>0, <1>1, <1>2, <1>4, <1>p, PublishFacts
<1>6. \E x, y, z, v : p = Acts(x, y, z, v) BY <1>p DEF Publish
<1>7. r.core = p.core /\ r.in = p.in /\ r.told = p.told /\ r.st = [p.st EXCEPT !.exited = TRUE, !.ready = TRUE]
  BY <1>3, <1>6 DEF Acts
<1>8. /\ r.st \in StateRecord /\ r.st.rev = p.st.rev /\ r.st.exited /\ r.st.attempt = p.st.attempt
      /\ r.st.cache = p.st.cache BY ZenonT(60), <1>5, <1>7 DEF StateRecord, Fits
<1>9. Fits(r.core, r.st) BY <1>5, <1>7, <1>8 DEF Fits
<1> QED BY <1>1, <1>5, <1>7, <1>8, <1>9 DEF Result, Advances, Lets, Keeps

(* The frame kinds the session sends. *)
LEMMA FrameFacts ==
  ASSUME NEW c, NEW s, Fits(c, s), NEW f \in HandleFrame, NEW r, r = OnFrame(c, s, f),
         f.t = "Screen" => ~c.mode /\ c.paste.open = 0 /\ f.ev # "read"
  PROVE  /\ Result(c, s, r)
         /\ Lets(c, r) \/ (f.ev = "read" /\ (Busies(c, r, f.req) \/ OpensRead(c, r, f.req)))
<1>1. CASE f.t = "Exit"
  <2>1. r = OnExit(c, s) BY <1>1 DEF OnFrame
  <2> QED BY <2>1, ExitFacts
<1>2. CASE f.t = "Screen"
  <2> DEFINE p == Publish(Writes(c, f), s, f.ev, 0)
  <2>1. r = [p EXCEPT !.st.ready = TRUE] BY <1>2 DEF OnFrame
  <2>2. /\ Result(c, s, p) /\ p.core.screen[1] = c.attempt
        /\ Lets(c, p) \/ (f.ev = "read" /\ (Busies(c, p, f.req) \/ OpensRead(c, p, f.req)))
    <3>1. 0 \in Nat /\ f.t # "Exit" BY <1>2
    <3> QED BY <1>2, <3>1, OutputFacts
  <2>3. \E x, y, z, v : p = Acts(x, y, z, v) BY DEF Publish
  <2> HIDE DEF p
  <2>4. r.core = p.core /\ r.in = p.in /\ r.told = p.told /\ r.st = [p.st EXCEPT !.ready = TRUE]
    BY <2>1, <2>3 DEF Acts
  <2>5. Fits(p.core, p.st) /\ p.core.attempt = c.attempt BY <2>2 DEF Result, Advances
  <2>6. /\ r.st \in StateRecord /\ r.st.rev = p.st.rev /\ r.st.attempt = p.st.attempt
        /\ r.st.cache = p.st.cache BY <2>4, <2>5 DEF StateRecord, Fits
  <2>7. Fits(r.core, r.st) BY <2>2, <2>4, <2>5, <2>6 DEF Fits
  <2>8. Advances(c, s, r.core, r.st) BY <2>2, <2>4, <2>6 DEF Result, Advances
  <2>9. Lets(c, r) BY <1>2, <2>2, <2>4 DEF Lets
  <2> QED BY <2>7, <2>8, <2>9 DEF Result
<1>3. CASE f.t = "Data"
  <2>1. r = Publish(Writes(c, f), s, f.ev, f.req) BY <1>3 DEF OnFrame
  <2>2. f.req \in Nat BY DEF HandleFrame
  <2> QED BY <1>3, <2>1, <2>2, OutputFacts
<1> QED BY <1>1, <1>2, <1>3 DEF HandleFrame

LEMMA DisconnectedFacts ==
  ASSUME NEW c, NEW s, Fits(c, s), NEW r, r = OnDisconnected(c, s)
  PROVE  Result(c, s, r) /\ Lets(c, r) /\ ~r.core.mode
<1> DEFINE p == EndAndPublish(c, s)
<1>1. /\ Result(c, s, p) /\ Lets(c, p) /\ ~p.core.mode BY EndAndPublishFacts
<1>2. r = [p EXCEPT !.st.connected = FALSE, !.core.stream = FALSE] BY DEF OnDisconnected
<1>3. \E x, y, z, v : p = Acts(x, y, z, v) BY DEF Publish, EndAndPublish
<1> HIDE DEF p
<1>4. r.core = [p.core EXCEPT !.stream = FALSE] /\ r.in = p.in /\ r.told = p.told
      /\ r.st = [p.st EXCEPT !.connected = FALSE] BY <1>2, <1>3 DEF Acts
<1>5. p.core \in CoreRecord /\ p.st \in StateRecord BY <1>1 DEF Result, Fits
<1>6. /\ r.core \in CoreRecord /\ ~r.core.stream /\ r.core.backend = p.core.backend
      /\ r.core.attempt = p.core.attempt /\ r.core.screen = p.core.screen
      /\ (r.core.mode <=> p.core.mode) /\ (r.core.pmode <=> p.core.pmode)
      /\ r.core.paste = p.core.paste /\ r.core.reads = p.core.reads
      /\ (r.core.dirty <=> p.core.dirty) BY ZenonT(60), <1>4, <1>5 DEF CoreRecord
<1>7. /\ r.st \in StateRecord /\ r.st.rev = p.st.rev /\ r.st.attempt = p.st.attempt
      /\ r.st.cache = p.st.cache /\ (r.st.ready <=> p.st.ready) /\ (r.st.exited <=> p.st.exited)
  BY <1>4, <1>5 DEF StateRecord
<1>8. Fits(r.core, r.st) BY <1>1, <1>6, <1>7 DEF Result, Fits
<1>9. Advances(c, s, r.core, r.st) BY <1>1, <1>6, <1>7 DEF Result, Advances
<1> QED BY <1>1, <1>4, <1>6, <1>8, <1>9 DEF Result, Lets, Keeps

(* What the core, with another paste, still fits. *)
LEMMA PasteFits ==
  ASSUME NEW c, NEW s, Fits(c, s), NEW p \in PasteRecord, NEW d, d = [c EXCEPT !.paste = p],
         p.open # 0 => p.open = c.paste.open, p.open = 0 => p.req = 0
  PROVE  /\ Fits(d, s) /\ Advances(c, s, d, s) /\ d.paste = p /\ d.reads = c.reads /\ (d.mode <=> c.mode)
<1>0. c \in CoreRecord /\ s \in StateRecord /\ c.reads \in Nat BY DEF Fits, CoreRecord
<1>1. /\ d \in CoreRecord /\ d.backend = c.backend /\ d.attempt = c.attempt
      /\ (d.stream <=> c.stream) /\ d.screen = c.screen /\ (d.mode <=> c.mode)
      /\ (d.pmode <=> c.pmode) /\ d.paste = p /\ d.reads = c.reads /\ (d.dirty <=> c.dirty)
  BY <1>0 DEF CoreRecord
<1>2. p.open <= d.reads BY <1>0, <1>1 DEF Fits
<1> QED BY <1>0, <1>1, <1>2 DEF Fits, Advances

LEMMA PasteFacts ==
  ASSUME NEW c, NEW s, Fits(c, s), NEW m, m.x \in PasteAnswer, NEW r, r = WritePaste(c, s, m), m.x.read # 0
  PROVE  /\ Result(c, s, r) /\ (r.core.mode <=> c.mode) /\ (Lets(c, r) \/ Says(c, r, m))
<1>0. c \in CoreRecord /\ s \in StateRecord /\ c.paste \in PasteRecord /\ c.paste.open \in Nat
      /\ c.paste.data \in Nat BY DEF Fits, CoreRecord, PasteRecord
<1>1. ASSUME r = Acts(c, s, <<>>, {})
      PROVE  Result(c, s, r) /\ (r.core.mode <=> c.mode) /\ Lets(c, r)
  <2>1. r.core = c /\ r.st = s /\ r.in = <<>> /\ r.told = {} BY <1>1 DEF Acts
  <2> QED BY <2>1 DEF Result, Advances, Lets, Keeps
<1>2. ASSUME NEW p \in PasteRecord, p.open = c.paste.open, p.req = c.paste.req,
             r = Acts([c EXCEPT !.paste = p], s, <<>>, {})
      PROVE  Result(c, s, r) /\ (r.core.mode <=> c.mode) /\ Lets(c, r)
  <2> DEFINE d == [c EXCEPT !.paste = p]
  <2>1. r.core = d /\ r.st = s /\ r.in = <<>> /\ r.told = {} BY <1>2 DEF Acts
  <2>2. p.open = 0 => p.req = 0 BY <1>2 DEF Fits
  <2>3. Fits(d, s) /\ Advances(c, s, d, s) /\ d.paste = p /\ d.reads = c.reads /\ (d.mode <=> c.mode)
    BY <1>2, <2>2, PasteFits
  <2> HIDE DEF d
  <2> QED BY <1>2, <2>1, <2>3 DEF Result, Lets, Keeps
<1>3. ASSUME NEW kind \in {"busy", "answer", "error"}, c.paste.open = m.x.read,
             r = Acts([c EXCEPT !.paste = NoPaste], s, <<<<c.paste.req, kind, m.x.req>>>>, {})
      PROVE  Result(c, s, r) /\ (r.core.mode <=> c.mode) /\ Says(c, r, m)
  <2> DEFINE d == [c EXCEPT !.paste = NoPaste]
  <2>1. r.core = d /\ r.st = s /\ r.in = <<<<c.paste.req, kind, m.x.req>>>> /\ r.told = {}
    BY <1>3 DEF Acts
  <2>3. Fits(d, s) /\ Advances(c, s, d, s) /\ d.paste = NoPaste /\ d.reads = c.reads /\ (d.mode <=> c.mode)
    BY NoPasteFacts, PasteFits
  <2> HIDE DEF d
  <2> QED BY <1>3, <2>1, <2>3, NoPasteFacts DEF Result, Says
<1>4. CASE Refuses(c, s, m) # "none" BY <1>1, <1>4 DEF WritePaste
<1>5. CASE Refuses(c, s, m) = "none"
  <2>0. c.paste.open = m.x.read BY <1>5 DEF Refuses
  <2>1. CASE m.x.packet = "ReadOk"
    <3> DEFINE p == [c.paste EXCEPT !.answer = TRUE]
    <3>1. r = Acts(c, s, <<>>, {}) \/ r = Acts([c EXCEPT !.paste = p], s, <<>>, {})
      BY <1>0, <1>5, <2>1 DEF WritePaste
    <3>2. p \in PasteRecord /\ p.open = c.paste.open /\ p.req = c.paste.req BY <1>0 DEF PasteRecord
    <3> HIDE DEF p
    <3> QED BY <1>1, <1>2, <3>1, <3>2
  <2>2. CASE m.x.packet = "ReadData"
    <3> DEFINE p == [c.paste EXCEPT !.data = @ + 1]
    <3>1. \/ r = Acts(c, s, <<>>, {}) \/ r = Acts([c EXCEPT !.paste = p], s, <<>>, {})
          \/ r = Acts([c EXCEPT !.paste = NoPaste], s, <<<<c.paste.req, "busy", m.x.req>>>>, {})
      BY <1>0, <1>5, <2>2 DEF WritePaste
    <3>2. p \in PasteRecord /\ p.open = c.paste.open /\ p.req = c.paste.req BY <1>0 DEF PasteRecord
    <3> HIDE DEF p
    <3> QED BY <1>1, <1>2, <1>3, <2>0, <3>1, <3>2
  <2>3. CASE m.x.packet = "ReadDone"
    <3>1. \/ r = Acts(c, s, <<>>, {})
          \/ r = Acts([c EXCEPT !.paste = NoPaste], s, <<<<c.paste.req, "answer", m.x.req>>>>, {})
      BY <1>0, <1>5, <2>3 DEF WritePaste
    <3> QED BY <1>1, <1>3, <2>0, <3>1
  <2>4. CASE m.x.packet = "ReadError"
    <3>1. r = Acts([c EXCEPT !.paste = NoPaste], s, <<<<c.paste.req, "error", m.x.req>>>>, {})
      BY <1>0, <1>5, <2>4 DEF WritePaste
    <3> QED BY <1>3, <2>0, <3>1
  <2> QED BY <2>1, <2>2, <2>3, <2>4 DEF PasteAnswer, PastePackets
<1> QED BY <1>4, <1>5

(* Publish without an event. *)
LEMMA PlainPublish ==
  ASSUME NEW c, NEW s, Fits(c, s), NEW r, r = Publish(c, s, "none", 0)
  PROVE  Result(c, s, r) /\ Lets(c, r) /\ (r.core.mode <=> c.mode)
<1>1. c \in CoreRecord /\ s \in StateRecord /\ "none" \in EventKinds /\ 0 \in Nat
      /\ (c.pmode <=> c.mode) /\ (c.paste.open # 0 => c.mode)
      /\ (c.paste.open = 0 => c.paste.req = 0) /\ c.paste.open <= c.reads
      /\ s.attempt = c.attempt
      /\ (s.ready /\ ~s.exited /\ c.backend = "attach" => c.screen[1] = c.attempt)
  BY DEF Fits, EventKinds
<1>2. /\ Fits(r.core, r.st) /\ r.st.rev = s.rev + 1 /\ r.core.dirty
      /\ r.core.backend = c.backend /\ r.core.attempt = c.attempt /\ (r.core.stream <=> c.stream)
      /\ (r.core.mode <=> c.mode) /\ Lets(c, r) BY <1>1, PublishFacts
<1> QED BY <1>2 DEF Result, Advances

LEMMA ChanFacts ==
  ASSUME HandleInv, chan # <<>>, NEW m, m = Head(chan)
  PROVE  /\ m \in HandleMsg /\ m = chan[1] /\ 1 \in DOMAIN chan /\ Tail(chan) \in Seq(HandleMsg)
         /\ Len(chan) \in Nat /\ DOMAIN chan = 1..Len(chan)
         /\ DOMAIN Tail(chan) = 1..(Len(chan) - 1)
         /\ \A i \in DOMAIN Tail(chan) : i + 1 \in DOMAIN chan /\ Tail(chan)[i] = chan[i + 1]
<1>1. chan \in Seq(HandleMsg) BY DEF HandleInv, HandleTypes
<1> QED BY <1>1

LEMMA HandlesFacts ==
  ASSUME HandleInv, chan # <<>>, NEW m, m = Head(chan), NEW r, r = Handles(m),
         m.m \notin {"Reconnect", "Close"}
  PROVE  /\ Result(core, st, r)
         /\ \/ Lets(core, r) /\ (OfNow(m) \/ (r.core.mode => core.mode))
            \/ Asks(m) /\ (Busies(core, r, m.x.req) \/ OpensRead(core, r, m.x.req))
            \/ m.m = "Paste" /\ Says(core, r, m) /\ (r.core.mode => core.mode)
         /\ m.m = "ObserveFrames" /\ pub.observers > 0 => r.core.dirty
<1>0. Fits(core, st) /\ core \in CoreRecord /\ m \in HandleMsg /\ m = chan[1] /\ 1 \in DOMAIN chan
  BY ChanFacts DEF HandleInv, Fits
<1>1. ASSUME r = Acts(core, st, <<>>, {})
      PROVE  Result(core, st, r) /\ Lets(core, r) /\ (r.core.mode => core.mode)
  <2>1. r.core = core /\ r.st = st /\ r.in = <<>> /\ r.told = {} BY <1>1 DEF Acts
  <2> QED BY <1>0, <2>1 DEF Result, Advances, Lets, Keeps
<1>2. CASE m.m = "Frame"
  <2>1. CASE ~OfNow(m)
    <3>1. r = Acts(core, st, <<>>, {}) BY <1>2, <2>1 DEF Handles, OfNow, CurrentMsg
    <3> QED BY <1>1, <1>2, <3>1
  <2>2. CASE OfNow(m)
    <3>1. r = OnFrame(core, st, m.x) BY <1>2, <2>2 DEF Handles, OfNow, CurrentMsg
    <3>2. m.x \in HandleFrame BY <1>0, <1>2 DEF HandleMsg, PlainKinds
    <3>3. m.x.t = "Screen" => ~core.mode /\ core.paste.open = 0
      BY <1>0, <2>2 DEF HandleInv, ScreenInv, Blank
    <3>4. m.x.t = "Screen" => m.x.ev # "read" BY <3>2 DEF HandleFrame
    <3>5. /\ Result(core, st, r)
          /\ Lets(core, r) \/ (m.x.ev = "read" /\ (Busies(core, r, m.x.req) \/ OpensRead(core, r, m.x.req)))
      BY <1>0, <3>1, <3>2, <3>3, <3>4, FrameFacts
    <3> QED BY <1>2, <2>2, <3>5 DEF Asks
  <2> QED BY <2>1, <2>2
<1>3. CASE m.m = "Disconnected"
  <2>1. r = OnDisconnected(core, st) \/ r = Acts(core, st, <<>>, {}) BY <1>3 DEF Handles
  <2>2. CASE r = OnDisconnected(core, st) BY <1>0, <1>3, <2>2, DisconnectedFacts
  <2> QED BY <1>1, <1>3, <2>1, <2>2
<1>4. CASE m.m = "ObserveFrames"
  <2> DEFINE b == core.dirty \/ pub.observers > 0
             d == [core EXCEPT !.dirty = b]
  <2>1. r = Acts(d, st, <<>>, {}) BY <1>4 DEF Handles
  <2>2. b \in BOOLEAN /\ (core.dirty => b) /\ (pub.observers > 0 => b) BY <1>0 DEF CoreRecord
  <2> HIDE DEF b
  <2>3. /\ d \in CoreRecord /\ (d.dirty <=> b) /\ d.backend = core.backend /\ d.attempt = core.attempt
        /\ (d.stream <=> core.stream) /\ d.screen = core.screen /\ (d.mode <=> core.mode)
        /\ (d.pmode <=> core.pmode) /\ d.paste = core.paste /\ d.reads = core.reads /\ d.pc = core.pc
    BY <1>0, <2>2 DEF CoreRecord
  <2> HIDE DEF d
  <2>4. r.core = d /\ r.st = st /\ r.in = <<>> /\ r.told = {} BY <2>1 DEF Acts
  <2>5. Fits(r.core, r.st) BY <1>0, <2>3, <2>4 DEF Fits
  <2> QED BY <1>4, <2>2, <2>3, <2>4, <2>5 DEF Result, Advances, Lets, Keeps
<1>5. CASE m.m = "Paste"
  <2>1. r = WritePaste(core, st, m) BY <1>5 DEF Handles
  <2>2. m.x \in PasteAnswer BY <1>0, <1>5 DEF HandleMsg, PlainKinds
  <2>3. m.x.read # 0
    <3>1. m.x.read \in 1..core.reads BY <1>0, <1>5 DEF HandleInv, ToldInv, Opened
    <3> QED BY <3>1
  <2> QED BY <1>0, <1>5, <2>1, <2>2, <2>3, PasteFacts
<1>6. CASE m.m = "Publish"
  <2>1. r = Publish(core, st, "none", 0) BY <1>6 DEF Handles
  <2> QED BY <1>0, <1>6, <2>1, PlainPublish
<1>7. CASE m.m \notin {"Frame", "Disconnected", "ObserveFrames", "Paste", "Publish"}
  <2>1. r = Acts(core, st, <<>>, {}) BY <1>7 DEF Handles
  <2> QED BY <1>1, <1>7, <2>1
<1> QED BY <1>2, <1>3, <1>4, <1>5, <1>6, <1>7

(* The bytes the program is sent: none, or one answer. *)
LEMMA InputNone ==
  ASSUME prog \in ProgRecord, NEW c, Input(c, <<>>)
  PROVE  /\ prog' \in ProgRecord /\ prog'.got = prog.got /\ (prog'.wrong <=> prog.wrong)
         /\ prog'.reqs = prog.reqs /\ prog'.out = prog.out /\ (prog'.mode <=> prog.mode)
<1> DEFINE e == [i \in 1..Len(<<>>) |-> <<>>[i][1]]
           g == prog.got \o e
           b == prog.wrong \/ \E i \in 1..Len(<<>>) : <<>>[i][1] # <<>>[i][3]
<1>1. prog.got \in Seq(Nat) BY DEF ProgRecord
<1>2. Len(<<>>) = 0 /\ 1..0 = {} OBVIOUS
<1>3. e = <<>> BY <1>2
<1>4. g = prog.got BY <1>1, <1>3
<1>5. b <=> prog.wrong BY <1>2
<1>6. b \in BOOLEAN BY <1>5 DEF ProgRecord
<1>7. prog' = [prog EXCEPT !.got = g, !.wrong = b] \/ prog' = prog BY DEF Input
<1> HIDE DEF e, g, b
<1>8. CASE prog' = [prog EXCEPT !.got = g, !.wrong = b] BY <1>1, <1>4, <1>5, <1>6, <1>8 DEF ProgRecord
<1> QED BY <1>7, <1>8

LEMMA InputOne ==
  ASSUME prog \in ProgRecord, NEW c, NEW x \in Nat, NEW kind, NEW y, x = y,
         Input(c, <<<<x, kind, y>>>>)
  PROVE  /\ prog' \in ProgRecord /\ (prog'.wrong <=> prog.wrong)
         /\ prog'.got = prog.got \/ prog'.got = Append(prog.got, x)
         /\ prog'.reqs = prog.reqs /\ prog'.out = prog.out /\ (prog'.mode <=> prog.mode)
<1> DEFINE in == <<<<x, kind, y>>>>
           e == [i \in 1..Len(in) |-> in[i][1]]
           g == prog.got \o e
           b == prog.wrong \/ \E i \in 1..Len(in) : in[i][1] # in[i][3]
<1>1. prog.got \in Seq(Nat) BY DEF ProgRecord
<1>2. Len(in) = 1 /\ 1..1 = {1} /\ in[1][1] = x /\ in[1][3] = y OBVIOUS
<1>7. prog' = [prog EXCEPT !.got = g, !.wrong = b] \/ prog' = prog BY DEF Input
<1> HIDE DEF in
<1>3. e = <<x>>
  <2>1. e = [i \in {1} |-> x] BY <1>2
  <2>2. <<x>> = [i \in {1} |-> x] OBVIOUS
  <2> QED BY <2>1, <2>2
<1> HIDE DEF e
<1>4. g = Append(prog.got, x) BY <1>1, <1>3
<1>9. g \in Seq(Nat) BY <1>1, <1>4
<1>5. b <=> prog.wrong BY <1>2
<1>6. b \in BOOLEAN BY <1>5 DEF ProgRecord
<1> HIDE DEF g, b
<1>8. CASE prog' = [prog EXCEPT !.got = g, !.wrong = b]
  BY <1>1, <1>4, <1>5, <1>6, <1>8, <1>9 DEF ProgRecord
<1> QED BY <1>7, <1>8
----------------------------------------------------------------------------
(* What a step leaves of the frames and the reads under way. *)

(* The streams, but for who reads them. *)
SameStreams ==
  \A n \in Attempts : rdr'[n].wire = rdr[n].wire /\ (rdr'[n].served <=> rdr[n].served)
NoneOpens == \A n \in Attempts : rdr'[n].open => n = core.attempt
(* The actor, as far as frames and reads tell. *)
SameCore ==
  /\ core'.attempt = core.attempt /\ core'.backend = core.backend
  /\ (core'.mode <=> core.mode) /\ core'.paste = core.paste /\ core'.reads = core.reads

LEMMA LineStays ==
  ASSUME HandleInv, chan' = chan, SameStreams, NoneOpens, SameCore, UNCHANGED prog,
         api'.told = api.told
  PROVE  (Owned /\ ScreenInv /\ OrderInv /\ ToldInv /\ AnswerInv)'
<1>0. Owned /\ ScreenInv /\ OrderInv /\ ToldInv /\ AnswerInv BY DEF HandleInv
<1>1. \A n \in Attempts : Unread(n)' <=> Unread(n) BY DEF Unread, SameCore
<1>2. (Blank' <=> Blank) /\ (NoneWaits' <=> NoneWaits) BY DEF Blank, NoneWaits, OfNow, SameCore
<1>3. Owned' BY <1>0 DEF Owned, SameStreams, NoneOpens, SameCore
<1>4. ScreenInv' BY <1>0, <1>1, <1>2 DEF ScreenInv, SameStreams, OfNow, SameCore
<1>5. OrderInv'
  <2>1. \A f : Ahead(f)' <=> Ahead(f) BY DEF Ahead, AheadOf, SameCore
  <2>2. ChanOrder' BY <1>0, <2>1 DEF OrderInv, ChanOrder, Asks, OfNow, SameCore
  <2>3. ASSUME NEW n \in Attempts, n = core.attempt PROVE WireOrder(rdr[n].wire)'
    <3>1. WireOrder(rdr[n].wire) BY <1>0, <2>3 DEF OrderInv, Unread
    <3> QED BY <2>1, <3>1 DEF WireOrder, Asks, OfNow, SameCore, SameStreams
  <2> QED BY <2>2, <2>3 DEF OrderInv, Unread, SameCore
<1>6. ToldInv' BY <1>0 DEF ToldInv, Opened, SameCore
<1>7. AnswerInv' BY <1>0 DEF AnswerInv, SameCore
<1> QED BY <1>3, <1>4, <1>5, <1>6, <1>7

LEMMA AppendFactsH ==
  ASSUME HandleInv, NEW m \in HandleMsg, chan' = Append(chan, m)
  PROVE  /\ chan' \in Seq(HandleMsg)
         /\ \A i \in DOMAIN chan : i \in DOMAIN chan' /\ chan'[i] = chan[i] /\ 1..(i - 1) \subseteq DOMAIN chan
         /\ \A i \in DOMAIN chan' : (i \in DOMAIN chan /\ chan'[i] = chan[i])
                                    \/ (chan'[i] = m /\ \A j \in DOMAIN chan : j < i)
         /\ \A i \in DOMAIN chan' : 1..(i - 1) \subseteq DOMAIN chan
<1>1. chan \in Seq(HandleMsg) BY DEF HandleInv, HandleTypes
<1>2. /\ chan' \in Seq(HandleMsg) /\ Len(chan) \in Nat /\ DOMAIN chan = 1..Len(chan)
      /\ DOMAIN chan' = 1..(Len(chan) + 1)
      /\ \A i \in 1..Len(chan) : chan'[i] = chan[i]
      /\ chan'[Len(chan) + 1] = m BY <1>1
<1> QED BY <1>2

(* A message that is no frame is sent. *)
LEMMA AppendPlain ==
  ASSUME HandleInv, NEW m \in HandleMsg, chan' = Append(chan, m), m.m # "Frame",
         m.m = "Paste" => Opened(m.x.read, m.x.req),
         SameStreams, NoneOpens, SameCore, UNCHANGED prog, api'.told = api.told
  PROVE  /\ (Owned /\ ScreenInv /\ OrderInv /\ ToldInv /\ AnswerInv)' /\ chan' \in Seq(HandleMsg)
         /\ \A i \in DOMAIN chan : i \in DOMAIN chan' /\ chan'[i] = chan[i]
         /\ \E i \in DOMAIN chan' : chan'[i] = m
<1>0. Owned /\ ScreenInv /\ OrderInv /\ ToldInv /\ AnswerInv /\ chan \in Seq(HandleMsg)
  BY DEF HandleInv, HandleTypes
<1>1. /\ chan' \in Seq(HandleMsg)
      /\ \A i \in DOMAIN chan : i \in DOMAIN chan' /\ chan'[i] = chan[i] /\ 1..(i - 1) \subseteq DOMAIN chan
      /\ \A i \in DOMAIN chan' : (i \in DOMAIN chan /\ chan'[i] = chan[i])
                                 \/ (chan'[i] = m /\ \A j \in DOMAIN chan : j < i) BY AppendFactsH
<1>2. \E i \in DOMAIN chan' : chan'[i] = m
  <2>1. Len(chan) + 1 \in DOMAIN chan' /\ chan'[Len(chan) + 1] = m BY <1>0
  <2> QED BY <2>1
<1>3. \A i \in DOMAIN chan' : chan'[i].m = "Frame" => i \in DOMAIN chan /\ chan'[i] = chan[i] BY <1>1
<1>4. \A n \in Attempts : Unread(n)' <=> Unread(n) BY DEF Unread, SameCore
<1>5. (Blank' <=> Blank) /\ (NoneWaits => NoneWaits') BY <1>3 DEF Blank, NoneWaits, OfNow, SameCore
<1>6. Owned' BY <1>0, <1>3 DEF Owned, SameStreams, NoneOpens, SameCore
<1>7. ScreenInv'
  <2>1. ASSUME NEW i \in DOMAIN chan', OfNow(chan'[i]), chan'[i].x.t = "Screen"
        PROVE  Blank' /\ \A j \in 1..(i - 1) : ~OfNow(chan'[j])
    <3>1. i \in DOMAIN chan /\ chan'[i] = chan[i] BY <1>3, <2>1 DEF OfNow
    <3>2. Blank /\ \A j \in 1..(i - 1) : ~OfNow(chan[j]) BY <1>0, <2>1, <3>1 DEF ScreenInv
    <3>3. \A j \in 1..(i - 1) : chan'[j] = chan[j] BY <1>1, <3>1
    <3> QED BY <1>5, <3>2, <3>3
  <2>2. \A i \in DOMAIN chan' : OfNow(chan[i])' <=> OfNow(chan'[i]) BY DEF OfNow, SameCore
  <2>3. \A j : OfNow(chan[j])' <=> OfNow(chan'[j]) BY DEF OfNow, SameCore
  <2>4. ASSUME NEW n \in Attempts, Unread(n)
        PROVE  /\ \A i \in DOMAIN rdr'[n].wire : rdr'[n].wire[i].t = "Screen" => i = 1 /\ Blank' /\ NoneWaits'
               /\ ~rdr'[n].served => rdr'[n].wire = <<>> /\ Blank' /\ NoneWaits'
    BY <1>0, <1>5, <2>4 DEF ScreenInv, SameStreams
  <2> QED BY <1>4, <2>1, <2>3, <2>4 DEF ScreenInv
<1>8. OrderInv'
  <2>1. \A f : Ahead(f)' <=> Ahead(f) BY DEF Ahead, AheadOf, SameCore
  <2>2. \A i \in DOMAIN chan' : Asks(chan[i])' => i \in DOMAIN chan /\ chan'[i] = chan[i] /\ Asks(chan[i])
    BY <1>3 DEF Asks, OfNow, SameCore
  <2>3. ChanOrder' BY <1>0, <2>1, <2>2 DEF OrderInv, ChanOrder
  <2>4. ASSUME NEW n \in Attempts, n = core.attempt PROVE WireOrder(rdr[n].wire)'
    <3>1. WireOrder(rdr[n].wire) /\ rdr'[n].wire = rdr[n].wire
      BY <1>0, <2>4 DEF OrderInv, Unread, SameStreams
    <3> QED BY <2>1, <2>2, <3>1 DEF WireOrder
  <2> QED BY <2>3, <2>4 DEF OrderInv, Unread, SameCore
<1>9. ToldInv'
  <2>1. \A x, y : Opened(x, y)' <=> Opened(x, y) BY DEF Opened, SameCore
  <2>2. \A i \in DOMAIN chan' : chan'[i].m = "Paste" => Opened(chan'[i].x.read, chan'[i].x.req)
    BY <1>0, <1>1 DEF ToldInv
  <2> QED BY <1>0, <2>1, <2>2 DEF ToldInv
<1>10. AnswerInv' BY <1>0 DEF AnswerInv, SameCore
<1> QED BY <1>1, <1>2, <1>6, <1>7, <1>8, <1>9, <1>10

(* The actor lets go of its channel. *)
LEMMA LineEnds ==
  ASSUME HandleInv, chan' = <<>>, SameStreams, NoneOpens, SameCore, UNCHANGED prog,
         api'.told = api.told
  PROVE  (Owned /\ ScreenInv /\ OrderInv /\ ToldInv /\ AnswerInv)'
<1>0. Owned /\ ScreenInv /\ OrderInv /\ ToldInv /\ AnswerInv BY DEF HandleInv
<1>c. DOMAIN chan' = {} OBVIOUS
<1>1. \A n \in Attempts : Unread(n)' <=> Unread(n) BY DEF Unread, SameCore
<1>2. (Blank' <=> Blank) /\ NoneWaits' BY <1>c DEF Blank, NoneWaits, SameCore
<1>3. Owned' BY <1>0, <1>c DEF Owned, SameStreams, NoneOpens, SameCore
<1>4. ScreenInv' BY <1>0, <1>1, <1>2, <1>c DEF ScreenInv, SameStreams
<1>5. OrderInv'
  <2>1. \A f : Ahead(f)' <=> Ahead(f) BY DEF Ahead, AheadOf, SameCore
  <2>2. ChanOrder' BY <1>c DEF ChanOrder
  <2>3. ASSUME NEW n \in Attempts, n = core.attempt PROVE WireOrder(rdr[n].wire)'
    <3>1. WireOrder(rdr[n].wire) BY <1>0, <2>3 DEF OrderInv, Unread
    <3> QED BY <1>c, <2>1, <3>1 DEF WireOrder, SameStreams
  <2> QED BY <2>2, <2>3 DEF OrderInv, Unread, SameCore
<1>6. ToldInv' BY <1>0, <1>c DEF ToldInv, Opened, SameCore
<1>7. AnswerInv' BY <1>0 DEF AnswerInv, SameCore
<1> QED BY <1>3, <1>4, <1>5, <1>6, <1>7

(* What the actor keeps fits as before. *)
LEMMA FitsSame ==
  ASSUME Fits(core, st), core' \in CoreRecord, st' \in StateRecord, SameCore,
         core'.pmode <=> core.pmode, core'.screen = core.screen,
         st'.rev = st.rev, st'.attempt = st.attempt, st'.ready <=> st.ready,
         st'.exited <=> st.exited, st'.cache = st.cache
  PROVE  Fits(core, st)'
BY DEF Fits, SameCore

LEMMA Unmoved == ASSUME UNCHANGED rdr, HandleInv PROVE SameStreams /\ NoneOpens
BY DEF SameStreams, NoneOpens, HandleInv, Owned

LEMMA CallKeeps ==
  ASSUME HandleInv, NEW m \in HandleMsg, m.m # "Frame", m.m = "Paste" => Opened(m.x.read, m.x.req),
         Calls(m)
  PROVE  HandleInv'
<1>0. HandleTypes /\ Fits(core, st) /\ Replied /\ Observed /\ api \in ApiRecord
  BY DEF HandleInv, HandleTypes
<1>1. api' = [api EXCEPT !.calls = @ + 1] /\ chan' = Append(chan, m) /\ UNCHANGED <<core, st, pub, rdr, prog>>
  BY DEF Calls, Send
<1>2. api' \in ApiRecord /\ api'.told = api.told /\ api'.reply = api.reply
  <2> DEFINE n == api.calls + 1
  <2>1. n \in Nat /\ api' = [api EXCEPT !.calls = n] BY <1>0, <1>1 DEF ApiRecord
  <2> HIDE DEF n
  <2> QED BY <1>0, <2>1 DEF ApiRecord
<1>3. SameStreams /\ NoneOpens /\ SameCore BY <1>1, Unmoved DEF SameCore
<1>4. /\ (Owned /\ ScreenInv /\ OrderInv /\ ToldInv /\ AnswerInv)' /\ chan' \in Seq(HandleMsg)
      /\ \A i \in DOMAIN chan : i \in DOMAIN chan' /\ chan'[i] = chan[i] BY <1>1, <1>2, <1>3, AppendPlain
<1>5. HandleTypes' BY <1>0, <1>1, <1>2, <1>4 DEF HandleTypes
<1>6. Fits(core, st)' /\ Replied' BY <1>0, <1>1, <1>2 DEF Replied
<1>7. Observed' BY <1>0, <1>1, <1>4 DEF Observed
<1> QED BY <1>4, <1>5, <1>6, <1>7 DEF HandleInv

LEMMA PlainMsg ==
  ASSUME NEW k \in PlainKinds, NEW n \in Nat
  PROVE  Msg(k, n, "none") \in HandleMsg /\ Msg(k, n, "none").m = k
BY DEF Msg, HandleMsg

LEMMA CallsKeep == ASSUME HandleInv, Call PROVE HandleInv'
<1>1. ASSUME NEW k \in PlainKinds, Calls(Msg(k, 0, "none")) PROVE HandleInv'
  <2>1. 0 \in Nat /\ k \notin {"Frame", "Paste"} BY DEF PlainKinds
  <2>2. Msg(k, 0, "none") \in HandleMsg /\ Msg(k, 0, "none").m = k BY <2>1, PlainMsg
  <2> QED BY <1>1, <2>1, <2>2, CallKeeps
<1>2. {"Publish", "CaptureFrame", "Close", "Reconnect"} \subseteq PlainKinds BY DEF PlainKinds
<1> QED BY <1>1, <1>2 DEF Call

LEMMA AnswerKeeps == ASSUME HandleInv, AnswerPaste PROVE HandleInv'
<1>1. PICK r \in api.told, p \in PastePackets :
        Calls(Msg("Paste", r[1], [read |-> r[2], req |-> r[3], packet |-> p]))
  BY DEF AnswerPaste, PastePackets
<1> DEFINE x == [read |-> r[2], req |-> r[3], packet |-> p]
           m == Msg("Paste", r[1], x)
<1>2. r \in Nat \X Nat \X Nat /\ Opened(r[2], r[3]) BY DEF HandleInv, HandleTypes, ApiRecord, ToldInv
<1>3. x \in PasteAnswer /\ x.read = r[2] /\ x.req = r[3] /\ r[1] \in Nat BY <1>2 DEF PasteAnswer
<1> HIDE DEF x
<1>4. m \in HandleMsg /\ m.m = "Paste" /\ m.x = x BY <1>3 DEF Msg, HandleMsg
<1>5. Calls(m) BY <1>1 DEF x
<1> HIDE DEF m
<1> QED BY <1>2, <1>3, <1>4, <1>5, CallKeeps

LEMMA SnapshotKeeps == ASSUME HandleInv, SnapshotAsks \/ SnapshotCaches PROVE HandleInv'
<1>0. HandleTypes /\ Fits(core, st) /\ Replied /\ Observed /\ api \in ApiRecord /\ SameStreams /\ NoneOpens
      /\ SameCore /\ UNCHANGED <<core, pub, rdr, prog>> /\ st \in StateRecord /\ st.rev \in Nat
  BY Unmoved DEF HandleInv, HandleTypes, SnapshotAsks, SnapshotCaches, SameCore, Fits, StateRecord
<1>1. CASE SnapshotAsks
  <2> DEFINE m == Msg("Snapshot", 0, "none")
  <2>1. api' = [api EXCEPT !.snap = "asked", !.calls = @ + 1] /\ chan' = Append(chan, m) /\ UNCHANGED st
    BY <1>1 DEF SnapshotAsks, Send
  <2>2. api' \in ApiRecord /\ api'.told = api.told /\ api'.reply = api.reply
    <3> DEFINE n == api.calls + 1
    <3>1. n \in Nat /\ api' = [api EXCEPT !.snap = "asked", !.calls = n] BY <1>0, <2>1 DEF ApiRecord
    <3> HIDE DEF n
    <3> QED BY <1>0, <3>1 DEF ApiRecord
  <2>3. m \in HandleMsg /\ m.m = "Snapshot" BY PlainMsg DEF PlainKinds
  <2> HIDE DEF m
  <2>4. /\ (Owned /\ ScreenInv /\ OrderInv /\ ToldInv /\ AnswerInv)' /\ chan' \in Seq(HandleMsg)
        /\ \A i \in DOMAIN chan : i \in DOMAIN chan' /\ chan'[i] = chan[i]
    BY <1>0, <2>1, <2>2, <2>3, AppendPlain
  <2>5. HandleTypes' BY <1>0, <2>1, <2>2, <2>4 DEF HandleTypes
  <2>6. Fits(core, st)' /\ Replied' BY <1>0, <2>1, <2>2 DEF Replied
  <2>7. Observed' BY <1>0, <2>1, <2>4 DEF Observed
  <2> QED BY <2>4, <2>5, <2>6, <2>7 DEF HandleInv
<1>2. CASE SnapshotCaches
  <2> DEFINE e == <<0, <<0, 0>>>>
  <2>1. api' = [api EXCEPT !.snap = "idle", !.reply = e] /\ chan' = chan /\ st' = Caches(st, api.reply)
    BY <1>2 DEF SnapshotCaches
  <2>2. e \in Snapshots /\ e[1] = 0 /\ api.reply \in Snapshots BY <1>0 DEF Snapshots, ApiRecord
  <2> HIDE DEF e
  <2>3. api' \in ApiRecord /\ api'.told = api.told /\ api'.reply = e BY <1>0, <2>1, <2>2 DEF ApiRecord
  <2>4. st' = st \/ (st.rev = api.reply[1] /\ st' = [st EXCEPT !.cache = api.reply]) BY <2>1 DEF Caches
  <2>5. /\ st' \in StateRecord /\ st'.rev = st.rev /\ st'.attempt = st.attempt /\ (st'.ready <=> st.ready)
        /\ (st'.exited <=> st.exited)
        /\ (st'.cache = st.cache \/ (st'.cache = api.reply /\ st.rev = api.reply[1]))
    BY <1>0, <2>2, <2>4 DEF StateRecord
  <2>6. Fits(core, st)' BY <1>0, <2>5 DEF Fits, Replied
  <2>7. Replied' BY <1>0, <2>2, <2>3, <2>5 DEF Replied, Fits
  <2>8. HandleTypes' /\ Observed' BY <1>0, <2>1, <2>3, <2>5 DEF HandleTypes, Observed
  <2>9. (Owned /\ ScreenInv /\ OrderInv /\ ToldInv /\ AnswerInv)' BY <1>0, <2>1, <2>3, LineStays
  <2> QED BY <2>6, <2>7, <2>8, <2>9 DEF HandleInv
<1> QED BY <1>1, <1>2

LEMMA ObserversKeep == ASSUME HandleInv, ObserveFrames \/ DropObserver PROVE HandleInv'
<1>0. HandleTypes /\ Fits(core, st) /\ Replied /\ Observed /\ api \in ApiRecord /\ SameStreams /\ NoneOpens
      /\ SameCore /\ UNCHANGED <<core, st, rdr, prog>> /\ pub \in [frame : Nat, observers : Nat]
  BY Unmoved DEF HandleInv, HandleTypes, ObserveFrames, DropObserver, SameCore
<1>1. CASE ObserveFrames
  <2> DEFINE m == Msg("ObserveFrames", 0, "none")
  <2>1. api' = [api EXCEPT !.calls = @ + 1] /\ pub' = [pub EXCEPT !.observers = @ + 1]
        /\ (IF pub.observers = 0 THEN chan' = Append(chan, m) ELSE chan' = chan)
    BY <1>1 DEF ObserveFrames, Send, Wakes
  <2>2. api' \in ApiRecord /\ api'.told = api.told /\ api'.reply = api.reply
    <3> DEFINE n == api.calls + 1
    <3>1. n \in Nat /\ api' = [api EXCEPT !.calls = n] BY <1>0, <2>1 DEF ApiRecord
    <3> HIDE DEF n
    <3> QED BY <1>0, <3>1 DEF ApiRecord
  <2>3. m \in HandleMsg /\ m.m = "ObserveFrames" BY PlainMsg DEF PlainKinds
  <2> HIDE DEF m
  <2>4. pub' \in [frame : Nat, observers : Nat] /\ pub'.frame = pub.frame
    <3> DEFINE n == pub.observers + 1
    <3>1. n \in Nat /\ pub' = [pub EXCEPT !.observers = n] BY <1>0, <2>1
    <3> HIDE DEF n
    <3> QED BY <1>0, <3>1
  <2>5. Fits(core, st)' /\ Replied' BY <1>0, <2>2 DEF Replied
  <2>6. CASE pub.observers = 0
    <3>1. chan' = Append(chan, m) BY <2>1, <2>6
    <3>2. /\ (Owned /\ ScreenInv /\ OrderInv /\ ToldInv /\ AnswerInv)' /\ chan' \in Seq(HandleMsg)
          /\ \E i \in DOMAIN chan' : chan'[i] = m BY <1>0, <2>2, <2>3, <3>1, AppendPlain
    <3>3. HandleTypes' BY <1>0, <2>2, <2>4, <3>2 DEF HandleTypes
    <3>4. Observed' BY <1>0, <2>3, <3>2 DEF Observed
    <3> QED BY <2>5, <3>2, <3>3, <3>4 DEF HandleInv
  <2>7. CASE pub.observers # 0
    <3>1. chan' = chan /\ pub.observers > 0 BY <1>0, <2>1, <2>7
    <3>2. (Owned /\ ScreenInv /\ OrderInv /\ ToldInv /\ AnswerInv)' BY <1>0, <2>2, <3>1, LineStays
    <3>3. HandleTypes' BY <1>0, <2>2, <2>4, <3>1 DEF HandleTypes
    <3>4. Observed' BY <1>0, <2>4, <3>1 DEF Observed
    <3> QED BY <2>5, <3>2, <3>3, <3>4 DEF HandleInv
  <2> QED BY <2>6, <2>7
<1>2. CASE DropObserver
  <2>1. pub' = [pub EXCEPT !.observers = @ - 1] /\ UNCHANGED <<chan, api>> /\ pub.observers > 0
    BY <1>2 DEF DropObserver
  <2>2. pub' \in [frame : Nat, observers : Nat] /\ pub'.frame = pub.frame
    <3> DEFINE n == pub.observers - 1
    <3>1. n \in Nat /\ pub' = [pub EXCEPT !.observers = n] BY <1>0, <2>1
    <3> HIDE DEF n
    <3> QED BY <1>0, <3>1
  <2>3. (Owned /\ ScreenInv /\ OrderInv /\ ToldInv /\ AnswerInv)' BY <1>0, <2>1, LineStays
  <2>4. HandleTypes' /\ Fits(core, st)' /\ Replied' BY <1>0, <2>1, <2>2 DEF HandleTypes, Replied
  <2>5. Observed' BY <1>0, <2>1, <2>2 DEF Observed
  <2> QED BY <2>3, <2>4, <2>5 DEF HandleInv
<1> QED BY <1>1, <1>2

LEMMA FlushKeeps == ASSUME HandleInv, FlushFrame PROVE HandleInv'
<1>0. HandleTypes /\ Fits(core, st) /\ Replied /\ Observed /\ SameStreams /\ NoneOpens
      /\ UNCHANGED <<st, chan, rdr, prog, api>> /\ pub \in [frame : Nat, observers : Nat]
      /\ core \in CoreRecord /\ st.rev \in Nat /\ core.pc = "busy" /\ st \in StateRecord
  BY Unmoved DEF HandleInv, HandleTypes, FlushFrame, Fits, StateRecord
<1>1. \/ core.dirty /\ pub.observers > 0 /\ core' = [core EXCEPT !.dirty = FALSE]
      \/ chan = <<>> /\ core' = [core EXCEPT !.dirty = FALSE, !.pc = "recv"] BY DEF FlushFrame
<1>2. /\ core' \in CoreRecord /\ core'.attempt = core.attempt /\ core'.backend = core.backend
      /\ (core'.mode <=> core.mode) /\ core'.paste = core.paste /\ core'.reads = core.reads
      /\ ~core'.dirty /\ core'.screen = core.screen /\ (core'.pmode <=> core.pmode)
  BY ZenonT(60), <1>0, <1>1 DEF CoreRecord
<1>3. pub' = IF core.dirty /\ pub.observers > 0 THEN [pub EXCEPT !.frame = st.rev] ELSE pub
  BY DEF FlushFrame
<1>4. pub' \in [frame : Nat, observers : Nat] /\ pub'.observers = pub.observers
      /\ pub'.frame = IF core.dirty /\ pub.observers > 0 THEN st.rev ELSE pub.frame BY <1>0, <1>3
<1>5. SameCore BY <1>2 DEF SameCore
<1>6. (Owned /\ ScreenInv /\ OrderInv /\ ToldInv /\ AnswerInv)' BY <1>0, <1>5, LineStays
<1>7. Fits(core, st)' BY <1>0, <1>2, <1>5, FitsSame
<1>8. HandleTypes' /\ Replied' BY <1>0, <1>2, <1>4 DEF HandleTypes, Replied
<1>9. Observed'
  <2>1. core.dirty \/ chan = <<>> BY <1>1
  <2>2. chan = <<>> => DOMAIN chan = {} OBVIOUS
  <2> QED BY <1>0, <1>2, <1>4, <2>1, <2>2 DEF Observed
<1> QED BY <1>6, <1>7, <1>8, <1>9 DEF HandleInv

LEMMA ConnectKeeps == ASSUME HandleInv, ConnectAndAttach PROVE HandleInv'
<1>0. HandleTypes /\ Fits(core, st) /\ Replied /\ Observed /\ Owned
      /\ UNCHANGED <<pub, chan, prog, api>> /\ core \in CoreRecord /\ st \in StateRecord
      /\ rdr \in [Attempts -> ReaderRecord] /\ core.pc = "connecting"
  BY SMTT(60) DEF HandleInv, HandleTypes, ConnectAndAttach, Fits
<1>1. PICK ok \in BOOLEAN :
        /\ core' = [core EXCEPT !.pc = "busy", !.stream = ok]
        /\ st' = [st EXCEPT !.connecting = FALSE, !.connected = ok]
        /\ rdr' = [rdr EXCEPT ![core.attempt].live = ok, ![core.attempt].open = ok]
  BY DEF ConnectAndAttach
<1>2. /\ core' \in CoreRecord /\ core'.attempt = core.attempt /\ core'.backend = core.backend
      /\ (core'.mode <=> core.mode) /\ core'.paste = core.paste /\ core'.reads = core.reads
      /\ (core'.dirty <=> core.dirty) /\ core'.screen = core.screen /\ (core'.pmode <=> core.pmode)
      /\ core'.pc = "busy" BY <1>0, <1>1 DEF CoreRecord
<1>3. /\ st' \in StateRecord /\ st'.rev = st.rev /\ st'.attempt = st.attempt /\ (st'.ready <=> st.ready)
      /\ (st'.exited <=> st.exited) /\ st'.cache = st.cache BY <1>0, <1>1 DEF StateRecord
<1>4. /\ rdr' \in [Attempts -> ReaderRecord]
      /\ \A n \in Attempts : /\ rdr'[n].wire = rdr[n].wire /\ (rdr'[n].served <=> rdr[n].served)
                             /\ n # core.attempt => rdr'[n] = rdr[n]
  <2>1. rdr' = [n \in Attempts |-> IF n = core.attempt
                                   THEN [rdr[n] EXCEPT !.live = ok, !.open = ok] ELSE rdr[n]]
    BY <1>0, <1>1
  <2>2. \A n \in Attempts :
          /\ [rdr[n] EXCEPT !.live = ok, !.open = ok] \in ReaderRecord
          /\ [rdr[n] EXCEPT !.live = ok, !.open = ok].wire = rdr[n].wire
          /\ [rdr[n] EXCEPT !.live = ok, !.open = ok].served <=> rdr[n].served BY <1>0 DEF ReaderRecord
  <2> QED BY <1>0, <2>1, <2>2
<1>5. SameCore /\ SameStreams /\ NoneOpens
  BY <1>0, <1>2, <1>4 DEF SameCore, SameStreams, NoneOpens, Owned
<1>6. (Owned /\ ScreenInv /\ OrderInv /\ ToldInv /\ AnswerInv)' BY <1>0, <1>5, LineStays
<1>7. Fits(core, st)' BY <1>0, <1>2, <1>3, <1>5, FitsSame
<1>8. HandleTypes' /\ Replied' BY <1>0, <1>2, <1>3, <1>4 DEF HandleTypes, Replied
<1>9. Observed' BY <1>0, <1>2, <1>3 DEF Observed
<1> QED BY <1>6, <1>7, <1>8, <1>9 DEF HandleInv

LEMMA ShutdownKeeps == ASSUME HandleInv, Shutdown PROVE HandleInv'
<1>0. HandleTypes /\ Fits(core, st) /\ Replied /\ Observed /\ Owned
      /\ UNCHANGED prog /\ core \in CoreRecord /\ st \in StateRecord /\ api \in ApiRecord
      /\ rdr \in [Attempts -> ReaderRecord] /\ pub \in [frame : Nat, observers : Nat] /\ st.rev \in Nat
  BY DEF HandleInv, HandleTypes, Shutdown, Fits, StateRecord
<1>1. /\ core' = [core EXCEPT !.pc = "closed", !.stream = FALSE, !.dirty = FALSE]
      /\ st' = [st EXCEPT !.closed = TRUE, !.connected = FALSE]
      /\ pub' = IF core.dirty /\ pub.observers > 0 THEN [pub EXCEPT !.frame = st.rev] ELSE pub
      /\ rdr' = [n \in Attempts |-> [rdr[n] EXCEPT !.open = FALSE]]
      /\ api' = [api EXCEPT !.snap = "idle"] /\ chan' = <<>> BY DEF Shutdown
<1>2. /\ core' \in CoreRecord /\ core'.attempt = core.attempt /\ core'.backend = core.backend
      /\ (core'.mode <=> core.mode) /\ core'.paste = core.paste /\ core'.reads = core.reads
      /\ core'.screen = core.screen /\ (core'.pmode <=> core.pmode) /\ core'.pc = "closed"
  BY <1>0, <1>1 DEF CoreRecord
<1>3. /\ st' \in StateRecord /\ st'.rev = st.rev /\ st'.attempt = st.attempt /\ (st'.ready <=> st.ready)
      /\ (st'.exited <=> st.exited) /\ st'.cache = st.cache BY <1>0, <1>1 DEF StateRecord
<1>4. /\ rdr' \in [Attempts -> ReaderRecord]
      /\ \A n \in Attempts : /\ rdr'[n].wire = rdr[n].wire /\ (rdr'[n].served <=> rdr[n].served)
                             /\ ~rdr'[n].open
  <2>1. \A n \in Attempts :
          /\ [rdr[n] EXCEPT !.open = FALSE] \in ReaderRecord
          /\ [rdr[n] EXCEPT !.open = FALSE].wire = rdr[n].wire
          /\ [rdr[n] EXCEPT !.open = FALSE].served <=> rdr[n].served
          /\ ~[rdr[n] EXCEPT !.open = FALSE].open BY <1>0 DEF ReaderRecord
  <2> QED BY <1>1, <2>1
<1>5. SameCore /\ SameStreams /\ NoneOpens BY <1>0, <1>2, <1>4 DEF SameCore, SameStreams, NoneOpens
<1>6. api' \in ApiRecord /\ api'.told = api.told /\ api'.reply = api.reply BY <1>0, <1>1 DEF ApiRecord
<1>7. (Owned /\ ScreenInv /\ OrderInv /\ ToldInv /\ AnswerInv)' BY <1>0, <1>1, <1>5, <1>6, LineEnds
<1>8. Fits(core, st)' BY <1>0, <1>2, <1>3, <1>5, FitsSame
<1>9. pub' \in [frame : Nat, observers : Nat] BY <1>0, <1>1
<1>10. chan' \in Seq(HandleMsg) BY <1>1
<1>11. HandleTypes' /\ Replied' /\ Observed'
  BY <1>0, <1>2, <1>3, <1>4, <1>6, <1>9, <1>10 DEF HandleTypes, Replied, Observed
<1> QED BY <1>7, <1>8, <1>11 DEF HandleInv

(* A new attempt: nothing of it is under way, and the read of the old one *)
(* is over. *)
LEMMA ReconnectKeeps == ASSUME HandleInv, Reconnect PROVE HandleInv'
<1>0. HandleTypes /\ Fits(core, st) /\ Replied /\ Observed /\ Owned /\ ToldInv /\ AnswerInv
      /\ UNCHANGED <<pub, prog, api>> /\ core \in CoreRecord /\ st \in StateRecord /\ chan # <<>>
      /\ rdr \in [Attempts -> ReaderRecord] /\ core.attempt \in Nat /\ core.backend = "attach"
      /\ Head(chan).m = "Reconnect" /\ st.rev \in Nat /\ core.pc # "closed"
  BY DEF HandleInv, HandleTypes, Reconnect, Fits, CoreRecord, StateRecord
<1> DEFINE c == [core EXCEPT !.stream = FALSE]
           r == EndAndPublish(c, st)
           n1 == core.attempt + 1
<1>1. /\ core' = [r.core EXCEPT !.attempt = @ + 1, !.pc = "connecting"]
      /\ st' = [r.st EXCEPT !.ready = FALSE, !.connected = FALSE, !.connecting = TRUE,
                            !.exited = FALSE, !.attempt = n1]
      /\ chan' = Tail(chan) /\ rdr' = [rdr EXCEPT ![core.attempt].open = FALSE] BY DEF Reconnect
<1>2. /\ c \in CoreRecord /\ c.backend = core.backend /\ c.attempt = core.attempt /\ ~c.stream
      /\ c.screen = core.screen /\ (c.mode <=> core.mode) /\ (c.pmode <=> core.pmode)
      /\ c.paste = core.paste /\ c.reads = core.reads /\ (c.dirty <=> core.dirty) BY <1>0 DEF CoreRecord
<1>r. r = EndAndPublish(c, st) OBVIOUS
<1> HIDE DEF c, r
<1>3. Fits(c, st) BY <1>0, <1>2 DEF Fits
<1>4. /\ Result(c, st, r) /\ Lets(c, r) /\ ~r.core.mode /\ r.core.paste.open = 0
      /\ r.core.paste.req = 0 /\ r.core.screen = c.screen BY <1>3, <1>r, EndAndPublishFacts
<1>5. r.core \in CoreRecord /\ r.st \in StateRecord /\ r.core.attempt = core.attempt /\ n1 \in Nat
  BY <1>0, <1>2, <1>4 DEF Result, Fits, Advances
<1>6. /\ core' \in CoreRecord /\ core'.attempt = n1 /\ core'.backend = r.core.backend
      /\ (core'.mode <=> r.core.mode) /\ (core'.pmode <=> r.core.pmode) /\ core'.paste = r.core.paste
      /\ core'.reads = r.core.reads /\ core'.screen = r.core.screen /\ (core'.dirty <=> r.core.dirty)
      /\ core'.pc = "connecting"
  <2>1. core' = [r.core EXCEPT !.attempt = n1, !.pc = "connecting"] BY <1>1, <1>5
  <2> HIDE DEF n1
  <2> QED BY <1>5, <2>1 DEF CoreRecord
<1>7. /\ st' \in StateRecord /\ st'.rev = r.st.rev /\ st'.attempt = n1 /\ ~st'.ready
      /\ st'.cache = r.st.cache
  <2> HIDE DEF n1
  <2> QED BY <1>1, <1>5 DEF StateRecord
<1>8. /\ rdr' \in [Attempts -> ReaderRecord]
      /\ \A n \in Attempts : /\ rdr'[n].wire = rdr[n].wire /\ (rdr'[n].served <=> rdr[n].served)
                             /\ ~rdr'[n].open
  <2>1. rdr' = [n \in Attempts |-> IF n = core.attempt
                                   THEN [rdr[n] EXCEPT !.open = FALSE] ELSE rdr[n]] BY <1>0, <1>1
  <2>2. \A n \in Attempts :
          /\ [rdr[n] EXCEPT !.open = FALSE] \in ReaderRecord
          /\ [rdr[n] EXCEPT !.open = FALSE].wire = rdr[n].wire
          /\ [rdr[n] EXCEPT !.open = FALSE].served <=> rdr[n].served
          /\ ~[rdr[n] EXCEPT !.open = FALSE].open BY <1>0 DEF ReaderRecord
  <2>3. \A n \in Attempts : n # core.attempt => ~rdr[n].open BY <1>0 DEF Owned
  <2> QED BY <1>0, <2>1, <2>2, <2>3
<1>9. /\ chan' \in Seq(HandleMsg) /\ chan[1].m = "Reconnect" /\ 1 \in DOMAIN chan
      /\ \A i \in DOMAIN chan' : i + 1 \in DOMAIN chan /\ chan'[i] = chan[i + 1]
      /\ \A i \in DOMAIN chan : i # 1 => i - 1 \in DOMAIN chan' /\ chan'[i - 1] = chan[i]
  <2>1. /\ Tail(chan) \in Seq(HandleMsg) /\ Head(chan) = chan[1] /\ 1 \in DOMAIN chan
        /\ Len(chan) \in Nat /\ DOMAIN chan = 1..Len(chan)
        /\ DOMAIN Tail(chan) = 1..(Len(chan) - 1)
        /\ \A i \in DOMAIN Tail(chan) : i + 1 \in DOMAIN chan /\ Tail(chan)[i] = chan[i + 1]
    BY <1>0, ChanFacts
  <2>2. \A i \in DOMAIN chan : i # 1 => i - 1 \in DOMAIN Tail(chan) /\ (i - 1) + 1 = i BY <2>1
  <2> QED BY <1>0, <1>1, <2>1, <2>2
<1>10. Fits(core, st)'
  <2>1. Fits(r.core, r.st) /\ r.core.backend = "attach" BY <1>0, <1>2, <1>4 DEF Result, Advances
  <2> QED BY <1>4, <1>6, <1>7, <2>1 DEF Fits
<1>11. HandleTypes' BY <1>0, <1>8, <1>9 DEF HandleTypes
<1>12. Advances(c, st, r.core, r.st) BY <1>4 DEF Result
<1>13. Replied'
  <2>1. api.reply[1] \in Nat BY <1>0 DEF HandleTypes, ApiRecord, Snapshots
  <2>2. st'.rev \in {st.rev, st.rev + 1} /\ (st'.rev = st.rev => core'.screen = core.screen)
    BY <1>0, <1>2, <1>6, <1>7, <1>12, <1>4 DEF Advances
  <2> QED BY <1>0, <2>1, <2>2 DEF Replied
<1>14. Observed'
  <2>1. (st'.rev = st.rev /\ (core.dirty => core'.dirty)) \/ core'.dirty
    BY <1>2, <1>6, <1>7, <1>12 DEF Advances
  <2>2. \A i \in DOMAIN chan : chan[i].m = "ObserveFrames" => i # 1 BY <1>9
  <2>3. (\E i \in DOMAIN chan : chan[i].m = "ObserveFrames")
          => \E i \in DOMAIN chan' : chan'[i].m = "ObserveFrames" BY <1>9, <2>2
  <2> QED BY <1>0, <1>6, <2>1, <2>3 DEF Observed
<1>15. \A i \in DOMAIN chan' : ~OfNow(chan[i])'
  <2>1. \A i \in DOMAIN chan' : chan'[i].m = "Frame" => chan'[i].n <= core.attempt /\ chan'[i].n \in Nat
    <3>1. \A i \in DOMAIN chan : chan[i] \in HandleMsg BY <1>0 DEF HandleTypes
    <3>2. \A i \in DOMAIN chan : chan[i].n \in Nat BY <3>1 DEF HandleMsg
    <3> QED BY <1>0, <1>9, <3>2 DEF Owned
  <2> QED BY <1>0, <1>6, <2>1 DEF OfNow
<1>16. Blank' /\ NoneWaits' BY <1>4, <1>6, <1>15 DEF Blank, NoneWaits
<1>17. \A n \in Attempts : Unread(n)' => rdr'[n].wire = <<>> /\ ~rdr'[n].served
  <2>1. \A n \in Attempts : n = n1 => n > core.attempt BY <1>0
  <2> QED BY <1>0, <1>6, <1>8, <2>1 DEF Unread, Owned
<1>18. Owned'
  <2>1. \A i \in DOMAIN chan' : chan'[i].m = "Frame" => chan'[i].n <= core'.attempt
    <3>1. \A i \in DOMAIN chan : chan[i] \in HandleMsg BY <1>0 DEF HandleTypes
    <3>2. \A i \in DOMAIN chan : chan[i].n \in Nat BY <3>1 DEF HandleMsg
    <3>3. \A i \in DOMAIN chan : chan[i].m = "Frame" => chan[i].n <= n1 BY <1>0, <3>2 DEF Owned
    <3> QED BY <1>6, <1>9, <3>3
  <2>2. \A n \in Attempts : n > core'.attempt => n > core.attempt BY <1>0, <1>6 DEF Attempts
  <2> QED BY <1>0, <1>8, <2>1, <2>2 DEF Owned
<1>19. ScreenInv'
  <2>1. \A n \in Attempts : Unread(n)' => DOMAIN rdr'[n].wire = {} BY <1>17
  <2> QED BY <1>15, <1>16, <1>17, <2>1 DEF ScreenInv
<1>20. OrderInv'
  <2>1. \A n \in Attempts : Unread(n)' => DOMAIN rdr'[n].wire = {} BY <1>17
  <2>2. ChanOrder' BY <1>15 DEF ChanOrder, Asks
  <2> QED BY <2>1, <2>2 DEF OrderInv, WireOrder
<1>21. ToldInv'
  <2>1. core'.reads = core.reads /\ core'.paste.open = 0 BY <1>2, <1>4, <1>6 DEF Lets, Keeps
  <2>2. \A x, y : Opened(x, y) => Opened(x, y)' BY <2>1 DEF Opened
  <2>3. \A i \in DOMAIN chan' : chan'[i].m = "Paste" => Opened(chan'[i].x.read, chan'[i].x.req)
    BY <1>0, <1>9 DEF ToldInv
  <2> QED BY <1>0, <2>2, <2>3 DEF ToldInv
<1>22. AnswerInv'
  <2>1. core'.paste.open = 0 /\ core'.paste.req = 0 /\ 0 <= prog.reqs
    BY <1>0, <1>4, <1>6 DEF HandleTypes, ProgRecord
  <2> QED BY <1>0, <2>1 DEF AnswerInv
<1> QED BY <1>10, <1>11, <1>13, <1>14, <1>18, <1>19, <1>20, <1>21, <1>22 DEF HandleInv
----------------------------------------------------------------------------
(* A message is dispatched. *)

(* What the reads were, one by one: answered or open before, or asked for *)
(* by the message. *)
Known(m, v) ==
  \/ v \in {0, core.paste.req} \/ \E j \in DOMAIN prog.got : v = prog.got[j]
  \/ Asks(m) /\ v = m.x.req

LEMMA TailLine ==
  ASSUME HandleInv, chan # <<>>, NEW m, m = Head(chan), chan' = Tail(chan), UNCHANGED rdr,
         core'.attempt = core.attempt, core'.backend = core.backend, prog'.reqs = prog.reqs,
         OfNow(m) \/ (Blank => Blank'),
         Known(m, core'.paste.req), \A k \in DOMAIN prog'.got : Known(m, prog'.got[k])
  PROVE  (Owned /\ ScreenInv /\ OrderInv)'
<1>0. Owned /\ ScreenInv /\ OrderInv /\ HandleTypes /\ core \in CoreRecord BY DEF HandleInv, Fits
<1>1. /\ m = chan[1] /\ 1 \in DOMAIN chan /\ m \in HandleMsg
      /\ Len(chan) \in Nat /\ DOMAIN chan = 1..Len(chan)
      /\ DOMAIN chan' = 1..(Len(chan) - 1)
      /\ \A i \in DOMAIN chan' : i + 1 \in DOMAIN chan /\ chan'[i] = chan[i + 1] BY ChanFacts
<1>2. \A x : OfNow(x)' <=> OfNow(x) BY DEF OfNow
<1>3. \A x : Asks(x)' <=> Asks(x) BY <1>2 DEF Asks
<1>4. \A n \in Attempts : Unread(n)' <=> Unread(n) BY DEF Unread
<1>5. Owned' BY <1>0, <1>1 DEF Owned
<1>6. ScreenInv'
  <2>1. CASE OfNow(m)
    <3>1. \A i \in DOMAIN chan' : ~(OfNow(chan'[i]) /\ chan'[i].x.t = "Screen")
      <4> SUFFICES ASSUME NEW i \in DOMAIN chan', OfNow(chan'[i]), chan'[i].x.t = "Screen" PROVE FALSE
        OBVIOUS
      <4>1. i + 1 \in DOMAIN chan /\ chan'[i] = chan[i + 1] /\ 1 \in 1..((i + 1) - 1) BY <1>1
      <4> QED BY <1>0, <1>1, <2>1, <4>1 DEF ScreenInv
    <3>2. ~NoneWaits BY <1>1, <2>1 DEF NoneWaits
    <3>3. \A n \in Attempts : Unread(n) =>
            /\ \A i \in DOMAIN rdr[n].wire : rdr[n].wire[i].t # "Screen"
            /\ rdr[n].served BY <1>0, <3>2 DEF ScreenInv
    <3> QED BY <1>2, <1>4, <3>1, <3>3 DEF ScreenInv
  <2>2. CASE ~OfNow(m)
    <3>1. Blank => Blank' BY <2>2
    <3>2. NoneWaits => NoneWaits' BY <1>1, <1>2 DEF NoneWaits
    <3>3. ASSUME NEW i \in DOMAIN chan', OfNow(chan'[i]), chan'[i].x.t = "Screen"
          PROVE  Blank' /\ \A j \in 1..(i - 1) : ~OfNow(chan'[j])
      <4>1. i + 1 \in DOMAIN chan /\ chan'[i] = chan[i + 1] /\ i \in Nat /\ (i + 1) - 1 = i BY <1>1
      <4>2. Blank /\ \A j \in 1..i : ~OfNow(chan[j]) BY <1>0, <3>3, <4>1 DEF ScreenInv
      <4>3. \A j \in 1..(i - 1) : j + 1 \in 1..i /\ j \in DOMAIN chan' BY <1>1, <4>1
      <4> QED BY <1>1, <3>1, <4>2, <4>3
    <3>4. \A n \in Attempts : Unread(n) =>
            /\ \A i \in DOMAIN rdr[n].wire : rdr[n].wire[i].t = "Screen" => i = 1 /\ Blank' /\ NoneWaits'
            /\ ~rdr[n].served => rdr[n].wire = <<>> /\ Blank' /\ NoneWaits'
      BY <1>0, <3>1, <3>2 DEF ScreenInv
    <3> QED BY <1>2, <1>4, <3>3, <3>4 DEF ScreenInv
  <2> QED BY <2>1, <2>2
<1>7. ASSUME NEW f, f.req \in Nat, Ahead(f), Asks(m) => m.x.req < f.req
      PROVE  AheadOf(f, core', prog')
  <2>1. \A v : Known(m, v) => v < f.req
    <3>1. core.paste.req \in Nat /\ core.paste.req < f.req
      BY <1>0, <1>7 DEF CoreRecord, PasteRecord, Ahead, AheadOf
    <3>2. 0 < f.req BY <1>7, <3>1
    <3> QED BY <1>7, <3>1, <3>2 DEF Known, Ahead, AheadOf
  <2> QED BY <1>7, <2>1 DEF Ahead, AheadOf
<1>8. \A i \in DOMAIN chan : Asks(chan[i]) => chan[i].x.req \in Nat
  <2>1. \A i \in DOMAIN chan : chan[i] \in HandleMsg BY <1>0 DEF HandleTypes
  <2>2. \A i \in DOMAIN chan : chan[i].m = "Frame" => chan[i].x \in HandleFrame
    BY <2>1 DEF HandleMsg, PlainKinds
  <2> QED BY <2>2 DEF Asks, OfNow, HandleFrame
<1>9. ChanOrder'
  <2>1. ASSUME NEW i \in DOMAIN chan', Asks(chan'[i])
        PROVE  /\ AheadOf(chan'[i].x, core', prog')
               /\ \A j \in DOMAIN chan' : i < j /\ Asks(chan'[j]) => chan'[i].x.req < chan'[j].x.req
    <3>1. i + 1 \in DOMAIN chan /\ chan'[i] = chan[i + 1] /\ 1 < i + 1 BY <1>1
    <3>2. Ahead(chan[i + 1].x) BY <1>0, <2>1, <3>1 DEF OrderInv, ChanOrder
    <3>3. Asks(m) => m.x.req < chan[i + 1].x.req BY <1>0, <1>1, <2>1, <3>1 DEF OrderInv, ChanOrder
    <3>4. chan[i + 1].x.req \in Nat BY <1>8, <2>1, <3>1
    <3>5. AheadOf(chan[i + 1].x, core', prog') BY <1>7, <3>2, <3>3, <3>4
    <3>6. ASSUME NEW j \in DOMAIN chan', i < j, Asks(chan'[j]) PROVE chan'[i].x.req < chan'[j].x.req
      <4>1. j + 1 \in DOMAIN chan /\ chan'[j] = chan[j + 1] /\ i + 1 < j + 1 BY <1>1, <3>6
      <4> QED BY <1>0, <2>1, <3>1, <3>6, <4>1 DEF OrderInv, ChanOrder
    <3> QED BY <3>1, <3>5, <3>6
  <2> QED BY <1>3, <2>1 DEF ChanOrder, Ahead
<1>10. ASSUME NEW n \in Attempts, n = core.attempt PROVE WireOrder(rdr[n].wire)'
  <2> DEFINE w == rdr[n].wire
  <2>0. WireOrder(w) /\ rdr'[n].wire = w BY <1>0, <1>10 DEF OrderInv, Unread
  <2>1. w \in Seq(HandleFrame) BY <1>0 DEF HandleTypes, ReaderRecord
  <2> HIDE DEF w
  <2>2. \A i \in DOMAIN w : w[i].req \in Nat BY <2>1 DEF HandleFrame
  <2>3. ASSUME NEW i \in DOMAIN w, w[i].ev = "read"
        PROVE  /\ AheadOf(w[i], core', prog')
               /\ \A j \in DOMAIN w : i < j /\ w[j].ev = "read" => w[i].req < w[j].req
               /\ \A j \in DOMAIN chan' : Asks(chan'[j]) => chan'[j].x.req < w[i].req
    <3>1. /\ Ahead(w[i])
          /\ \A j \in DOMAIN w : i < j /\ w[j].ev = "read" => w[i].req < w[j].req
          /\ \A j \in DOMAIN chan : Asks(chan[j]) => chan[j].x.req < w[i].req BY <2>0, <2>3 DEF WireOrder
    <3>2. Asks(m) => m.x.req < w[i].req BY <1>1, <3>1
    <3>3. AheadOf(w[i], core', prog') BY <1>7, <2>2, <3>1, <3>2
    <3>4. \A j \in DOMAIN chan' : Asks(chan'[j]) => chan'[j].x.req < w[i].req BY <1>1, <3>1
    <3> QED BY <3>1, <3>3, <3>4
  <2> QED BY <1>3, <2>0, <2>3 DEF WireOrder, Ahead
<1> QED BY <1>5, <1>6, <1>9, <1>10 DEF OrderInv, Unread

LEMMA GotFacts ==
  ASSUME prog \in ProgRecord, NEW v \in Nat, prog'.got = Append(prog.got, v)
  PROVE  /\ \A k \in DOMAIN prog'.got : \/ k \in DOMAIN prog.got /\ prog'.got[k] = prog.got[k]
                                        \/ k = Len(prog.got) + 1 /\ prog'.got[k] = v
<1>1. prog.got \in Seq(Nat) BY DEF ProgRecord
<1> DEFINE g == prog.got
<1>2. g \in Seq(Nat) /\ prog'.got = Append(g, v) BY <1>1
<1> HIDE DEF g
<1>3. \A k \in DOMAIN Append(g, v) : (k \in DOMAIN g /\ Append(g, v)[k] = g[k])
                                     \/ (k = Len(g) + 1 /\ Append(g, v)[k] = v) BY <1>2
<1> QED BY <1>2, <1>3 DEF g

LEMMA DispatchKeeps == ASSUME HandleInv, Dispatches PROVE HandleInv'
<1> DEFINE m == Head(chan)
           r == Handles(m)
<1>0. HandleTypes /\ Fits(core, st) /\ Replied /\ Observed /\ Owned /\ OrderInv /\ ToldInv /\ AnswerInv
      /\ core \in CoreRecord /\ st \in StateRecord /\ chan # <<>> /\ UNCHANGED rdr
      /\ st.rev \in Nat /\ prog \in ProgRecord /\ api \in ApiRecord
      /\ pub \in [frame : Nat, observers : Nat] /\ core.pc # "closed" /\ core.reads \in Nat
      /\ core.screen \in Nat \X Nat
  BY DEF HandleInv, HandleTypes, Dispatches, Fits, CoreRecord, StateRecord
<1>1. /\ m.m \notin {"Reconnect", "Close"} /\ core' = [r.core EXCEPT !.pc = "busy"] /\ st' = r.st
      /\ api' = IF m.m = "Snapshot"
                THEN [api EXCEPT !.snap = "reply", !.reply = <<st.rev, core.screen>>]
                ELSE [api EXCEPT !.told = @ \union r.told]
      /\ Input(r.core, r.in)
      /\ pub' = IF m.m = "CaptureFrame" THEN [pub EXCEPT !.frame = st.rev] ELSE pub
      /\ chan' = Tail(chan) BY DEF Dispatches
<1>2. /\ m = chan[1] /\ 1 \in DOMAIN chan /\ m \in HandleMsg /\ chan' \in Seq(HandleMsg)
      /\ Len(chan) \in Nat /\ DOMAIN chan = 1..Len(chan)
      /\ DOMAIN chan' = 1..(Len(chan) - 1)
      /\ \A i \in DOMAIN chan' : i + 1 \in DOMAIN chan /\ chan'[i] = chan[i + 1] BY <1>0, <1>1, ChanFacts
<1>3. m.m \in {"Snapshot", "CaptureFrame"} => r.core = core /\ r.st = st BY DEF Handles, Acts
<1>4. /\ Result(core, st, r)
      /\ \/ Lets(core, r) /\ (OfNow(m) \/ (r.core.mode => core.mode))
         \/ Asks(m) /\ (Busies(core, r, m.x.req) \/ OpensRead(core, r, m.x.req))
         \/ m.m = "Paste" /\ Says(core, r, m) /\ (r.core.mode => core.mode)
      /\ m.m = "ObserveFrames" /\ pub.observers > 0 => r.core.dirty BY <1>0, <1>1, HandlesFacts
<1>m. m = Head(chan) OBVIOUS
<1> HIDE DEF m, r
<1>5. /\ core' \in CoreRecord /\ core'.attempt = core.attempt /\ core'.backend = core.backend
      /\ (core'.mode <=> r.core.mode) /\ (core'.pmode <=> r.core.pmode) /\ core'.paste = r.core.paste
      /\ core'.reads = r.core.reads /\ core'.screen = r.core.screen /\ (core'.dirty <=> r.core.dirty)
      /\ core'.pc = "busy"
  <2>1. r.core \in CoreRecord /\ r.core.attempt = core.attempt /\ r.core.backend = core.backend
    BY <1>4 DEF Result, Fits, Advances
  <2> QED BY <1>1, <2>1 DEF CoreRecord
<1>6. Fits(core, st)' BY <1>1, <1>4, <1>5 DEF Result, Fits, Advances
<1>7. /\ api' \in ApiRecord /\ api'.reply \in {api.reply, <<st.rev, core.screen>>}
      /\ (m.m # "Snapshot" => api'.reply = api.reply)
      /\ (m.m # "Snapshot" => api'.told = api.told \cup r.told)
      /\ (m.m = "Snapshot" => api'.told = api.told)
  <2>1. CASE m.m = "Snapshot"
    <3> DEFINE e == <<st.rev, core.screen>>
    <3>1. e \in Snapshots /\ api' = [api EXCEPT !.snap = "reply", !.reply = e]
      BY <1>0, <1>1, <2>1 DEF Snapshots
    <3>2. e = <<st.rev, core.screen>> OBVIOUS
    <3> HIDE DEF e
    <3>3. api' \in ApiRecord /\ api'.reply = e /\ api'.told = api.told BY <1>0, <3>1 DEF ApiRecord
    <3> QED BY <2>1, <3>2, <3>3
  <2>2. CASE m.m # "Snapshot"
    <3> DEFINE t == api.told \cup r.told
    <3>1. r.told \subseteq Nat \X Nat \X Nat
      <4>1. CASE r.told = {} BY <4>1
      <4>2. CASE Asks(m) /\ OpensRead(core, r, m.x.req)
        <5>1. r.told = {<<core.attempt, core.reads + 1, m.x.req>>} BY <4>2 DEF OpensRead
        <5>2. m.x.req \in Nat /\ core.attempt \in Nat /\ core.reads + 1 \in Nat
          <6>1. m.x \in HandleFrame BY <1>2, <4>2 DEF HandleMsg, PlainKinds, Asks, OfNow
          <6> QED BY <1>0, <6>1 DEF HandleFrame, CoreRecord
        <5> QED BY <5>1, <5>2
      <4> QED BY <1>4, <4>1, <4>2 DEF Lets, Busies, Says
    <3>2. t \in SUBSET (Nat \X Nat \X Nat) BY <1>0, <3>1 DEF ApiRecord
    <3>3. api' = [api EXCEPT !.told = t] BY <1>1, <2>2
    <3>4. t = api.told \cup r.told OBVIOUS
    <3> HIDE DEF t
    <3>5. api' \in ApiRecord /\ api'.reply = api.reply /\ api'.told = t BY <1>0, <3>2, <3>3 DEF ApiRecord
    <3> QED BY <2>2, <3>4, <3>5
  <2> QED BY <2>1, <2>2
<1>8. /\ pub' \in [frame : Nat, observers : Nat] /\ pub'.observers = pub.observers
      /\ pub'.frame = IF m.m = "CaptureFrame" THEN st.rev ELSE pub.frame BY <1>0, <1>1
<1>9. /\ st'.rev \in {st.rev, st.rev + 1} /\ (st'.rev = st.rev => core'.screen = core.screen)
      /\ ((st'.rev = st.rev /\ (core.dirty => core'.dirty)) \/ core'.dirty)
  BY <1>0, <1>1, <1>4, <1>5 DEF Result, Advances
<1>10. Replied'
  <2>1. CASE m.m = "Snapshot" BY <1>0, <1>1, <1>3, <1>5, <1>7, <2>1 DEF Replied
  <2>2. CASE m.m # "Snapshot"
    <3>1. api.reply[1] \in Nat BY <1>0 DEF ApiRecord, Snapshots
    <3> QED BY <1>0, <1>7, <1>9, <2>2, <3>1 DEF Replied
  <2> QED BY <2>1, <2>2
<1>11. Observed'
  <2> SUFFICES ASSUME pub'.observers > 0
               PROVE  pub'.frame = st'.rev \/ core'.dirty \/ \E i \in DOMAIN chan' : chan'[i].m = "ObserveFrames"
    BY <1>5 DEF Observed
  <2>1. CASE m.m = "CaptureFrame" BY <1>1, <1>3, <1>8, <2>1
  <2>2. CASE m.m = "ObserveFrames" BY <1>4, <1>5, <1>8, <2>2
  <2>3. CASE m.m \notin {"CaptureFrame", "ObserveFrames"}
    <3>1. pub.frame = st.rev \/ core.dirty \/ \E i \in DOMAIN chan : chan[i].m = "ObserveFrames"
      BY <1>0, <1>8 DEF Observed
    <3>2. ASSUME NEW i \in DOMAIN chan, chan[i].m = "ObserveFrames"
          PROVE  \E j \in DOMAIN chan' : chan'[j].m = "ObserveFrames"
      <4>1. i # 1 BY <1>2, <2>3, <3>2
      <4>2. i - 1 \in DOMAIN chan' /\ (i - 1) + 1 = i BY <1>2, <4>1
      <4> QED BY <1>2, <3>2, <4>2
    <3> QED BY <1>8, <1>9, <2>3, <3>1, <3>2
  <2> QED BY <2>1, <2>2, <2>3
<1>12. Asks(m) => m.x.req \in Nat /\ Ahead(m.x)
  <2>1. Asks(m) => m.x \in HandleFrame BY <1>2 DEF HandleMsg, PlainKinds, Asks, OfNow
  <2> QED BY <1>0, <1>2, <2>1 DEF HandleFrame, OrderInv, ChanOrder
<1>13. m.m = "Paste" /\ Says(core, r, m) => m.x.req = core.paste.req /\ core.paste.req \in Nat /\ core.paste.open # 0
  <2>1. m.m = "Paste" => Opened(m.x.read, m.x.req) BY <1>0, <1>2 DEF ToldInv
  <2> QED BY <1>0, <2>1 DEF Opened, Says, CoreRecord, PasteRecord
(* What the program got, and what is open now. *)
<1> DEFINE GotStays == prog'.got = prog.got
           GotMore(v) == prog'.got = Append(prog.got, v)
           PasteStays == core'.paste.open = core.paste.open /\ core'.paste.req = core.paste.req
           PasteEnds == core'.paste.open = 0 /\ core'.paste.req = 0
<1>14. prog' \in ProgRecord /\ (prog'.wrong <=> prog.wrong) /\ prog'.reqs = prog.reqs
       /\ \/ GotStays /\ core'.reads = core.reads /\ (PasteStays \/ PasteEnds) /\ r.told = {}
             /\ (OfNow(m) \/ (core'.mode => core.mode))
          \/ Asks(m) /\ (GotStays \/ GotMore(m.x.req)) /\ core'.reads = core.reads /\ PasteStays /\ r.told = {}
          \/ Asks(m) /\ GotStays /\ core'.reads = core.reads + 1 /\ core'.paste.open = core.reads + 1
             /\ core'.paste.req = m.x.req /\ r.told = {<<core.attempt, core.reads + 1, m.x.req>>}
          \/ core.paste.open # 0 /\ (GotStays \/ GotMore(core.paste.req)) /\ core'.reads = core.reads
             /\ PasteEnds /\ r.told = {} /\ (core'.mode => core.mode)
  <2>1. CASE Lets(core, r) /\ (OfNow(m) \/ (r.core.mode => core.mode))
    <3>1. Input(r.core, <<>>) BY <1>1, <2>1 DEF Lets
    <3> QED BY <1>0, <1>5, <2>1, <3>1, InputNone DEF Lets, Keeps
  <2>2. CASE Asks(m) /\ Busies(core, r, m.x.req)
    <3>1. Input(r.core, <<<<m.x.req, "busy", m.x.req>>>>) /\ m.x.req \in Nat
      BY <1>1, <1>12, <2>2 DEF Busies
    <3>2. /\ prog' \in ProgRecord /\ (prog'.wrong <=> prog.wrong)
          /\ prog'.got = prog.got \/ prog'.got = Append(prog.got, m.x.req)
          /\ prog'.reqs = prog.reqs BY <1>0, <3>1, InputOne
    <3> QED BY <1>5, <2>2, <3>2 DEF Busies
  <2>3. CASE Asks(m) /\ OpensRead(core, r, m.x.req)
    <3>1. Input(r.core, <<>>) BY <1>1, <2>3 DEF OpensRead
    <3> QED BY <1>0, <1>5, <2>3, <3>1, InputNone DEF OpensRead
  <2>4. CASE m.m = "Paste" /\ Says(core, r, m) /\ (r.core.mode => core.mode)
    <3>1. PICK kind : r.in = <<<<core.paste.req, kind, m.x.req>>>> BY <2>4 DEF Says
    <3>2. Input(r.core, <<<<core.paste.req, kind, m.x.req>>>>) BY <1>1, <3>1
    <3>3. /\ prog' \in ProgRecord /\ (prog'.wrong <=> prog.wrong)
          /\ prog'.got = prog.got \/ prog'.got = Append(prog.got, core.paste.req)
          /\ prog'.reqs = prog.reqs BY <1>0, <1>13, <2>4, <3>2, InputOne
    <3> QED BY <1>5, <1>13, <2>4, <3>3 DEF Says
  <2> QED BY <1>4, <2>1, <2>2, <2>3, <2>4
<1>15. \A v \in Nat : GotMore(v) =>
         \A k \in DOMAIN prog'.got : \/ k \in DOMAIN prog.got /\ prog'.got[k] = prog.got[k]
                                     \/ k = Len(prog.got) + 1 /\ prog'.got[k] = v BY <1>0, GotFacts
<1> HIDE DEF GotMore
<1>16. core.paste.req \in Nat /\ core.paste.open \in Nat BY <1>0 DEF CoreRecord, PasteRecord
<1>17. HandleTypes' BY <1>0, <1>2, <1>7, <1>8, <1>14 DEF HandleTypes
<1>18. (Owned /\ ScreenInv /\ OrderInv)'
  <2>1. OfNow(m) \/ (Blank => Blank') BY <1>14, <1>5 DEF Blank, Asks
  <2>2. Known(m, core'.paste.req) BY <1>14 DEF Known
  <2>3. \A k \in DOMAIN prog'.got : Known(m, prog'.got[k]) BY <1>12, <1>14, <1>15, <1>16 DEF Known
  <2> QED BY <1>0, <1>1, <1>5, <1>14, <1>m, <2>1, <2>2, <2>3, TailLine
<1>19. ToldInv'
  <2>1. \A x, y : Opened(x, y) =>
           x \in 1..core'.reads /\ (core'.paste.open = x => core'.paste.req = y)
    BY <1>0, <1>14 DEF Opened
  <2>2. \A i \in DOMAIN chan' : chan'[i].m = "Paste" => Opened(chan'[i].x.read, chan'[i].x.req)
    BY <1>0, <1>2 DEF ToldInv
  <2>3. ASSUME NEW t \in api'.told
        PROVE  t[2] \in 1..core'.reads /\ (core'.paste.open = t[2] => core'.paste.req = t[3])
    <3>1. CASE t \in api.told
      <4>1. Opened(t[2], t[3]) BY <1>0, <3>1 DEF ToldInv
      <4> QED BY <2>1, <4>1
    <3>2. CASE t \in r.told
      <4>1. t = <<core.attempt, core.reads + 1, m.x.req>> /\ core'.reads = core.reads + 1
            /\ core'.paste.req = m.x.req BY <1>14, <3>2
      <4> QED BY <1>0, <4>1
    <3> QED BY <1>7, <3>1, <3>2
  <2> QED BY <2>1, <2>2, <2>3 DEF ToldInv, Opened
<1>20. AnswerInv'
  <2>0. \A k \in DOMAIN prog.got : prog.got[k] \in Nat BY SMTT(60), <1>0 DEF ProgRecord
  <2>g. prog.reqs \in Nat /\ Len(prog.got) \in Nat /\ DOMAIN prog.got = 1..Len(prog.got)
    BY <1>0 DEF ProgRecord
  <2>w. (prog'.wrong <=> prog.wrong) /\ prog'.reqs = prog.reqs BY <1>14
  <2>1. CASE GotStays /\ core'.reads = core.reads /\ (PasteStays \/ PasteEnds)
    BY SMTT(60), <1>0, <1>14, <2>1, <2>g DEF AnswerInv
  <2>2. CASE Asks(m) /\ (GotStays \/ GotMore(m.x.req)) /\ core'.reads = core.reads /\ PasteStays
    <3>1. m.x.req \in Nat /\ m.x.req <= prog.reqs /\ core.paste.req < m.x.req
          /\ \A k \in DOMAIN prog.got : prog.got[k] < m.x.req BY <1>12, <2>2 DEF Ahead, AheadOf
    <3>2. CASE GotStays BY <1>0, <1>14, <2>2, <2>g, <3>2 DEF AnswerInv
    <3>3. CASE GotMore(m.x.req)
      <4>1. \A k \in DOMAIN prog'.got : \/ k \in DOMAIN prog.got /\ prog'.got[k] = prog.got[k]
                                        \/ k = Len(prog.got) + 1 /\ prog'.got[k] = m.x.req
        BY <1>15, <3>1, <3>3
      <4> HIDE DEF m
      <4> QED BY SMTT(60), <1>0, <1>14, <1>16, <2>0, <2>2, <3>1, <4>1 DEF AnswerInv
    <3> QED BY <2>2, <3>2, <3>3
  <2>3. CASE Asks(m) /\ GotStays /\ core'.paste.req = m.x.req
    <3>1. m.x.req \in Nat /\ m.x.req <= prog.reqs
          /\ \A k \in DOMAIN prog.got : prog.got[k] < m.x.req BY <1>12, <2>3 DEF Ahead, AheadOf
    <3> QED BY <1>0, <1>14, <2>0, <2>3, <3>1 DEF AnswerInv
  <2>4. CASE core.paste.open # 0 /\ (GotStays \/ GotMore(core.paste.req)) /\ PasteEnds
    <3>1. ~prog.wrong /\ core'.paste.open = 0 /\ core'.paste.req = 0 /\ 0 <= prog.reqs
      BY <1>0, <2>4, <2>g DEF AnswerInv
    <3>2. CASE GotStays
      <4>1. prog'.got = prog.got BY <3>2
      <4> QED BY <1>0, <2>w, <3>1, <4>1 DEF AnswerInv
    <3>3. CASE GotMore(core.paste.req)
      <4>1. \A k \in DOMAIN prog'.got : \/ k \in DOMAIN prog.got /\ prog'.got[k] = prog.got[k]
                                        \/ k = Len(prog.got) + 1 /\ prog'.got[k] = core.paste.req
        BY <1>15, <1>16, <3>3
      <4>2. core.paste.req <= prog.reqs /\ \A k \in DOMAIN prog.got : prog.got[k] # core.paste.req
        BY <1>0, <2>4 DEF AnswerInv
      <4>3. \A k \in DOMAIN prog'.got : prog'.got[k] <= prog.reqs BY <1>0, <4>1, <4>2 DEF AnswerInv
      <4>4. \A j, k \in DOMAIN prog'.got : j # k => prog'.got[j] # prog'.got[k]
        BY <1>0, <4>1, <4>2 DEF AnswerInv
      <4> QED BY <2>w, <3>1, <4>3, <4>4 DEF AnswerInv
    <3> QED BY <2>4, <3>2, <3>3
  <2> QED BY <1>14, <2>1, <2>2, <2>3, <2>4
<1> QED BY <1>6, <1>10, <1>11, <1>17, <1>18, <1>19, <1>20 DEF HandleInv
----------------------------------------------------------------------------
(* The session speaks, and its readers read. *)

LEMMA WireAppend ==
  ASSUME HandleInv, UNCHANGED <<core, chan>>, NEW f \in HandleFrame,
         \A n \in Attempts : \/ rdr'[n].wire = rdr[n].wire
                             \/ n = core.attempt /\ rdr'[n].wire = Append(rdr[n].wire, f),
         \A n \in Attempts : rdr'[n].open => n = core.attempt,
         \A n \in Attempts : n # core.attempt => (rdr'[n].served <=> rdr[n].served),
         \A n \in Attempts : ~rdr'[n].served => ~rdr[n].served /\ rdr'[n].wire = rdr[n].wire,
         f.t = "Screen" => \A n \in Attempts : n = core.attempt => ~rdr[n].served,
         f.ev = "read" => f.req = prog.reqs + 1 /\ f.req <= prog'.reqs,
         prog' \in ProgRecord, prog'.got = prog.got, prog.reqs <= prog'.reqs
  PROVE  (Owned /\ ScreenInv /\ OrderInv)'
<1>0. Owned /\ ScreenInv /\ OrderInv /\ AnswerInv /\ HandleTypes /\ core \in CoreRecord /\ core.attempt \in Nat
      /\ prog.reqs \in Nat /\ prog'.reqs \in Nat /\ prog \in ProgRecord
  BY DEF HandleInv, Fits, HandleTypes, CoreRecord, ProgRecord
<1>1. \A n \in Attempts : rdr[n].wire \in Seq(HandleFrame) BY <1>0 DEF HandleTypes, ReaderRecord
<1>2. Owned'
  <2>1. \A n \in Attempts : n > core.attempt => n # core.attempt BY <1>0
  <2> QED BY <1>0, <2>1 DEF Owned
<1>3. (Blank' <=> Blank) /\ (NoneWaits' <=> NoneWaits) BY DEF Blank, NoneWaits, OfNow
<1>4. ASSUME NEW n \in Attempts, n = core.attempt, rdr'[n].wire = Append(rdr[n].wire, f)
      PROVE  \A i \in DOMAIN rdr'[n].wire :
               \/ i \in DOMAIN rdr[n].wire /\ rdr'[n].wire[i] = rdr[n].wire[i]
               \/ /\ i = Len(rdr[n].wire) + 1 /\ rdr'[n].wire[i] = f
                  /\ \A j \in DOMAIN rdr[n].wire : j < i
                  /\ rdr[n].wire = <<>> => i = 1
  <2> DEFINE w == rdr[n].wire
             x == Append(w, f)
  <2>1. w \in Seq(HandleFrame) /\ rdr'[n].wire = x BY <1>1, <1>4
  <2> HIDE DEF w
  <2>2. \A i \in DOMAIN x : \/ i \in DOMAIN w /\ x[i] = w[i]
                            \/ i = Len(w) + 1 /\ x[i] = f /\ (\A j \in DOMAIN w : j < i)
                               /\ (w = <<>> => i = 1)
    <3>1. DOMAIN x = 1..(Len(w) + 1) /\ Len(w) \in Nat /\ DOMAIN w = 1..Len(w)
          /\ (\A i \in DOMAIN w : x[i] = w[i]) /\ x[Len(w) + 1] = f /\ (w = <<>> => Len(w) = 0) BY <2>1
    <3> HIDE DEF x
    <3> QED BY <3>1
  <2> QED BY <2>1, <2>2 DEF w
<1>5. ScreenInv'
  <2>1. ASSUME NEW n \in Attempts, n = core.attempt
        PROVE  /\ \A i \in DOMAIN rdr'[n].wire : rdr'[n].wire[i].t = "Screen" => i = 1 /\ Blank /\ NoneWaits
               /\ ~rdr'[n].served => rdr'[n].wire = <<>> /\ Blank /\ NoneWaits
    <3>1. /\ \A i \in DOMAIN rdr[n].wire : rdr[n].wire[i].t = "Screen" => i = 1 /\ Blank /\ NoneWaits
          /\ ~rdr[n].served => rdr[n].wire = <<>> /\ Blank /\ NoneWaits
      BY <1>0, <2>1 DEF ScreenInv, Unread
    <3>2. CASE rdr'[n].wire = rdr[n].wire BY <3>1, <3>2
    <3>3. CASE rdr'[n].wire = Append(rdr[n].wire, f)
      <4>1. f.t = "Screen" => rdr[n].wire = <<>> /\ Blank /\ NoneWaits BY <2>1, <3>1
      <4>2. ASSUME NEW i \in DOMAIN rdr'[n].wire, rdr'[n].wire[i].t = "Screen"
            PROVE  i = 1 /\ Blank /\ NoneWaits BY <1>4, <2>1, <3>1, <3>3, <4>1, <4>2
      <4>3. ~rdr'[n].served => rdr'[n].wire = <<>> /\ Blank /\ NoneWaits BY <3>1
      <4> QED BY <4>2, <4>3
    <3> QED BY <2>1, <3>2, <3>3
  <2>2. \A n \in Attempts : Unread(n)' => n = core.attempt BY DEF Unread
  <2> QED BY <1>0, <1>3, <2>1, <2>2 DEF ScreenInv, OfNow
<1>6. OrderInv'
  <2>1. ASSUME NEW g, Ahead(g), g.req \in Nat PROVE AheadOf(g, core', prog')
    BY <1>0, <2>1 DEF Ahead, AheadOf
  <2>2. f.ev = "read" => AheadOf(f, core', prog')
    <3>1. \A k \in DOMAIN prog.got : prog.got[k] \in Nat /\ prog.got[k] <= prog.reqs
      BY <1>0 DEF ProgRecord, AnswerInv
    <3>2. core.paste.req \in Nat /\ core.paste.req <= prog.reqs
      BY <1>0 DEF CoreRecord, PasteRecord, AnswerInv
    <3> QED BY <1>0, <3>1, <3>2 DEF AheadOf
  <2>3. \A i \in DOMAIN chan : Asks(chan[i]) => chan[i].x.req \in Nat /\ Ahead(chan[i].x)
    <3>1. \A i \in DOMAIN chan : chan[i] \in HandleMsg BY <1>0 DEF HandleTypes
    <3>2. \A i \in DOMAIN chan : chan[i].m = "Frame" => chan[i].x \in HandleFrame
      BY <3>1 DEF HandleMsg, PlainKinds
    <3> QED BY <1>0, <3>2 DEF Asks, OfNow, HandleFrame, OrderInv, ChanOrder
  <2>4. \A x : Asks(x)' <=> Asks(x) BY DEF Asks, OfNow
  <2>5. \A i \in DOMAIN chan : Asks(chan[i]) => AheadOf(chan[i].x, core', prog') BY <2>1, <2>3
  <2>6. ChanOrder' BY <1>0, <2>4, <2>5 DEF OrderInv, ChanOrder, Ahead
  <2>7. ASSUME NEW n \in Attempts, n = core.attempt PROVE WireOrder(rdr[n].wire)'
    <3> DEFINE w == rdr[n].wire
               x == rdr'[n].wire
    <3>0. WireOrder(w) /\ w \in Seq(HandleFrame) BY <1>0, <1>1, <2>7 DEF OrderInv, Unread
    <3>1. \A i \in DOMAIN x : \/ i \in DOMAIN w /\ x[i] = w[i]
                              \/ /\ i = Len(w) + 1 /\ x[i] = f
                                 /\ \A j \in DOMAIN w : j < i BY <1>4, <2>7
    <3>x. rdr'[n].wire = x OBVIOUS
    <3> HIDE DEF w, x
    <3>2. \A i \in DOMAIN w : w[i].req \in Nat /\ i \in Nat BY <3>0 DEF HandleFrame
    <3>3. \A i \in DOMAIN w : w[i].ev = "read" => Ahead(w[i]) /\ w[i].req <= prog.reqs
      BY <3>0 DEF WireOrder, Ahead, AheadOf
    <3>4. \A j \in DOMAIN chan : Asks(chan[j]) => chan[j].x.req <= prog.reqs BY <2>3 DEF Ahead, AheadOf
    <3>5. ASSUME NEW i \in DOMAIN x, x[i].ev = "read"
          PROVE  /\ AheadOf(x[i], core', prog')
                 /\ \A j \in DOMAIN x : i < j /\ x[j].ev = "read" => x[i].req < x[j].req
                 /\ \A j \in DOMAIN chan : Asks(chan[j]) => chan[j].x.req < x[i].req
      <4>1. CASE i \in DOMAIN w /\ x[i] = w[i]
        <5>1. AheadOf(w[i], core', prog') BY <2>1, <3>2, <3>3, <3>5, <4>1
        <5>2. ASSUME NEW j \in DOMAIN x, i < j, x[j].ev = "read" PROVE x[i].req < x[j].req
          <6>1. CASE j \in DOMAIN w /\ x[j] = w[j] BY <3>0, <3>5, <4>1, <5>2, <6>1 DEF WireOrder
          <6>2. CASE x[j] = f BY <1>0, <3>2, <3>3, <3>5, <4>1, <5>2, <6>2
          <6> QED BY <3>1, <6>1, <6>2
        <5>3. \A j \in DOMAIN chan : Asks(chan[j]) => chan[j].x.req < x[i].req
          BY <3>0, <3>5, <4>1 DEF WireOrder
        <5> QED BY <4>1, <5>1, <5>2, <5>3
      <4>2. CASE i = Len(w) + 1 /\ x[i] = f /\ \A j \in DOMAIN w : j < i
        <5>1. AheadOf(x[i], core', prog') BY <2>2, <3>5, <4>2
        <5>2. ASSUME NEW j \in DOMAIN x, i < j PROVE FALSE
          <6>1. Len(w) \in Nat BY <3>0
          <6>2. j \in DOMAIN w => j < i /\ j \in Nat BY <3>2, <4>2
          <6> QED BY <3>1, <4>2, <5>2, <6>1, <6>2
        <5>3. \A j \in DOMAIN chan : Asks(chan[j]) => chan[j].x.req < x[i].req
          BY <1>0, <2>3, <3>4, <3>5, <4>2
        <5> QED BY <5>1, <5>2, <5>3
      <4> QED BY <3>1, <4>1, <4>2
    <3> QED BY <2>4, <3>5, <3>x DEF WireOrder, Ahead
  <2> QED BY <2>6, <2>7 DEF OrderInv, Unread
<1> QED BY <1>2, <1>5, <1>6

(* The parts that a step of the session or of a reader leaves alone. *)
LEMMA OutsideKeeps ==
  ASSUME HandleInv, UNCHANGED <<core, st, pub, api>>, HandleTypes', (Owned /\ ScreenInv /\ OrderInv)',
         ToldInv', \A i \in DOMAIN chan : i \in DOMAIN chan' /\ chan'[i] = chan[i],
         prog'.wrong <=> prog.wrong, prog'.got = prog.got, prog.reqs <= prog'.reqs, prog' \in ProgRecord
  PROVE  HandleInv'
<1>0. Fits(core, st) /\ Replied /\ Observed /\ AnswerInv /\ core \in CoreRecord /\ prog \in ProgRecord
  BY DEF HandleInv, HandleTypes, Fits
<1>1. Fits(core, st)' /\ Replied' BY <1>0 DEF Replied
<1>2. Observed' BY <1>0 DEF Observed
<1>3. AnswerInv'
  <2>1. core.paste.req \in Nat /\ prog.reqs \in Nat /\ prog'.reqs \in Nat
        /\ \A k \in DOMAIN prog.got : prog.got[k] \in Nat BY SMTT(60), <1>0 DEF CoreRecord, PasteRecord, ProgRecord
  <2> QED BY <1>0, <2>1 DEF AnswerInv
<1> QED BY <1>1, <1>2, <1>3 DEF HandleInv

LEMMA SpeakKeeps == ASSUME HandleInv, NEW ev \in EventKinds, SessionSpeaks(ev) PROVE HandleInv'
<1> DEFINE req == IF ev = "read" THEN prog.reqs + 1 ELSE 0
           o == prog.out + 1
           rq == IF ev = "read" THEN prog.reqs + 1 ELSE prog.reqs
           md == CASE ev = "on" -> TRUE [] ev = "off" -> FALSE [] OTHER -> prog.mode
           p == Piece(o, ev, req)
<1>0. HandleTypes /\ Owned /\ ToldInv /\ UNCHANGED <<core, st, pub, chan, api>> /\ prog \in ProgRecord
      /\ rdr \in [Attempts -> ReaderRecord] /\ prog.reqs \in Nat
  BY DEF HandleInv, HandleTypes, SessionSpeaks, ProgRecord
<1>1. /\ prog' = [prog EXCEPT !.out = o, !.reqs = rq, !.mode = md]
      /\ rdr' = [n \in Attempts |-> IF rdr[n].open /\ rdr[n].served
                                    THEN [rdr[n] EXCEPT !.wire = Append(@, p)] ELSE rdr[n]]
  BY DEF SessionSpeaks
<1>2. req \in Nat /\ o \in Nat /\ rq \in Nat /\ md \in BOOLEAN /\ prog.reqs <= rq
      /\ (ev = "read" => req = prog.reqs + 1 /\ req <= rq)
  <2>1. prog.out \in Nat /\ prog.mode \in BOOLEAN BY <1>0 DEF ProgRecord
  <2>2. md \in BOOLEAN BY <2>1, Zenon
  <2>3. req \in Nat /\ o \in Nat /\ rq \in Nat /\ prog.reqs <= rq
        /\ (ev = "read" => req = prog.reqs + 1 /\ req <= rq) BY <1>0, <2>1
  <2> QED BY <2>2, <2>3
<1> HIDE DEF req, o, rq, md
<1>3. p \in HandleFrame /\ p.t = "Data" /\ p.ev = ev /\ p.req = req BY <1>2 DEF Piece, HandleFrame
<1> HIDE DEF p
<1>4. prog' \in ProgRecord /\ (prog'.wrong <=> prog.wrong) /\ prog'.got = prog.got /\ prog'.reqs = rq
  BY <1>0, <1>1, <1>2 DEF ProgRecord
<1>5. /\ rdr' \in [Attempts -> ReaderRecord]
      /\ \A n \in Attempts : /\ (rdr'[n].open <=> rdr[n].open) /\ (rdr'[n].served <=> rdr[n].served)
                             /\ \/ rdr'[n].wire = rdr[n].wire
                                \/ rdr[n].open /\ rdr[n].served /\ rdr'[n].wire = Append(rdr[n].wire, p)
  <2>1. ASSUME NEW n \in Attempts
        PROVE  /\ [rdr[n] EXCEPT !.wire = Append(@, p)] \in ReaderRecord
               /\ [rdr[n] EXCEPT !.wire = Append(@, p)].wire = Append(rdr[n].wire, p)
               /\ ([rdr[n] EXCEPT !.wire = Append(@, p)].open <=> rdr[n].open)
               /\ ([rdr[n] EXCEPT !.wire = Append(@, p)].served <=> rdr[n].served)
    <3> DEFINE x == Append(rdr[n].wire, p)
    <3>1. rdr[n] \in ReaderRecord /\ rdr[n].wire \in Seq(HandleFrame) BY <1>0 DEF ReaderRecord
    <3>2. x \in Seq(HandleFrame) BY <1>3, <3>1
    <3> HIDE DEF x
    <3>3. [rdr[n] EXCEPT !.wire = x] \in ReaderRecord /\ [rdr[n] EXCEPT !.wire = x].wire = x
          /\ ([rdr[n] EXCEPT !.wire = x].open <=> rdr[n].open)
          /\ ([rdr[n] EXCEPT !.wire = x].served <=> rdr[n].served) BY <3>1, <3>2 DEF ReaderRecord
    <3> QED BY <3>3 DEF x
  <2> QED BY <1>0, <1>1, <2>1
<1>6. HandleTypes' BY <1>0, <1>4, <1>5 DEF HandleTypes
<1>7. (Owned /\ ScreenInv /\ OrderInv)'
  <2>1. \A n \in Attempts : \/ rdr'[n].wire = rdr[n].wire
                            \/ n = core.attempt /\ rdr'[n].wire = Append(rdr[n].wire, p)
    BY <1>0, <1>5 DEF Owned
  <2>2. \A n \in Attempts : rdr'[n].open => n = core.attempt BY <1>0, <1>5 DEF Owned
  <2>3. \A n \in Attempts : ~rdr'[n].served => ~rdr[n].served /\ rdr'[n].wire = rdr[n].wire BY <1>5
  <2>4. p.t # "Screen" /\ (p.ev = "read" => p.req = prog.reqs + 1 /\ p.req <= prog'.reqs)
    BY <1>2, <1>3, <1>4
  <2> QED BY <1>0, <1>2, <1>3, <1>4, <1>5, <2>1, <2>2, <2>3, <2>4, WireAppend
<1>8. ToldInv' BY <1>0 DEF ToldInv, Opened
<1> QED BY <1>0, <1>2, <1>4, <1>6, <1>7, <1>8, OutsideKeeps

LEMMA ServeKeeps == ASSUME HandleInv, NEW n \in Attempts, DaemonServes(n) PROVE HandleInv'
<1> DEFINE f == [t |-> "Screen", n |-> prog.out, ev |-> IF prog.mode THEN "on" ELSE "none", req |-> 0]
           x == Append(rdr[n].wire, f)
<1>0. HandleTypes /\ Owned /\ ToldInv /\ UNCHANGED <<core, st, pub, chan, prog, api>> /\ prog \in ProgRecord
      /\ rdr \in [Attempts -> ReaderRecord] /\ prog.reqs \in Nat /\ rdr[n].open /\ ~rdr[n].served
      /\ rdr[n] \in ReaderRecord /\ rdr[n].wire \in Seq(HandleFrame) /\ prog.out \in Nat
  BY DEF HandleInv, HandleTypes, DaemonServes, ProgRecord, ReaderRecord
<1>1. n = core.attempt BY <1>0 DEF Owned
<1>2. f \in HandleFrame /\ f.t = "Screen" /\ f.ev # "read" BY <1>0 DEF HandleFrame, EventKinds
<1>3. rdr' = [rdr EXCEPT ![n].served = TRUE, ![n].wire = Append(@, f)] BY DEF DaemonServes
<1> HIDE DEF f
<1>4. x \in Seq(HandleFrame) BY <1>0, <1>2
<1>5. rdr' = [rdr EXCEPT ![n] = [@ EXCEPT !.served = TRUE, !.wire = x]] BY <1>0, <1>3 DEF ReaderRecord
<1>x. x = Append(rdr[n].wire, f) OBVIOUS
<1> HIDE DEF x
<1>6. /\ rdr' \in [Attempts -> ReaderRecord] /\ rdr'[n].wire = x /\ rdr'[n].served
      /\ \A k \in Attempts : k # n => rdr'[k] = rdr[k] BY <1>0, <1>4, <1>5 DEF ReaderRecord
<1>7. HandleTypes' BY <1>0, <1>6 DEF HandleTypes
<1>8. (Owned /\ ScreenInv /\ OrderInv)'
  <2>1. \A k \in Attempts : \/ rdr'[k].wire = rdr[k].wire
                            \/ k = core.attempt /\ rdr'[k].wire = Append(rdr[k].wire, f)
    BY <1>1, <1>6, <1>x
  <2>2. \A k \in Attempts : rdr'[k].open => k = core.attempt BY <1>0, <1>1, <1>6 DEF Owned
  <2>3. \A k \in Attempts : k # core.attempt => (rdr'[k].served <=> rdr[k].served) BY <1>1, <1>6
  <2>4. \A k \in Attempts : ~rdr'[k].served => ~rdr[k].served /\ rdr'[k].wire = rdr[k].wire BY <1>6
  <2>5. \A k \in Attempts : k = core.attempt => ~rdr[k].served BY <1>0, <1>1
  <2>6. prog' \in ProgRecord /\ prog'.got = prog.got /\ prog.reqs <= prog'.reqs BY <1>0
  <2> QED BY <1>0, <1>2, <2>1, <2>2, <2>3, <2>4, <2>5, <2>6, WireAppend
<1>9. ToldInv' BY <1>0 DEF ToldInv, Opened
<1> QED BY <1>0, <1>7, <1>8, <1>9, OutsideKeeps

LEMMA EndKeeps == ASSUME HandleInv, NEW n \in Attempts, StreamEnds(n) PROVE HandleInv'
<1> DEFINE f == [t |-> "Exit", n |-> 0, ev |-> "none", req |-> 0]
<1>0. HandleTypes /\ Owned /\ ToldInv /\ UNCHANGED <<core, st, pub, chan, prog, api>> /\ prog \in ProgRecord
      /\ rdr \in [Attempts -> ReaderRecord] /\ prog.reqs \in Nat /\ rdr[n].open /\ rdr[n].served
      /\ rdr[n] \in ReaderRecord /\ rdr[n].wire \in Seq(HandleFrame)
  BY DEF HandleInv, HandleTypes, StreamEnds, ProgRecord, ReaderRecord
<1>1. n = core.attempt BY <1>0 DEF Owned
<1>2. f \in HandleFrame /\ f.t # "Screen" /\ f.ev # "read" BY DEF HandleFrame, EventKinds
<1>3. PICK exits \in BOOLEAN :
        rdr' = [rdr EXCEPT ![n].open = FALSE,
                           ![n].wire = IF exits \/ core.backend = "spawn" THEN Append(@, f) ELSE @]
  BY DEF StreamEnds
<1> HIDE DEF f
<1> DEFINE x == IF exits \/ core.backend = "spawn" THEN Append(rdr[n].wire, f) ELSE rdr[n].wire
<1>4. x \in Seq(HandleFrame) BY <1>0, <1>2
<1>5. rdr' = [rdr EXCEPT ![n] = [@ EXCEPT !.open = FALSE, !.wire = x]] BY <1>0, <1>3 DEF ReaderRecord
<1>x. x = Append(rdr[n].wire, f) \/ x = rdr[n].wire OBVIOUS
<1> HIDE DEF x
<1>6. /\ rdr' \in [Attempts -> ReaderRecord] /\ rdr'[n].wire = x /\ ~rdr'[n].open
      /\ rdr'[n].served
      /\ \A k \in Attempts : k # n => rdr'[k] = rdr[k] BY <1>0, <1>4, <1>5 DEF ReaderRecord
<1>7. HandleTypes' BY <1>0, <1>6 DEF HandleTypes
<1>8. (Owned /\ ScreenInv /\ OrderInv)'
  <2>1. \A k \in Attempts : \/ rdr'[k].wire = rdr[k].wire
                            \/ k = core.attempt /\ rdr'[k].wire = Append(rdr[k].wire, f)
    BY <1>1, <1>6, <1>x
  <2>2. \A k \in Attempts : rdr'[k].open => k = core.attempt BY <1>0, <1>1, <1>6 DEF Owned
  <2>3. \A k \in Attempts : k # core.attempt => (rdr'[k].served <=> rdr[k].served) BY <1>1, <1>6
  <2>4. \A k \in Attempts : ~rdr'[k].served => ~rdr[k].served /\ rdr'[k].wire = rdr[k].wire BY <1>6
  <2>5. prog' \in ProgRecord /\ prog'.got = prog.got /\ prog.reqs <= prog'.reqs BY <1>0
  <2> QED BY <1>0, <1>2, <2>1, <2>2, <2>3, <2>4, <2>5, WireAppend
<1>9. ToldInv' BY <1>0 DEF ToldInv, Opened
<1> QED BY <1>0, <1>7, <1>8, <1>9, OutsideKeeps

(* A reader takes the first frame of its wire, and it goes to the end of *)
(* the channel unless the actor is gone. *)
LEMMA ReadLine ==
  ASSUME HandleInv, NEW n \in Attempts, NEW m, m = Msg("Frame", n, rdr[n].wire[1]),
         1 \in DOMAIN rdr[n].wire, n <= core.attempt, UNCHANGED <<core, prog, api>>,
         \A k \in Attempts : (rdr'[k].open <=> rdr[k].open) /\ (rdr'[k].served <=> rdr[k].served),
         \A k \in Attempts : k # n => rdr'[k].wire = rdr[k].wire,
         \A i \in DOMAIN rdr'[n].wire :
           i \in Nat \ {0} /\ i + 1 \in DOMAIN rdr[n].wire /\ rdr'[n].wire[i] = rdr[n].wire[i + 1],
         \A i \in DOMAIN chan : i \in DOMAIN chan',
         \A i \in DOMAIN chan' : \/ i \in DOMAIN chan /\ chan'[i] = chan[i]
                                 \/ i = Len(chan) + 1 /\ chan'[i] = m
  PROVE  (Owned /\ ScreenInv /\ OrderInv /\ ToldInv)'
<1>0. Owned /\ ScreenInv /\ OrderInv /\ ToldInv /\ HandleTypes /\ core.attempt \in Nat
      /\ chan \in Seq(HandleMsg) /\ Len(chan) \in Nat /\ DOMAIN chan = 1..Len(chan)
  BY DEF HandleInv, HandleTypes, Fits, CoreRecord
<1>1. m.m = "Frame" /\ m.n = n /\ m.x = rdr[n].wire[1] BY DEF Msg
<1>2. rdr[n].wire # <<>> OBVIOUS
<1>3. \A i \in DOMAIN chan : i \in Nat /\ i # Len(chan) + 1 /\ 1..(i - 1) \subseteq DOMAIN chan BY <1>0
<1>4. \A k \in Attempts : k > core.attempt => k # n BY <1>0 DEF Attempts
<1>5. \A v : (OfNow(v)' <=> OfNow(v)) /\ (Asks(v)' <=> Asks(v)) BY DEF OfNow, Asks
<1>6. \A v : AheadOf(v, core', prog') <=> Ahead(v) BY DEF Ahead
<1>7. (Blank' <=> Blank) /\ \A k \in Attempts : Unread(k)' <=> Unread(k) BY DEF Blank, Unread
<1>8. OfNow(m) <=> n = core.attempt BY <1>1 DEF OfNow
<1>9. Owned' BY <1>0, <1>1, <1>4 DEF Owned
<1>10. ScreenInv'
  <2>1. n = core.attempt =>
          /\ \A i \in DOMAIN rdr[n].wire : rdr[n].wire[i].t = "Screen" => i = 1 /\ Blank /\ NoneWaits
          /\ rdr[n].served BY <1>0, <1>2 DEF ScreenInv, Unread
  <2>2. ASSUME NEW i \in DOMAIN chan', OfNow(chan'[i]), chan'[i].x.t = "Screen"
        PROVE  Blank /\ \A j \in 1..(i - 1) : j \in DOMAIN chan' => ~OfNow(chan'[j])
    <3>1. CASE i \in DOMAIN chan /\ chan'[i] = chan[i]
      <4>1. Blank /\ \A j \in 1..(i - 1) : ~OfNow(chan[j]) BY <1>0, <2>2, <3>1 DEF ScreenInv
      <4>2. \A j \in 1..(i - 1) : j \in DOMAIN chan BY <1>3, <3>1
      <4>3. ASSUME NEW j \in 1..(i - 1), j \in DOMAIN chan' PROVE ~OfNow(chan'[j])
        BY <1>3, <4>1, <4>2, <4>3
      <4> QED BY <4>1, <4>3
    <3>2. CASE i = Len(chan) + 1 /\ chan'[i] = m
      <4>1. Blank /\ NoneWaits BY <1>1, <1>8, <2>1, <2>2, <3>2
      <4>2. ASSUME NEW j \in 1..(i - 1), j \in DOMAIN chan' PROVE ~OfNow(chan'[j])
        <5>1. j # Len(chan) + 1 BY <1>0, <3>2
        <5>2. j \in DOMAIN chan /\ chan'[j] = chan[j] BY <5>1, <4>2
        <5> QED BY <4>1, <5>2 DEF NoneWaits
      <4> QED BY <4>1, <4>2
    <3> QED BY <3>1, <3>2
  <2>d. \A i \in DOMAIN chan' : \A j \in 1..(i - 1) : j \in DOMAIN chan' BY <1>0
  <2>3. ASSUME NEW k \in Attempts, k = core.attempt, k # n
        PROVE  /\ \A i \in DOMAIN rdr'[k].wire : rdr'[k].wire[i].t = "Screen" => i = 1 /\ Blank /\ NoneWaits'
               /\ ~rdr'[k].served => rdr'[k].wire = <<>> /\ Blank /\ NoneWaits'
    <3>1. NoneWaits => NoneWaits' BY <1>5, <1>8, <2>3 DEF NoneWaits
    <3> QED BY <1>0, <2>3, <3>1 DEF ScreenInv, Unread
  <2>4. ASSUME NEW k \in Attempts, k = core.attempt, k = n
        PROVE  /\ \A i \in DOMAIN rdr'[k].wire : rdr'[k].wire[i].t # "Screen"
               /\ rdr'[k].served
    <3>1. \A i \in DOMAIN rdr'[n].wire : i + 1 # 1 OBVIOUS
    <3> QED BY <2>1, <2>4, <3>1
  <2>5. \A i \in DOMAIN chan' : OfNow(chan'[i]) /\ chan'[i].x.t = "Screen" =>
          Blank /\ \A j \in 1..(i - 1) : ~OfNow(chan'[j]) BY <2>2, <2>d
  <2> QED BY <1>5, <1>7, <2>3, <2>4, <2>5 DEF ScreenInv, Unread
<1>11. OrderInv'
  <2>1. ChanOrder /\ (n = core.attempt => WireOrder(rdr[n].wire)) BY <1>0 DEF OrderInv, Unread
  <2>2. Asks(m) => n = core.attempt /\ rdr[n].wire[1].ev = "read" BY <1>1, <1>8 DEF Asks
  <2>3. Asks(m) => Ahead(m.x) /\ \A j \in DOMAIN chan : Asks(chan[j]) => chan[j].x.req < m.x.req
    BY <1>1, <2>1, <2>2 DEF WireOrder
  <2>4. ASSUME NEW i \in DOMAIN chan', Asks(chan'[i])
        PROVE  /\ Ahead(chan'[i].x)
               /\ \A j \in DOMAIN chan' : i < j /\ Asks(chan'[j]) => chan'[i].x.req < chan'[j].x.req
    <3>1. CASE i \in DOMAIN chan /\ chan'[i] = chan[i] BY <2>1, <2>3, <2>4, <3>1 DEF ChanOrder
    <3>2. CASE i = Len(chan) + 1 /\ chan'[i] = m
      <4>1. \A j \in DOMAIN chan' : ~(i < j) BY <1>0, <3>2
      <4> QED BY <2>3, <2>4, <3>2, <4>1
    <3> QED BY <3>1, <3>2
  <2>5. ChanOrder' BY <1>5, <1>6, <2>4 DEF ChanOrder, Ahead
  <2>6. ASSUME NEW k \in Attempts, k = core.attempt PROVE WireOrder(rdr[k].wire)'
    <3>1. CASE k # n
      <4>1. ~Asks(m) BY <2>2, <2>6, <3>1
      <4>2. WireOrder(rdr[k].wire) /\ rdr'[k].wire = rdr[k].wire BY <1>0, <2>6, <3>1 DEF OrderInv, Unread
      <4>3. \A j \in DOMAIN chan' : Asks(chan'[j]) => j \in DOMAIN chan /\ chan'[j] = chan[j] BY <4>1
      <4> QED BY <1>5, <1>6, <4>2, <4>3 DEF WireOrder, Ahead
    <3>2. CASE k = n
      <4> DEFINE w == rdr[n].wire
                 x == rdr'[n].wire
      <4>0. WireOrder(w) /\ 1 \in DOMAIN w /\ m.x = w[1]
            /\ \A i \in DOMAIN x : i \in Nat \ {0} /\ i + 1 \in DOMAIN w /\ x[i] = w[i + 1]
        BY <1>1, <2>1, <2>6, <3>2
      <4>x. rdr'[k].wire = x BY <3>2
      <4> HIDE DEF w, x
      <4>1. ASSUME NEW i \in DOMAIN x, x[i].ev = "read"
            PROVE  /\ Ahead(x[i])
                   /\ \A j \in DOMAIN x : i < j /\ x[j].ev = "read" => x[i].req < x[j].req
                   /\ \A j \in DOMAIN chan' : Asks(chan'[j]) => chan'[j].x.req < x[i].req
        <5>1. Ahead(x[i]) BY <4>0, <4>1 DEF WireOrder
        <5>2. ASSUME NEW j \in DOMAIN x, i < j, x[j].ev = "read" PROVE x[i].req < x[j].req
          <6>1. i + 1 < j + 1 BY <4>0, <5>2
          <6> QED BY <4>0, <4>1, <5>2, <6>1 DEF WireOrder
        <5>3. ASSUME NEW j \in DOMAIN chan', Asks(chan'[j]) PROVE chan'[j].x.req < x[i].req
          <6>1. CASE j \in DOMAIN chan /\ chan'[j] = chan[j] BY <4>0, <4>1, <5>3, <6>1 DEF WireOrder
          <6>2. CASE chan'[j] = m
            <7>1. 1 < i + 1 /\ w[1].ev = "read" /\ m.x = w[1] BY <4>0, <5>3, <6>2 DEF Asks
            <7> QED BY <4>0, <4>1, <6>2, <7>1 DEF WireOrder
          <6> QED BY <6>1, <6>2
        <5> QED BY <5>1, <5>2, <5>3
      <4> QED BY <1>5, <1>6, <4>1, <4>x DEF WireOrder, Ahead
    <3> QED BY <3>1, <3>2
  <2> QED BY <2>5, <2>6 DEF OrderInv, Unread
<1>12. ToldInv' BY <1>0, <1>1 DEF ToldInv, Opened
<1> QED BY <1>9, <1>10, <1>11, <1>12

LEMMA ReadsKeep ==
  ASSUME HandleInv, NEW n \in Attempts, Reads(n), UNCHANGED <<core, st, pub, prog, api>>
  PROVE  HandleInv'
<1> DEFINE w == rdr[n].wire
           l == Alive
           m == Msg("Frame", n, w[1])
<1>0. HandleTypes /\ Owned /\ rdr \in [Attempts -> ReaderRecord] /\ rdr[n] \in ReaderRecord
      /\ w \in Seq(HandleFrame) /\ chan \in Seq(HandleMsg) /\ w # <<>> /\ prog \in ProgRecord
  BY DEF HandleInv, HandleTypes, Reads, ReaderRecord
<1>1. /\ rdr' = [rdr EXCEPT ![n].wire = Tail(@), ![n].live = l]
      /\ chan' = Append(chan, Msg("Frame", n, Head(w))) \/ chan' = chan BY DEF Reads, Send
<1>2. l \in BOOLEAN BY DEF Alive
<1> HIDE DEF l
<1>w. w = rdr[n].wire OBVIOUS
<1>3. /\ 1 \in DOMAIN w /\ Head(w) = w[1] /\ w[1] \in HandleFrame /\ Tail(w) \in Seq(HandleFrame)
      /\ \A i \in DOMAIN Tail(w) : i \in Nat \ {0} /\ i + 1 \in DOMAIN w /\ Tail(w)[i] = w[i + 1]
  <2> HIDE DEF w
  <2>1. Len(w) \in Nat \ {0} /\ DOMAIN w = 1..Len(w) /\ Head(w) = w[1] /\ Tail(w) \in Seq(HandleFrame)
        /\ Len(Tail(w)) = Len(w) - 1 /\ DOMAIN Tail(w) = 1..(Len(w) - 1)
        /\ \A i \in 1..(Len(w) - 1) : Tail(w)[i] = w[i + 1] BY <1>0
  <2> QED BY <1>0, <2>1
<1>4. rdr' = [rdr EXCEPT ![n] = [@ EXCEPT !.wire = Tail(w), !.live = l]] BY <1>0, <1>1 DEF ReaderRecord
<1> HIDE DEF w
<1>5. /\ rdr' \in [Attempts -> ReaderRecord] /\ rdr'[n].wire = Tail(w)
      /\ (rdr'[n].open <=> rdr[n].open) /\ (rdr'[n].served <=> rdr[n].served)
      /\ \A k \in Attempts : k # n => rdr'[k] = rdr[k]
  <2> DEFINE x == Tail(w)
  <2>1. x \in Seq(HandleFrame) /\ rdr' = [rdr EXCEPT ![n] = [@ EXCEPT !.wire = x, !.live = l]]
    BY <1>3, <1>4
  <2> HIDE DEF x
  <2>2. /\ rdr' \in [Attempts -> ReaderRecord] /\ rdr'[n].wire = x
        /\ (rdr'[n].open <=> rdr[n].open) /\ (rdr'[n].served <=> rdr[n].served)
        /\ \A k \in Attempts : k # n => rdr'[k] = rdr[k] BY <1>0, <1>2, <2>1 DEF ReaderRecord
  <2> QED BY <2>2 DEF x
<1>6. m \in HandleMsg BY <1>3 DEF Msg, HandleMsg, Attempts
<1>m. m = Msg("Frame", n, w[1]) OBVIOUS
<1>7. chan' = Append(chan, m) \/ chan' = chan BY <1>1, <1>3
<1> HIDE DEF m
<1>8. /\ chan' \in Seq(HandleMsg)
      /\ \A i \in DOMAIN chan : i \in DOMAIN chan' /\ chan'[i] = chan[i]
      /\ \A i \in DOMAIN chan' : \/ i \in DOMAIN chan /\ chan'[i] = chan[i]
                                 \/ i = Len(chan) + 1 /\ chan'[i] = m
  <2>1. CASE chan' = chan BY <1>0, <2>1
  <2>2. CASE chan' = Append(chan, m) BY <1>0, <1>6, <2>2
  <2> QED BY <1>7, <2>1, <2>2
<1>9. n <= core.attempt
  <2>1. ~(n > core.attempt) BY <1>0, <1>w DEF Owned
  <2>2. core.attempt \in Nat BY DEF HandleInv, Fits, CoreRecord
  <2> QED BY <2>1, <2>2 DEF Attempts
<1>10. (Owned /\ ScreenInv /\ OrderInv /\ ToldInv)'
  <2>1. m = Msg("Frame", n, rdr[n].wire[1]) /\ 1 \in DOMAIN rdr[n].wire BY <1>3, <1>m, <1>w
  <2>2. \A k \in Attempts : (rdr'[k].open <=> rdr[k].open) /\ (rdr'[k].served <=> rdr[k].served) BY <1>5
  <2>3. \A k \in Attempts : k # n => rdr'[k].wire = rdr[k].wire BY <1>5
  <2>4. \A i \in DOMAIN rdr'[n].wire :
          i \in Nat \ {0} /\ i + 1 \in DOMAIN rdr[n].wire /\ rdr'[n].wire[i] = rdr[n].wire[i + 1]
    BY <1>3, <1>5, <1>w
  <2> QED BY <1>8, <1>9, <2>1, <2>2, <2>3, <2>4, ReadLine
<1>11. HandleTypes' BY <1>0, <1>5, <1>8 DEF HandleTypes
<1>12. prog' \in ProgRecord /\ prog'.got = prog.got /\ prog.reqs <= prog'.reqs /\ (prog'.wrong <=> prog.wrong)
  BY <1>0 DEF ProgRecord
<1> QED BY <1>8, <1>10, <1>11, <1>12, OutsideKeeps

(* The thread ends, and connect_and_attach's says so. *)
LEMMA ReaderEndKeeps ==
  ASSUME HandleInv, NEW n \in Attempts, UNCHANGED <<core, st, pub, prog, api>>,
         rdr' = [rdr EXCEPT ![n].live = FALSE],
         chan' = Append(chan, Msg("Disconnected", n, "none")) \/ chan' = chan
  PROVE  HandleInv'
<1> DEFINE m == Msg("Disconnected", n, "none")
<1>0. HandleTypes /\ Owned /\ rdr \in [Attempts -> ReaderRecord] /\ rdr[n] \in ReaderRecord
      /\ chan \in Seq(HandleMsg) /\ prog \in ProgRecord BY DEF HandleInv, HandleTypes, ReaderRecord
<1>1. rdr' = [rdr EXCEPT ![n] = [@ EXCEPT !.live = FALSE]] BY <1>0
<1>2. /\ rdr' \in [Attempts -> ReaderRecord]
      /\ \A k \in Attempts : rdr'[k].wire = rdr[k].wire /\ (rdr'[k].open <=> rdr[k].open)
                             /\ (rdr'[k].served <=> rdr[k].served)
  <2> DEFINE v == [rdr[n] EXCEPT !.live = FALSE]
  <2>1. v \in ReaderRecord /\ v.wire = rdr[n].wire /\ (v.open <=> rdr[n].open) /\ (v.served <=> rdr[n].served)
    BY <1>0 DEF ReaderRecord
  <2>2. rdr' = [rdr EXCEPT ![n] = v] BY <1>1
  <2> HIDE DEF v
  <2>3. rdr'[n] = v /\ \A k \in Attempts : k # n => rdr'[k] = rdr[k] BY <1>0, <2>2
  <2>4. rdr' \in [Attempts -> ReaderRecord] BY <1>0, <2>1, <2>2
  <2> QED BY <2>1, <2>3, <2>4
<1>3. SameStreams /\ NoneOpens /\ SameCore BY <1>0, <1>2 DEF SameStreams, NoneOpens, SameCore, Owned
<1>4. m \in HandleMsg /\ m.m = "Disconnected" BY DEF Msg, HandleMsg, PlainKinds, Attempts
<1>5. chan' = Append(chan, m) \/ chan' = chan OBVIOUS
<1> HIDE DEF m
<1>6. /\ (Owned /\ ScreenInv /\ OrderInv /\ ToldInv)' /\ chan' \in Seq(HandleMsg)
      /\ \A i \in DOMAIN chan : i \in DOMAIN chan' /\ chan'[i] = chan[i]
  <2>1. CASE chan' = chan BY <1>0, <1>3, <2>1, LineStays
  <2>2. CASE chan' = Append(chan, m) BY <1>3, <1>4, <2>2, AppendPlain
  <2> QED BY <1>5, <2>1, <2>2
<1>7. HandleTypes' BY <1>0, <1>2, <1>6 DEF HandleTypes
<1>8. prog' \in ProgRecord /\ prog'.got = prog.got /\ prog.reqs <= prog'.reqs /\ (prog'.wrong <=> prog.wrong)
  BY <1>0 DEF ProgRecord
<1> QED BY <1>6, <1>7, <1>8, OutsideKeeps

LEMMA HandleBegins == ASSUME HandleInit PROVE HandleInv
<1>1. PICK b \in {"spawn", "attach"} :
        /\ FreshCore(b)
        /\ \E md \in BOOLEAN : prog = NewProgram(md)
        /\ rdr = [n \in Attempts |-> Reader(n, b = "spawn")] BY DEF HandleInit, SpawnHandle, AttachHandle
<1>2. core \in CoreRecord /\ core.attempt = 1 /\ ~core.mode /\ core.paste.open = 0 /\ core.paste.req = 0
      /\ core.reads = 0 /\ ~core.pmode /\ ~core.dirty /\ core.screen = <<0, 0>> /\ core.backend = b
  BY <1>1 DEF FreshCore, CoreRecord, PasteRecord, NoPaste
<1>3. /\ st \in StateRecord /\ st.rev = 1 /\ (st.ready <=> b = "spawn") /\ st.attempt = 1
      /\ st.cache = <<0, <<0, 0>>>>
  <2> DEFINE rd == b = "spawn"
  <2>1. rd \in BOOLEAN /\ (rd <=> b = "spawn") OBVIOUS
  <2>2. st = [rev |-> 1, ready |-> rd, connected |-> TRUE, connecting |-> FALSE,
              closed |-> FALSE, exited |-> FALSE, attempt |-> 1, cache |-> <<0, <<0, 0>>>>]
    BY <1>1 DEF FreshCore
  <2> HIDE DEF rd
  <2> QED BY <2>1, <2>2 DEF StateRecord, Snapshots
<1>4. pub = [frame |-> 0, observers |-> 0] /\ chan = <<>>
      /\ api \in ApiRecord /\ api.reply = <<0, <<0, 0>>>> /\ api.told = {}
  BY <1>1 DEF FreshCore, ApiRecord, Snapshots
<1>5. prog \in ProgRecord /\ ~prog.wrong /\ prog.got = <<>> /\ prog.reqs = 0
  BY <1>1 DEF NewProgram, ProgRecord
<1>6. /\ rdr \in [Attempts -> ReaderRecord]
      /\ \A n \in Attempts : rdr[n].wire = <<>> /\ (rdr[n].open <=> n = 1) /\ (rdr[n].served <=> b = "spawn")
  <2>1. ASSUME NEW n \in Attempts
        PROVE  /\ Reader(n, b = "spawn") \in ReaderRecord /\ Reader(n, b = "spawn").wire = <<>>
               /\ (Reader(n, b = "spawn").open <=> n = 1) /\ (Reader(n, b = "spawn").served <=> b = "spawn")
    <3> DEFINE sv == b = "spawn"
               o == n = 1
    <3>1. sv \in BOOLEAN /\ o \in BOOLEAN /\ Reader(n, b = "spawn") = [live |-> o, wire |-> <<>>, open |-> o, served |-> sv]
      BY DEF Reader
    <3>2. (o <=> n = 1) /\ (sv <=> b = "spawn") OBVIOUS
    <3>3. <<>> \in Seq(HandleFrame) OBVIOUS
    <3> HIDE DEF sv, o
    <3> DEFINE v == [live |-> o, wire |-> <<>>, open |-> o, served |-> sv]
    <3>4. v \in ReaderRecord /\ v.wire = <<>> /\ (v.open <=> o) /\ (v.served <=> sv)
      BY <3>1, <3>3 DEF ReaderRecord
    <3>5. Reader(n, b = "spawn") = v BY <3>1
    <3> HIDE DEF v
    <3> QED BY <3>2, <3>4, <3>5
  <2> QED BY <1>1, <2>1
<1>7. HandleTypes BY <1>4, <1>5, <1>6 DEF HandleTypes
<1>8. Fits(core, st) BY <1>2, <1>3 DEF Fits
<1>9. Replied /\ Observed BY <1>2, <1>3, <1>4 DEF Replied, Observed
<1>10. DOMAIN chan = {} /\ DOMAIN prog.got = {} BY <1>4, <1>5
<1>11. Owned BY <1>2, <1>6, <1>10 DEF Owned, Attempts
<1>12. ScreenInv /\ OrderInv
  <2>1. \A n \in Attempts : DOMAIN rdr[n].wire = {} BY <1>6
  <2>2. Blank /\ NoneWaits BY <1>2, <1>10 DEF Blank, NoneWaits
  <2> QED BY <1>6, <1>10, <2>1, <2>2 DEF ScreenInv, OrderInv, ChanOrder, WireOrder
<1>13. ToldInv /\ AnswerInv BY <1>2, <1>4, <1>5, <1>10 DEF ToldInv, AnswerInv
<1> QED BY <1>7, <1>8, <1>9, <1>11, <1>12, <1>13 DEF HandleInv

LEMMA HandleStep == ASSUME HandleInv, HandleNext PROVE HandleInv'
<1>1. ASSUME NEW ev \in {"none", "on", "off", "read"}, SessionSpeaks(ev) PROVE HandleInv'
  BY <1>1, SpeakKeeps DEF EventKinds
<1>2. ASSUME NEW n \in Attempts, DaemonServes(n) \/ StreamEnds(n) PROVE HandleInv'
  BY <1>2, ServeKeeps, EndKeeps
<1>3. ASSUME NEW n \in Attempts, ReaderReads(n) \/ ChildReads(n) PROVE HandleInv'
  <2>1. UNCHANGED <<core, st, pub, prog, api>> BY <1>3 DEF ReaderReads, ChildReads
  <2>2. CASE Reads(n) BY <2>1, <2>2, ReadsKeep
  <2>3. CASE ~Reads(n)
    <3>1. /\ rdr' = [rdr EXCEPT ![n].live = FALSE]
          /\ chan' = Append(chan, Msg("Disconnected", n, "none")) \/ chan' = chan
      BY <1>3, <2>3 DEF ReaderReads, ChildReads, Send
    <3> QED BY <2>1, <3>1, ReaderEndKeeps
  <2> QED BY <2>2, <2>3
<1>4. CASE Dispatches \/ FlushFrame \/ Reconnect \/ ConnectAndAttach \/ Shutdown
  BY <1>4, DispatchKeeps, FlushKeeps, ReconnectKeeps, ConnectKeeps, ShutdownKeeps
<1>5. CASE Call \/ AnswerPaste \/ SnapshotAsks \/ SnapshotCaches \/ ObserveFrames \/ DropObserver
  BY <1>5, CallsKeep, AnswerKeeps, SnapshotKeeps, ObserversKeep
<1> QED BY <1>1, <1>2, <1>3, <1>4, <1>5 DEF HandleNext

LEMMA HandleStutters == ASSUME HandleInv, UNCHANGED hvars PROVE HandleInv'
<1>1. UNCHANGED <<core, st, pub, chan, rdr, prog, api>> BY DEF hvars
<1>2. Fits(core, st)' /\ HandleTypes' BY <1>1 DEF HandleInv, HandleTypes
<1>3. (Replied /\ Observed)' BY <1>1 DEF HandleInv, Replied, Observed
<1>4. SameStreams /\ NoneOpens /\ SameCore BY <1>1 DEF SameStreams, NoneOpens, SameCore, HandleInv, Owned
<1>5. (Owned /\ ScreenInv /\ OrderInv /\ ToldInv /\ AnswerInv)' BY <1>1, <1>4, LineStays
<1> QED BY <1>2, <1>3, <1>5 DEF HandleInv

LEMMA HandleShows ==
  ASSUME HandleInv
  PROVE  CacheIsCurrent /\ ReadyIsOwnScreen /\ OpenReadIsLive /\ ObserverIsUpToDate /\ ReadsAnsweredOnce
<1>1. CacheIsCurrent /\ ReadyIsOwnScreen /\ OpenReadIsLive
  BY DEF HandleInv, Fits, CacheIsCurrent, ReadyIsOwnScreen, OpenReadIsLive
<1>2. ObserverIsUpToDate BY DEF HandleInv, Observed, ObserverIsUpToDate
<1>3. ReadsAnsweredOnce
  <2>1. DOMAIN prog.got = 1..Len(prog.got) BY DEF HandleInv, HandleTypes, ProgRecord
  <2> QED BY <2>1 DEF HandleInv, AnswerInv, ReadsAnsweredOnce
<1> QED BY <1>1, <1>2, <1>3

----------------------------------------------------------------------------
(* The two views as parts of the specification. *)

AttachPart == part = "attach" => AttachInv
HandlePart == part = "handle" => HandleInv

LEMMA ViewsBegin == Init => AttachPart /\ HandlePart
BY AttachBegins, HandleBegins DEF Init, AttachPart, HandlePart

LEMMA ViewsStep ==
  ASSUME AttachPart, HandlePart, [Next]_vars
  PROVE  AttachPart' /\ HandlePart'
<1>1. part' = part
  BY DEF Next, LaunchMoves, AttachMoves, QueryMoves, HandleMoves, PickerMoves, WordsMoves, vars
<1>2. part = "attach" => AttachNext \/ UNCHANGED avars
  BY DEF Next, LaunchMoves, AttachMoves, QueryMoves, HandleMoves, PickerMoves, WordsMoves, vars
<1>3. part = "handle" => HandleNext \/ UNCHANGED hvars
  BY DEF Next, LaunchMoves, AttachMoves, QueryMoves, HandleMoves, PickerMoves, WordsMoves, vars
<1>4. AttachPart' BY <1>1, <1>2, AttachStep, AttachStutters DEF AttachPart
<1>5. HandlePart' BY <1>1, <1>3, HandleStep, HandleStutters DEF HandlePart
<1> QED BY <1>4, <1>5

(* Over any number of connections, pieces of output and presses: what the *)
(* attached client has still to read continues what it has shown, from the *)
(* last screen of its connection on (attach.rs).  Over any number of *)
(* attempts, readers, reads and callers: the frames of the handle's current *)
(* attempt, in the channel and on the wire, are in the order the session *)
(* wrote them with its screen first, and every caller's answer is for a *)
(* read that was opened (handle.rs). *)
THEOREM ViewInvariance == Spec => [](AttachPart /\ HandlePart)
<1>1. (AttachPart /\ HandlePart) /\ [Next]_vars => (AttachPart /\ HandlePart)' BY ViewsStep
<1> QED BY <1>1, ViewsBegin, PTL DEF Spec

(* What attach shows is the session's output with nothing missing, repeated *)
(* or reordered since the last screen of its connection, across reconnects, *)
(* and only a peer's own bytes are malformed; a cached snapshot is current, *)
(* a ready handle shows its own attempt's screen, an observer of an idle *)
(* actor sees the last frame, and every paste read is answered at most once *)
(* and with its own answer (attach.rs, handle.rs). *)
THEOREM CurrentViews == Spec => []ViewsAreCurrent
<1>1. AttachPart /\ HandlePart => ViewsAreCurrent
  BY AttachShows, HandleShows DEF AttachPart, HandlePart, ViewsAreCurrent
<1> QED BY <1>1, ViewInvariance, PTL
============================================================================
