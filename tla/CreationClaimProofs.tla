------------------------ MODULE CreationClaimProofs ------------------------
(***************************************************************************)
(* Proofs about CreationClaim for any finite set of contenders and any     *)
(* number of deaths.                                                       *)
(***************************************************************************)
EXTENDS CreationClaim, TLAPS

----------------------------------------------------------------------------
(* The inductive invariant.  Most of it is about one process at a time. *)

PinPC     == {"pinopen", "pinflock", "pincheck"}
ReleasePC == {"relopen", "relwithdraw", "relflock", "relcheck",
              "relunlink", "reltoken"}
TailPC    == {"cleanup", "sweep", "sweeptoken", "unlock"}
PublishPC == {"publish", "effect", "take"}
AcquirePC == {"idle", "busy", "open", "again", "flock", "read",
              "judge", "forget", "unlink", "replace"}
SwapPC    == {"fence", "hoswap", "hbswap"}

LockedPC  == {"judge", "forget", "unlink", "replace",
              "cleanup", "sweep", "sweeptoken", "unlock",
              "publish", "effect", "take", "fence", "hoswap", "hbswap",
              "relcheck", "relunlink", "reltoken", "pincheck", "unpin"}
(* Where the name is known to lead to the inode that is locked. *)
BoundPC   == {"publish", "effect", "take", "fence", "hoswap", "hbswap",
              "forget", "unlink", "relunlink", "sweep"}
DaemonPC  == {"publish", "effect", "take", "serving", "handback", "hbswap",
              "hbtoken", "hbcheck", "hbforget", "owned", "retired",
              "admitted", "gated", "unborn"}
LauncherPC == {"waiting", "hoswap", "handed"}
AfterPC   == {"relopen", "relwithdraw", "relflock", "relcheck",
              "relunlink", "reltoken", "cleanup", "sweep", "sweeptoken",
              "unlock", "waiting", "done", "dead"}
ClaimedPC == {"held", "fence", "hoswap", "serving", "handback", "hbswap",
              "admitted", "waiting", "drop", "handed"}
TailRet   == {"busy", "idle", "read", "drop", "done", "hbforget", "handed",
              "retired", "owned", "hbtoken", "serving"}

AliveOK(p) == p \in alive <=> pc[p] # "dead"

(* The advisory lock is held exactly where the code holds it. *)
FlockOK(p) ==
  /\ flocked[p] <=> pc[p] \in LockedPC
  /\ pc[p] \in LockedPC \cup {"flock", "relflock", "relwithdraw", "pinflock"}
       => fd[p] # 0

(* A checked entry cannot change while its inode stays locked. *)
BoundOK(p) == pc[p] \in BoundPC => path = fd[p]

(* Who may be where. *)
RoleOK(p) ==
  /\ pc[p] \in DaemonPC \/ ret[p] \in DaemonPC => p = Daemon
  /\ pc[p] \in LauncherPC \/ ret[p] \in LauncherPC => p = Launcher
  /\ pc[p] = "fence" \/ ret[p] = "fence" => p \in Contenders

(* A guard's nonce is that of a record its holder published, and whoever *)
(* has a claim to give up knows it. *)
GuardOK(p) ==
  /\ guard[p] # 0 =>
       guard[p] \in 1..Len(rec) /\ rec[guard[p]] = Owner(p, guard[p])
  /\ pc[p] \in ClaimedPC \/ ret[p] \in ClaimedPC => guard[p] # 0

(* What a pin and a release are about, and where they return to. *)
Mine(p) == tgt[p].pid = p \/ (p = Daemon /\ tgt[p].pid = Launcher)

TargetOK(p) ==
  /\ pc[p] \in PinPC =>
       \/ ret[p] = "publish" /\ Mine(p) /\ p = Daemon
       \/ ret[p] \in SwapPC /\ guard[p] # 0 /\ tgt[p] = Owner(p, guard[p])
  /\ pc[p] \in SwapPC => tgt[p] = Owner(p, guard[p])
  /\ pc[p] \in PublishPC \cup {"unpin"} => Mine(p)
  /\ pc[p] \in PublishPC \cup SwapPC \cup {"unpin"} => rec[fd[p]] = tgt[p]
  /\ pc[p] = "unpin" => ret[p] \in {"drop", "handed", "done", "retired",
                                    "owned", "hbtoken"}
  /\ pc[p] \in ReleasePC =>
       /\ Mine(p)
       /\ tgt[p].nonce = 0 \/ pc[p] = "relwithdraw" => p = Daemon
       /\ ret[p] \in {"done", "hbforget", "idle"}
       /\ p # Daemon => ret[p] = "done"
  /\ pc[p] \in ReleasePC \ {"relopen"} => rec[fd[p]].pid = tgt[p].pid
  /\ pc[p] \in TailPC =>
       /\ ret[p] \in TailRet
       /\ ret[p] = "serving" => pc[p] = "unlock"
       /\ ret[p] = "read" => pc[p] \in {"cleanup", "unlock"}

(* A claim just published, and one its guard is working under. *)
New(p) ==
  pc[p] = "read" \/ (pc[p] \in {"cleanup", "unlock"} /\ ret[p] = "read")
Works(p) == Holding(p) \/ (pc[p] = "unlock" /\ ret[p] = "serving")
Owns(p) == New(p) \/ Works(p)

OwnOK(p) ==
  /\ Owns(p) =>
       path # 0 /\ rec[path].pid = p /\ rec[path].nonce \notin withdrawn
  /\ New(p) => rec[path].nonce = path /\ (pc[p] # "read" => path # fd[p])
  /\ Works(p) => guard[p] = rec[path].nonce

(* A thief's victim is dead. *)
VictimOK(p) == pc[p] \in {"forget", "unlink"} => rec[fd[p]].pid \notin alive

ProcInv(p) ==
  /\ AliveOK(p) /\ FlockOK(p) /\ BoundOK(p) /\ RoleOK(p) /\ GuardOK(p)
  /\ TargetOK(p) /\ OwnOK(p) /\ VictimOK(p)

(* One process at a time has the advisory lock on an inode, and whoever *)
(* sweeps a claim takes it from nobody. *)
PairInv(p, q) ==
  /\ flocked[p] /\ flocked[q] /\ fd[p] = fd[q] => p = q
  /\ pc[p] = "sweep" => ~Owns(q)

(* Nonces are inode numbers, except for the launcher's, which returns. *)
RecordInv ==
  /\ \A i \in 1..Len(rec) :
       \/ rec[i].nonce = i
       \/ /\ guard[Launcher] # 0 /\ rec[i].nonce = guard[Launcher]
          /\ rec[i].pid \in {Launcher, Daemon}
  /\ withdrawn \subseteq 1..Len(rec) /\ active \cap withdrawn = {}

(* The launcher takes one claim, and has let go of it once its daemon is *)
(* at work. *)
LauncherInv ==
  /\ pc[Launcher] \in AcquirePC => guard[Launcher] = 0
  /\ pc[Launcher] \in TailPC /\ ret[Launcher] \in {"idle", "busy", "read"}
       => guard[Launcher] = 0
  /\ pc[Daemon] \notin {"unborn", "gated", "dead"} =>
       /\ guard[Launcher] # 0
       /\ pc[Launcher] \in AfterPC
       /\ pc[Launcher] \in ReleasePC \cup TailPC => ret[Launcher] = "done"

(* What was admitted is not revoked before it happens. *)
Admitted ==
  \/ pc[Daemon] \in {"effect", "take", "serving", "admitted"}
  \/ pc[Daemon] = "unlock" /\ ret[Daemon] = "serving"
FenceInv == Admitted => ~fenced

Inv ==
  /\ TypeOK
  /\ \A p \in Proc : ProcInv(p)
  /\ \A p, q \in Proc : PairInv(p, q)
  /\ RecordInv /\ LauncherInv /\ FenceInv

----------------------------------------------------------------------------
USE DEF PinPC, ReleasePC, TailPC, PublishPC, AcquirePC, SwapPC, LockedPC,
        BoundPC, DaemonPC, LauncherPC, AfterPC, ClaimedPC, TailRet

(* The launcher and the daemon are two processes, neither a contender. *)
LEMMA ProcFacts ==
  /\ Launcher \in Proc /\ Daemon \in Proc /\ Launcher # Daemon
  /\ Contenders \subseteq Proc
  /\ Launcher \notin Contenders /\ Daemon \notin Contenders
BY ProcAssumption DEF Proc

(* Inodes are only ever added, and their owner records never rewritten. *)
Grows ==
  /\ Len(rec) \in Nat /\ Len(rec') \in Nat /\ Len(rec) <= Len(rec')
  /\ \A i \in 1..Len(rec) : rec'[i] = rec[i]

(* A record with the nonce n of the process p became the lock. *)
Linked(p, n) ==
  /\ Grows
  /\ rec' \in Seq([pid : Proc, nonce : Nat])
  /\ Len(rec') = Len(rec) + 1 /\ path' = Len(rec')
  /\ rec'[path'] = Owner(p, n)
  /\ rec'[path'].pid = p /\ rec'[path'].nonce = n

(* What a hard link or a rename of a new owner record does. *)
LEMMA LinkFacts ==
  ASSUME TypeOK, NEW p \in Proc, NEW n \in Nat, Link(Owner(p, n))
  PROVE  Linked(p, n)
BY DEF TypeOK, Link, Fresh, Owner, Linked, Grows

(* A step that makes no inode keeps the records. *)
LEMMA SameGrows == ASSUME TypeOK, rec' = rec PROVE Grows
BY DEF TypeOK, Grows

(* A process that changes nothing but what it did before. *)
Same(q) ==
  /\ pc'[q] = pc[q] /\ fd'[q] = fd[q] /\ flocked'[q] = flocked[q]
  /\ guard'[q] = guard[q] /\ tgt'[q] = tgt[q] /\ ret'[q] = ret[q]

(* A step of p alone: it changes its own program state, and only its own *)
(* death changes who lives. *)
Others(p) ==
  /\ pc' = [pc EXCEPT ![p] = pc'[p]] /\ ret' = [ret EXCEPT ![p] = ret'[p]]
  /\ fd' = [fd EXCEPT ![p] = fd'[p]] /\ tgt' = [tgt EXCEPT ![p] = tgt'[p]]
  /\ flocked' = [flocked EXCEPT ![p] = flocked'[p]]
  /\ guard' = [guard EXCEPT ![p] = guard'[p]]
  /\ alive' \subseteq alive /\ alive \ {p} \subseteq alive'

(* What p changes has its type afterwards. *)
Typed(p) ==
  /\ rec' \in Seq([pid : Proc, nonce : Nat]) /\ Len(rec) <= Len(rec')
  /\ path' \in 0..Len(rec')
  /\ active' \subseteq Nat /\ withdrawn' \subseteq Nat
  /\ pc'[p] \in Labels /\ ret'[p] \in Labels
  /\ fd'[p] \in 0..Len(rec') /\ flocked'[p] \in BOOLEAN
  /\ guard'[p] \in Nat /\ tgt'[p] \in [pid : Proc, nonce : Nat]
  /\ fenced' \in BOOLEAN /\ published' \in BOOLEAN /\ forked' \in BOOLEAN

(* The types of what p has and of the files before a step. *)
TypedNow(p) ==
  /\ rec \in Seq([pid : Proc, nonce : Nat]) /\ Len(rec) \in Nat
  /\ path \in 0..Len(rec) /\ active \subseteq Nat /\ withdrawn \subseteq Nat
  /\ pc[p] \in Labels /\ ret[p] \in Labels
  /\ fd[p] \in 0..Len(rec) /\ flocked[p] \in BOOLEAN
  /\ guard[p] \in Nat /\ tgt[p] \in [pid : Proc, nonce : Nat]
  /\ fenced \in BOOLEAN /\ published \in BOOLEAN /\ forked \in BOOLEAN

(* TypeOK says so for every process. *)
LEMMA TypesBefore == ASSUME TypeOK, NEW p \in Proc PROVE TypedNow(p)
BY DEF TypeOK, TypedNow

(* Such a step leaves every other process where it was. *)
LEMMA OthersSame ==
  ASSUME TypeOK, NEW p \in Proc, Others(p)
  PROVE  \A q \in Proc \ {p} : Same(q)
BY DEF TypeOK, Others, Same

(* The types are kept by a step that keeps those of what it changes. *)
LEMMA Types ==
  ASSUME TypeOK, NEW p \in Proc, Others(p), Typed(p)
  PROVE  TypeOK'
<1>1. pc' \in [Proc -> Labels] /\ ret' \in [Proc -> Labels] BY ZenonT(60) DEF TypeOK, Others, Typed
<1>2. fd' \in [Proc -> 0..Len(rec')]
  <2>1. \A q \in Proc : fd[q] \in 0..Len(rec') BY DEF TypeOK, Typed
  <2> QED BY <2>1 DEF TypeOK, Others, Typed
<1>3. flocked' \in [Proc -> BOOLEAN] BY DEF TypeOK, Others, Typed
<1>4. guard' \in [Proc -> Nat] BY DEF TypeOK, Others, Typed
<1>5. tgt' \in [Proc -> [pid : Proc, nonce : Nat]] BY ZenonT(60) DEF TypeOK, Others, Typed
<1>6. alive' \subseteq Proc BY DEF TypeOK, Others
<1> QED BY <1>1, <1>2, <1>3, <1>4, <1>5, <1>6 DEF TypeOK, Typed

(* What a step of p must not do to the others. *)
Considerate(p) ==
  /\ Grows
  /\ \/ path' = path
     \/ path = 0
     \/ /\ flocked[p] /\ fd[p] = path
        /\ \A q \in Proc \ {p} : ~Owns(q)
  /\ \A q \in Proc \ {p} : Owns(q) => rec[path].nonce \notin withdrawn'

(* A considerate step of p keeps the invariant of every other process. *)
LEMMA OtherProc ==
  ASSUME Inv, TypeOK', NEW p \in Proc, NEW q \in Proc, q # p, Same(q),
         alive' \subseteq alive, q \in alive => q \in alive',
         Considerate(p)
  PROVE  ProcInv(q)'
<1>1. ProcInv(q) /\ PairInv(p, q) /\ TypeOK BY DEF Inv
<1>2. fd[q] \in 0..Len(rec) /\ path \in 0..Len(rec) BY DEF Inv, TypeOK
<1>3. fd[q] # 0 => rec'[fd[q]] = rec[fd[q]] BY <1>2 DEF Considerate, Grows
<1>4. AliveOK(q)' BY <1>1 DEF ProcInv, AliveOK, Same
<1>5. FlockOK(q)' BY <1>1 DEF ProcInv, FlockOK, Same
<1>6. BoundOK(q)'
  <2>1. SUFFICES ASSUME pc[q] \in BoundPC PROVE path' = path BY <1>1 DEF ProcInv, BoundOK, Same
  <2>2. flocked[q] /\ fd[q] # 0 /\ path = fd[q] BY <1>1, <2>1 DEF ProcInv, BoundOK, FlockOK
  <2> QED BY <1>1, <2>2 DEF Considerate, PairInv
<1>7. RoleOK(q)' BY <1>1 DEF ProcInv, RoleOK, Same
<1>8. GuardOK(q)' BY <1>1 DEF ProcInv, GuardOK, Same, Considerate, Grows, Owner
<1>9. TargetOK(q)'
  <2>1. pc[q] \in PublishPC \cup SwapPC \cup {"unpin"}
                  \cup (ReleasePC \ {"relopen"})
          => rec'[fd[q]] = rec[fd[q]] BY <1>1, <1>3 DEF ProcInv, FlockOK
  <2> QED BY <1>1, <2>1 DEF ProcInv, TargetOK, Mine, Same, Owner
<1>10. OwnOK(q)'
  <2>1. New(q)' = New(q) /\ Works(q)' = Works(q) /\ Owns(q)' = Owns(q)
    BY DEF Same, New, Works, Owns, Holding
  <2>2. CASE ~Owns(q) BY <2>1, <2>2 DEF OwnOK, Owns
  <2>3. CASE Owns(q)
    <3>1. path # 0 BY <1>1, <2>3 DEF ProcInv, OwnOK
    <3>2. path' = path BY <3>1, <2>3 DEF Considerate
    <3>3. rec'[path] = rec[path] BY <1>2, <3>1 DEF Considerate, Grows
    <3>4. rec[path].nonce \notin withdrawn' BY <2>3 DEF Considerate
    <3> QED BY <1>1, <2>1, <2>3, <3>1, <3>2, <3>3, <3>4
            DEF ProcInv, OwnOK, Same
  <2> QED BY <2>2, <2>3
<1>11. VictimOK(q)' BY <1>1, <1>3 DEF ProcInv, VictimOK, FlockOK, Same
<1> QED BY <1>4, <1>5, <1>6, <1>7, <1>8, <1>9, <1>10, <1>11 DEF ProcInv

(* How p may come to hold the advisory lock, a claim, or to sweep one. *)
Entitled(p) ==
  /\ flocked'[p] => \/ flocked[p] /\ fd'[p] = fd[p]
                    \/ FlockFree(fd'[p])
  /\ Owns(p)' => Owns(p) \/ path = 0 \/ (flocked[p] /\ fd[p] = path)
  /\ pc'[p] = "sweep" => \A q \in Proc : ~Owns(q)

(* An entitled step of p keeps the advisory locks exclusive, and what is *)
(* swept nobody else's. *)
LEMMA Pairs ==
  ASSUME Inv, NEW p \in Proc, Entitled(p), ProcInv(p)',
         \A q \in Proc \ {p} : Same(q)
  PROVE  \A r, q \in Proc : PairInv(r, q)'
<1> SUFFICES ASSUME NEW r \in Proc, NEW q \in Proc PROVE PairInv(r, q)' OBVIOUS
<1>0. PairInv(r, q) /\ PairInv(q, r) /\ ProcInv(r) /\ ProcInv(q) BY DEF Inv
<1>1. CASE r # p /\ q # p BY <1>0, <1>1 DEF PairInv, Same, Owns, New, Works, Holding
<1>2. CASE r = p /\ q = p BY <1>2 DEF PairInv, Owns, New, Works, Holding
<1>3. CASE r = p /\ q # p
  <2>1. Same(q) BY <1>3
  <2>2. Owns(q)' = Owns(q) BY <2>1 DEF Same, Owns, New, Works, Holding
  <2> QED BY <1>0, <1>3, <2>1, <2>2 DEF PairInv, Entitled, FlockFree, Same
<1>4. CASE r # p /\ q = p
  <2>1. Same(r) BY <1>4
  <2>2. pc[r] = "sweep" => flocked[r] /\ fd[r] = path /\ fd[r] # 0 BY <1>0 DEF ProcInv, FlockOK, BoundOK
  <2> QED BY <1>0, <1>4, <2>1, <2>2 DEF PairInv, Entitled, FlockFree, Same
<1> QED BY <1>1, <1>2, <1>3, <1>4

(* A step of one process keeps the invariant if it keeps its own part, is *)
(* considerate and entitled. *)
LEMMA OneProc ==
  ASSUME Inv, NEW p \in Proc, Others(p), Typed(p), Considerate(p), Entitled(p),
         ProcInv(p)', RecordInv', LauncherInv', FenceInv'
  PROVE  Inv'
<1>1. TypeOK' BY Types DEF Inv
<1>2. \A q \in Proc \ {p} : Same(q) BY OthersSame DEF Inv
<1>3. \A q \in Proc \ {p} : ProcInv(q)'
  <2> SUFFICES ASSUME NEW q \in Proc \ {p} PROVE ProcInv(q)' OBVIOUS
  <2> QED BY <1>1, <1>2, OtherProc DEF Others
<1> QED BY <1>1, <1>2, <1>3, Pairs DEF Inv

----------------------------------------------------------------------------
(* The actions, one lemma each. *)

(* Nothing changes in the file but that tokens disappear. *)
LEMMA Calm ==
  ASSUME Inv, NEW p \in Proc, UNCHANGED <<path, rec, guard>>,
         withdrawn' \subseteq withdrawn,
         \A n \in active' : n \in active \/ n \notin withdrawn'
  PROVE  Considerate(p) /\ RecordInv'
<1>1. Grows BY SameGrows DEF Inv
<1>2. \A q \in Proc : OwnOK(q) BY DEF Inv, ProcInv
<1>3. RecordInv' BY DEF Inv, RecordInv
<1> QED BY <1>1, <1>2, <1>3 DEF Considerate, OwnOK

(* A step that keeps the file it has open, and its claim. *)
Stays(p) == fd'[p] = fd[p] /\ flocked'[p] = flocked[p]
Keeps(p) == guard'[p] = guard[p] /\ tgt'[p] = tgt[p]

(* The records have their types. *)
LEMMA RecordTypes ==
  ASSUME TypeOK, NEW i \in 1..Len(rec)
  PROVE  rec[i].pid \in Proc /\ rec[i].nonce \in Nat
<1>1. \A S : rec \in Seq(S) => rec[i] \in S OBVIOUS
<1>2. rec[i] \in [pid : Proc, nonce : Nat] BY <1>1 DEF TypeOK
<1> QED BY <1>2

(* The entry disappears, and it was nobody else's. *)
LEMMA Removed ==
  ASSUME Inv, NEW p \in Proc, UNCHANGED <<rec, guard, active, withdrawn>>,
         flocked[p] /\ fd[p] = path, \A q \in Proc \ {p} : ~Owns(q)
  PROVE  Considerate(p) /\ RecordInv'
<1>1. Grows BY SameGrows DEF Inv
<1>2. RecordInv' BY DEF Inv, RecordInv
<1> QED BY <1>1, <1>2 DEF Considerate

(* Claims of different guards have different nonces. *)
LEMMA NotTheirs ==
  ASSUME Inv, NEW p \in Proc, NEW q \in Proc, p # q, guard[p] # 0, Owns(q)
  PROVE  rec[path].nonce # guard[p]
<1>1. ProcInv(p) /\ ProcInv(q) /\ GuardOK(Launcher) /\ RecordInv /\ TypeOK BY ProcFacts DEF Inv, ProcInv
<1>2. path \in 1..Len(rec) /\ rec[path].pid = q BY <1>1 DEF ProcInv, OwnOK, TypeOK
<1>3. guard[p] \in 1..Len(rec) /\ rec[guard[p]].pid = p BY <1>1 DEF ProcInv, GuardOK, Owner
<1>4. rec[path].nonce = path \/ rec[path].nonce = guard[Launcher] BY <1>1, <1>2 DEF RecordInv
<1>5. CASE rec[path].nonce = path BY <1>2, <1>3, <1>5
<1>6. CASE rec[path].nonce = guard[Launcher] /\ rec[path].nonce # path
  <2>1. guard[q] = guard[Launcher] BY <1>1, <1>6 DEF ProcInv, OwnOK, Owns
  <2>2. guard[Launcher] # 0 BY <1>1, <1>2, <1>6 DEF RecordInv
  <2>3. rec[guard[q]].pid = q BY <1>1, <2>1, <2>2 DEF ProcInv, GuardOK, Owner
  <2> QED BY <1>3, <1>6, <2>1, <2>3
<1> QED BY <1>4, <1>5, <1>6

(* Once the daemon is at work, the launcher's and the daemon's records are *)
(* no other owner's. *)
LEMMA NotAContenders ==
  ASSUME Inv, NEW i \in 1..Len(rec), rec[i].pid \in {Launcher, Daemon},
         pc[Daemon] \notin {"unborn", "gated", "dead"},
         NEW q \in Proc, q # Daemon, Owns(q)
  PROVE  q \in Contenders /\ rec[path].nonce # rec[i].nonce
<1>1. ProcInv(q) /\ GuardOK(Launcher) /\ RecordInv /\ LauncherInv /\ TypeOK BY ProcFacts DEF Inv, ProcInv
<1>2. q # Launcher BY <1>1 DEF LauncherInv, Owns, New, Works, Holding
<1>3. path \in 1..Len(rec) /\ rec[path].pid = q BY <1>1 DEF ProcInv, OwnOK, TypeOK
<1>4. rec[path].nonce = path BY <1>1, <1>2, <1>3 DEF RecordInv
<1>5. rec[i].nonce = i \/ rec[i].nonce = guard[Launcher] BY <1>1 DEF RecordInv
<1>6. rec[guard[Launcher]].pid = Launcher BY <1>1 DEF LauncherInv, GuardOK, Owner
<1> QED BY <1>2, <1>3, <1>4, <1>5, <1>6 DEF Proc

(* The nonce of p's own guard is withdrawn. *)
LEMMA Withdrawn ==
  ASSUME Inv, NEW p \in Proc, guard[p] # 0, Withdraw(guard[p]),
         UNCHANGED <<path, rec, guard>>
  PROVE  Considerate(p) /\ RecordInv'
<1>1. Grows BY SameGrows DEF Inv
<1>2. GuardOK(p) /\ RecordInv /\ \A q \in Proc : OwnOK(q) BY DEF Inv, ProcInv
<1>3. \A q \in Proc \ {p} : Owns(q) => rec[path].nonce # guard[p] BY NotTheirs
<1>4. RecordInv' BY <1>2 DEF RecordInv, GuardOK, Withdraw
<1> QED BY <1>1, <1>2, <1>3, <1>4 DEF Considerate, OwnOK, Withdraw

(* A record whose nonce is its inode's number. *)
LEMMA RecordAdded ==
  ASSUME RecordInv, TypeOK, NEW p, Linked(p, Fresh),
         guard'[Launcher] = guard[Launcher], UNCHANGED <<active, withdrawn>>
  PROVE  RecordInv'
<1>1. \A i \in 1..Len(rec') : i \in 1..Len(rec) \/ i = Len(rec') BY DEF Linked, Grows
<1>2. \A i \in 1..Len(rec') :
        \/ rec'[i].nonce = i
        \/ /\ guard[Launcher] # 0 /\ rec'[i].nonce = guard[Launcher]
           /\ rec'[i].pid \in {Launcher, Daemon} BY <1>1 DEF RecordInv, Linked, Grows, Fresh
<1>3. withdrawn' \subseteq 1..Len(rec') BY DEF RecordInv, Linked, Grows
<1> QED BY <1>2, <1>3 DEF RecordInv

(* A record with the launcher's nonce, which its daemon may have. *)
LEMMA RecordSwapped ==
  ASSUME RecordInv, TypeOK, NEW p \in {Launcher, Daemon},
         Linked(p, guard[Launcher]), guard[Launcher] # 0,
         UNCHANGED <<guard, active, withdrawn>>
  PROVE  RecordInv'
<1>1. \A i \in 1..Len(rec') : i \in 1..Len(rec) \/ i = Len(rec') BY DEF Linked, Grows
<1>2. \A i \in 1..Len(rec') :
        \/ rec'[i].nonce = i
        \/ /\ guard[Launcher] # 0 /\ rec'[i].nonce = guard[Launcher]
           /\ rec'[i].pid \in {Launcher, Daemon} BY <1>1 DEF RecordInv, Linked, Grows
<1>3. withdrawn' \subseteq 1..Len(rec') BY DEF RecordInv, Linked, Grows
<1> QED BY <1>2, <1>3 DEF RecordInv

(* A new claim where there was none. *)
LEMMA Published ==
  ASSUME Inv, NEW p \in Proc, path = 0, Linked(p, Fresh),
         UNCHANGED <<guard, active, withdrawn>>
  PROVE  /\ Considerate(p) /\ RecordInv' /\ path' # 0
         /\ Fresh \notin withdrawn /\ \A q \in Proc : ~Owns(q)
<1>1. RecordInv /\ TypeOK /\ \A q \in Proc : OwnOK(q) BY DEF Inv, ProcInv
<1>2. RecordInv' BY <1>1, RecordAdded
<1> QED BY <1>1, <1>2 DEF Considerate, OwnOK, Linked, RecordInv, Fresh, Grows

(* An owner's nonce is withdrawn that belongs to the launcher's or the *)
(* daemon's record, while the daemon is at work. *)
LEMMA WithdrawnRecord ==
  ASSUME Inv, NEW i \in 1..Len(rec), rec[i].pid \in {Launcher, Daemon},
         pc[Daemon] \notin {"unborn", "gated", "dead"},
         Withdraw(rec[i].nonce), UNCHANGED <<path, rec, guard>>
  PROVE  Considerate(Daemon) /\ RecordInv'
<1>1. \A q \in Proc \ {Daemon} : Owns(q) => rec[path].nonce # rec[i].nonce BY NotAContenders
<1>2. Grows BY SameGrows DEF Inv
<1>3. RecordInv /\ GuardOK(Launcher) /\ \A q \in Proc : OwnOK(q) BY ProcFacts DEF Inv, ProcInv
<1>4. rec[i].nonce \in 1..Len(rec) BY <1>3 DEF RecordInv, GuardOK
<1>5. RecordInv' BY <1>3, <1>4 DEF RecordInv, Withdraw
<1> QED BY <1>1, <1>2, <1>3, <1>5 DEF Considerate, OwnOK, Withdraw

USE DEF Stays, Keeps, Mine, Owns, New, Works, Holding, ProcInv

(* try_create publishes a record where there was none. *)
LEMMA AcquireStep ==
  ASSUME Inv, NEW p \in Proc, Acquire(p)
  PROVE  Inv'
<1>0. /\ TypeOK /\ ProcInv(p) /\ RecordInv /\ LauncherInv /\ FenceInv
      /\ p \in Proc /\ \A q \in Proc : PairInv(p, q) /\ OwnOK(q) BY ProcFacts DEF Inv, ProcInv
<1>a. /\ pc[p] \in {"idle", "busy"}
      /\ \/ path = 0 /\ Link(Owner(p, Fresh)) /\ pc'[p] = "read"
         \/ path # 0 /\ path' = path /\ rec' = rec /\ pc'[p] = "open"
      /\ Stays(p) /\ Keeps(p) /\ ret'[p] = ret[p]
      /\ UNCHANGED <<active, withdrawn, alive, fenced, published, forked>>
  BY <1>0 DEF TypeOK, Acquire, Go, fileVars, effects
<1>b. path = 0 => /\ Linked(p, Fresh) /\ Considerate(p) /\ RecordInv'
                  /\ path' # 0
                  /\ Fresh \notin withdrawn /\ \A q \in Proc : ~Owns(q)
  <2>1. UNCHANGED <<guard, active, withdrawn>> BY DEF Acquire
  <2>2. Fresh \in Nat BY <1>0 DEF TypeOK, Fresh
  <2> QED BY <1>0, <1>a, <2>1, <2>2, LinkFacts, Published
<1>c. Grows BY <1>0, <1>a, <1>b, SameGrows DEF Linked
<1>d. fd[p] \in 0..Len(rec) /\ (fd[p] # 0 => rec'[fd[p]] = rec[fd[p]]) BY SMTT(60), <1>0, <1>c DEF TypeOK, Grows
<1>t. TypedNow(p) BY <1>0, TypesBefore
<1>1. Others(p) BY <1>0 DEF TypeOK, Others, Acquire, Go, fileVars, effects
<1>2. \A q \in Proc \ {p} : Same(q) BY <1>0, <1>1, OthersSame
<1>3. Typed(p)
  <2>1. /\ rec' \in Seq([pid : Proc, nonce : Nat]) /\ Len(rec) <= Len(rec')
        /\ path' \in 0..Len(rec') BY SMTT(60), <1>0, <1>a, <1>b, <1>c DEF TypeOK, Linked, Grows
  <2>2. fd'[p] \in 0..Len(rec') BY <1>a, <1>c, <1>d, <2>1 DEF Grows
  <2> QED BY ZenonT(60), <1>a, <1>t, <2>1, <2>2 DEF TypedNow, Labels, Typed
<1>4. Considerate(p) /\ RecordInv'
  <2>1. UNCHANGED <<guard, active, withdrawn>> BY DEF Acquire
  <2> QED BY <1>0, <1>a, <1>b, <2>1, Calm
<1>5. Entitled(p) BY <1>0, <1>a DEF Entitled, FlockOK, TargetOK
<1>6. ProcInv(p)'
  <2>1. OwnOK(p)' BY <1>0, <1>a, <1>b, <1>d DEF FlockOK, OwnOK, Linked, Grows, Fresh
  <2>2. GuardOK(p)' BY <1>0, <1>a, <1>c DEF GuardOK, Grows
  <2>3. FlockOK(p)' /\ BoundOK(p)' BY <1>0, <1>a DEF FlockOK, BoundOK
  <2>4. TargetOK(p)' BY <1>0, <1>a, <1>d, ProcFacts DEF TargetOK, RoleOK
  <2>5. AliveOK(p)' /\ RoleOK(p)' /\ VictimOK(p)' BY <1>0, <1>a DEF AliveOK, RoleOK, VictimOK
  <2> QED BY <2>1, <2>2, <2>3, <2>4, <2>5
<1>7. LauncherInv' /\ FenceInv' BY <1>0, <1>a, <1>2, ProcFacts DEF LauncherInv, FenceInv, Admitted, Same,
     RoleOK, TargetOK
<1> QED BY <1>0, <1>1, <1>3, <1>4, <1>5, <1>6, <1>7, OneProc

(* The file in the way is opened; nothing is held yet. *)
LEMMA OpenStaleStep ==
  ASSUME Inv, NEW p \in Proc, OpenStale(p)
  PROVE  Inv'
<1>0. /\ TypeOK /\ ProcInv(p) /\ RecordInv /\ LauncherInv /\ FenceInv
      /\ p \in Proc /\ \A q \in Proc : PairInv(p, q) /\ OwnOK(q) BY ProcFacts DEF Inv, ProcInv
<1>a. /\ pc[p] = "open"
      /\ fd'[p] = path /\ pc'[p] = IF path = 0 THEN "again" ELSE "flock"
      /\ flocked'[p] = flocked[p] /\ Keeps(p) /\ ret'[p] = ret[p]
      /\ UNCHANGED <<path, rec, active, withdrawn, alive>>
      /\ UNCHANGED <<fenced, published, forked>> BY <1>0 DEF TypeOK, OpenStale, Go, fileVars, effects
<1>t. TypedNow(p) BY <1>0, TypesBefore
<1>1. Others(p) BY <1>0 DEF TypeOK, Others, OpenStale, Go, fileVars, effects
<1>2. \A q \in Proc \ {p} : Same(q) BY <1>0, <1>1, OthersSame
<1>3. Typed(p) BY <1>a, <1>t DEF TypedNow, Labels, Typed
<1>4. Considerate(p) /\ RecordInv' BY <1>0, Calm DEF OpenStale, Go, fileVars, effects
<1>5. Entitled(p) BY <1>0, <1>a DEF Entitled, FlockOK, TargetOK
<1>6. ProcInv(p)' BY <1>0, <1>a, ProcFacts DEF AliveOK, FlockOK, BoundOK, RoleOK, GuardOK,
     TargetOK, OwnOK, VictimOK
<1>7. LauncherInv' /\ FenceInv' BY <1>0, <1>a, <1>2, ProcFacts DEF LauncherInv, FenceInv, Admitted, Same,
     RoleOK, TargetOK
<1> QED BY <1>0, <1>1, <1>3, <1>4, <1>5, <1>6, <1>7, OneProc

(* The second try_create publishes like the first. *)
LEMMA CreateAgainStep ==
  ASSUME Inv, NEW p \in Proc, CreateAgain(p)
  PROVE  Inv'
<1>0. /\ TypeOK /\ ProcInv(p) /\ RecordInv /\ LauncherInv /\ FenceInv
      /\ p \in Proc /\ \A q \in Proc : PairInv(p, q) /\ OwnOK(q) BY ProcFacts DEF Inv, ProcInv
<1>a. /\ pc[p] = "again"
      /\ \/ path = 0 /\ Link(Owner(p, Fresh)) /\ pc'[p] = "read"
         \/ path # 0 /\ path' = path /\ rec' = rec /\ pc'[p] = "busy"
      /\ Stays(p) /\ Keeps(p) /\ ret'[p] = ret[p]
      /\ UNCHANGED <<active, withdrawn, alive, fenced, published, forked>>
  BY <1>0 DEF TypeOK, CreateAgain, Go, fileVars, effects
<1>b. path = 0 => /\ Linked(p, Fresh) /\ Considerate(p) /\ RecordInv'
                  /\ path' # 0
                  /\ Fresh \notin withdrawn /\ \A q \in Proc : ~Owns(q)
  <2>1. UNCHANGED <<guard, active, withdrawn>> BY DEF CreateAgain
  <2>2. Fresh \in Nat BY <1>0 DEF TypeOK, Fresh
  <2> QED BY <1>0, <1>a, <2>1, <2>2, LinkFacts, Published
<1>c. Grows BY <1>0, <1>a, <1>b, SameGrows DEF Linked
<1>d. fd[p] \in 0..Len(rec) /\ (fd[p] # 0 => rec'[fd[p]] = rec[fd[p]]) BY <1>0, <1>c DEF TypeOK, Grows
<1>t. TypedNow(p) BY <1>0, TypesBefore
<1>1. Others(p) BY <1>0 DEF TypeOK, Others, CreateAgain, Go, fileVars, effects
<1>2. \A q \in Proc \ {p} : Same(q) BY <1>0, <1>1, OthersSame
<1>3. Typed(p)
  <2>1. /\ rec' \in Seq([pid : Proc, nonce : Nat]) /\ Len(rec) <= Len(rec')
        /\ path' \in 0..Len(rec') BY SMTT(60), <1>0, <1>a, <1>b, <1>c DEF TypeOK, Linked, Grows
  <2>2. fd'[p] \in 0..Len(rec') BY <1>a, <1>c, <1>d, <2>1 DEF Grows
  <2> QED BY <1>a, <1>t, <2>1, <2>2 DEF TypedNow, Labels, Typed
<1>4. Considerate(p) /\ RecordInv'
  <2>1. UNCHANGED <<guard, active, withdrawn>> BY DEF CreateAgain
  <2> QED BY <1>0, <1>a, <1>b, <2>1, Calm
<1>5. Entitled(p) BY <1>0, <1>a DEF Entitled, FlockOK, TargetOK
<1>6. ProcInv(p)'
  <2>1. OwnOK(p)' BY <1>0, <1>a, <1>b, <1>d DEF FlockOK, OwnOK, Linked, Grows, Fresh
  <2>2. GuardOK(p)' BY <1>0, <1>a, <1>c DEF GuardOK, Grows
  <2>3. FlockOK(p)' /\ BoundOK(p)' BY <1>0, <1>a DEF FlockOK, BoundOK
  <2>4. TargetOK(p)' BY <1>0, <1>a, <1>d, ProcFacts DEF TargetOK, RoleOK
  <2>5. AliveOK(p)' /\ RoleOK(p)' /\ VictimOK(p)' BY <1>0, <1>a DEF AliveOK, RoleOK, VictimOK
  <2> QED BY <2>1, <2>2, <2>3, <2>4, <2>5
<1>7. LauncherInv' /\ FenceInv' BY <1>0, <1>a, <1>2, ProcFacts DEF LauncherInv, FenceInv, Admitted, Same,
     RoleOK, TargetOK
<1> QED BY <1>0, <1>1, <1>3, <1>4, <1>5, <1>6, <1>7, OneProc

(* The advisory lock is taken on an inode nobody has locked. *)
LEMMA LockStaleStep ==
  ASSUME Inv, NEW p \in Proc, LockStale(p)
  PROVE  Inv'
<1>0. /\ TypeOK /\ ProcInv(p) /\ RecordInv /\ LauncherInv /\ FenceInv
      /\ p \in Proc /\ \A q \in Proc : PairInv(p, q) /\ OwnOK(q) BY ProcFacts DEF Inv, ProcInv
<1>a. /\ pc[p] = "flock"
      /\ \/ /\ FlockFree(fd[p]) /\ flocked'[p] = TRUE /\ fd'[p] = fd[p]
            /\ pc'[p] = "judge"
         \/ flocked'[p] = flocked[p] /\ fd'[p] = 0 /\ pc'[p] = "busy"
      /\ flocked'[p] \in BOOLEAN
      /\ Keeps(p) /\ ret'[p] = ret[p]
      /\ UNCHANGED <<path, rec, active, withdrawn, alive>>
      /\ UNCHANGED <<fenced, published, forked>>
  BY <1>0 DEF TypeOK, LockStale, Go, fileVars, effects, TryFlock
<1>t. TypedNow(p) BY <1>0, TypesBefore
<1>1. Others(p) BY <1>0 DEF TypeOK, Others, LockStale, Go, fileVars, effects, TryFlock
<1>2. \A q \in Proc \ {p} : Same(q) BY <1>0, <1>1, OthersSame
<1>3. Typed(p) BY <1>a, <1>t DEF TypedNow, Labels, Typed
<1>4. Considerate(p) /\ RecordInv' BY <1>0, Calm DEF LockStale, Go, fileVars, effects, TryFlock
<1>5. Entitled(p) BY <1>0, <1>a DEF Entitled, FlockOK, TargetOK
<1>6. ProcInv(p)' BY <1>0, <1>a, ProcFacts DEF AliveOK, FlockOK, BoundOK, RoleOK, GuardOK,
     TargetOK, OwnOK, VictimOK
<1>7. LauncherInv' /\ FenceInv' BY <1>0, <1>a, <1>2, ProcFacts DEF LauncherInv, FenceInv, Admitted, Same,
     RoleOK, TargetOK
<1> QED BY <1>0, <1>1, <1>3, <1>4, <1>5, <1>6, <1>7, OneProc

(* An owner found dead in the inode the name leads to is a victim. *)
LEMMA JudgeStep ==
  ASSUME Inv, NEW p \in Proc, Judge(p)
  PROVE  Inv'
<1>0. /\ TypeOK /\ ProcInv(p) /\ RecordInv /\ LauncherInv /\ FenceInv
      /\ p \in Proc /\ \A q \in Proc : PairInv(p, q) /\ OwnOK(q) BY ProcFacts DEF Inv, ProcInv
<1>a. /\ pc[p] = "judge"
      /\ \/ pc'[p] = "replace" /\ ret'[p] = ret[p]
         \/ pc'[p] = "cleanup" /\ ret'[p] = "busy"
         \/ /\ pc'[p] = "forget" /\ ret'[p] = ret[p]
            /\ path = fd[p] /\ rec[fd[p]].pid \notin alive
      /\ Stays(p) /\ Keeps(p)
      /\ UNCHANGED <<path, rec, active, withdrawn, alive>>
      /\ UNCHANGED <<fenced, published, forked>> BY <1>0 DEF TypeOK, Judge, Go, fileVars, effects
<1>t. TypedNow(p) BY <1>0, TypesBefore
<1>1. Others(p) BY <1>0 DEF TypeOK, Others, Judge, Go, fileVars, effects
<1>2. \A q \in Proc \ {p} : Same(q) BY <1>0, <1>1, OthersSame
<1>3. Typed(p) BY <1>a, <1>t DEF TypedNow, Labels, Typed
<1>4. Considerate(p) /\ RecordInv' BY <1>0, Calm DEF Judge, Go, fileVars, effects
<1>5. Entitled(p) BY <1>0, <1>a DEF Entitled, FlockOK, TargetOK
<1>6. ProcInv(p)' BY <1>0, <1>a, ProcFacts DEF AliveOK, FlockOK, BoundOK, RoleOK, GuardOK,
     TargetOK, OwnOK, VictimOK
<1>7. LauncherInv' /\ FenceInv' BY <1>0, <1>a, <1>2, ProcFacts DEF LauncherInv, FenceInv, Admitted, Same,
     RoleOK, TargetOK
<1> QED BY <1>0, <1>1, <1>3, <1>4, <1>5, <1>6, <1>7, OneProc

(* A dead owner's token is removed: tokens only disappear. *)
LEMMA ForgetTokenStep ==
  ASSUME Inv, NEW p \in Proc, ForgetToken(p)
  PROVE  Inv'
<1>0. /\ TypeOK /\ ProcInv(p) /\ RecordInv /\ LauncherInv /\ FenceInv
      /\ p \in Proc /\ \A q \in Proc : PairInv(p, q) /\ OwnOK(q) BY ProcFacts DEF Inv, ProcInv
<1>a. /\ pc[p] = "forget"
      /\ pc'[p] = "unlink" /\ active' \subseteq active
      /\ withdrawn' \subseteq withdrawn
      /\ Stays(p) /\ Keeps(p) /\ ret'[p] = ret[p]
      /\ UNCHANGED <<path, rec, alive, fenced, published, forked>>
  BY <1>0 DEF TypeOK, ForgetToken, Go, fileVars, effects, RemoveToken
<1>t. TypedNow(p) BY <1>0, TypesBefore
<1>1. Others(p) BY <1>0 DEF TypeOK, Others, ForgetToken, Go, fileVars, effects, RemoveToken
<1>2. \A q \in Proc \ {p} : Same(q) BY <1>0, <1>1, OthersSame
<1>3. Typed(p) BY <1>a, <1>t DEF TypedNow, Labels, Typed
<1>4. Considerate(p) /\ RecordInv' BY <1>0, Calm DEF ForgetToken, Go, fileVars, effects, RemoveToken
<1>5. Entitled(p) BY <1>0, <1>a DEF Entitled, FlockOK, TargetOK
<1>6. ProcInv(p)' BY <1>0, <1>a, ProcFacts DEF AliveOK, FlockOK, BoundOK, RoleOK, GuardOK,
     TargetOK, OwnOK, VictimOK
<1>7. LauncherInv' /\ FenceInv' BY <1>0, <1>a, <1>2, ProcFacts DEF LauncherInv, FenceInv, Admitted, Same,
     RoleOK, TargetOK
<1> QED BY <1>0, <1>1, <1>3, <1>4, <1>5, <1>6, <1>7, OneProc

(* A dead owner holds nothing, so its entry is nobody's. *)
LEMMA UnlinkStaleStep ==
  ASSUME Inv, NEW p \in Proc, UnlinkStale(p)
  PROVE  Inv'
<1>0. /\ TypeOK /\ ProcInv(p) /\ RecordInv /\ LauncherInv /\ FenceInv
      /\ p \in Proc /\ \A q \in Proc : PairInv(p, q) /\ OwnOK(q) BY ProcFacts DEF Inv, ProcInv
<1>a. /\ pc[p] = "unlink"
      /\ path # 0 /\ fd[p] = path /\ flocked[p] /\ path' = 0
      /\ pc'[p] = "replace"
      /\ Stays(p) /\ Keeps(p) /\ ret'[p] = ret[p]
      /\ UNCHANGED <<rec, active, withdrawn, alive>>
      /\ UNCHANGED <<fenced, published, forked>>
  BY <1>0 DEF TypeOK, UnlinkStale, Go, fileVars, effects, Unlink, ProcInv,
     FlockOK, BoundOK
<1>t. TypedNow(p) BY <1>0, TypesBefore
<1>1. Others(p) BY <1>0 DEF TypeOK, Others, UnlinkStale, Go, fileVars, effects, Unlink,
     ProcInv, FlockOK, BoundOK
<1>2. \A q \in Proc \ {p} : Same(q) BY <1>0, <1>1, OthersSame
<1>3. Typed(p) BY <1>a, <1>t DEF TypedNow, Labels, Typed
<1>4. Considerate(p) /\ RecordInv'
  <2>1. \A q \in Proc : AliveOK(q) BY DEF Inv, ProcInv
  <2>2. \A q \in Proc : ~Owns(q) BY <1>0, <1>a, <2>1 DEF VictimOK, OwnOK, AliveOK
  <2>3. UNCHANGED <<rec, guard, active, withdrawn>> BY <1>a DEF UnlinkStale, Unlink
  <2> QED BY <1>0, <1>a, <2>2, <2>3, Removed
<1>5. Entitled(p) BY <1>0, <1>a DEF Entitled, FlockOK, TargetOK
<1>6. ProcInv(p)' BY <1>0, <1>a, ProcFacts DEF AliveOK, FlockOK, BoundOK, RoleOK, GuardOK,
     TargetOK, OwnOK, VictimOK
<1>7. LauncherInv' /\ FenceInv' BY <1>0, <1>a, <1>2, ProcFacts DEF LauncherInv, FenceInv, Admitted, Same,
     RoleOK, TargetOK
<1> QED BY <1>0, <1>1, <1>3, <1>4, <1>5, <1>6, <1>7, OneProc

(* A thief publishes its own record where the entry is gone. *)
LEMMA ReplaceStep ==
  ASSUME Inv, NEW p \in Proc, Replace(p)
  PROVE  Inv'
<1>0. /\ TypeOK /\ ProcInv(p) /\ RecordInv /\ LauncherInv /\ FenceInv
      /\ p \in Proc /\ \A q \in Proc : PairInv(p, q) /\ OwnOK(q) BY ProcFacts DEF Inv, ProcInv
<1>a. /\ pc[p] = "replace"
      /\ \/ path = 0 /\ Link(Owner(p, Fresh)) /\ ret'[p] = "read"
         \/ path # 0 /\ path' = path /\ rec' = rec /\ ret'[p] = "busy"
      /\ pc'[p] = "cleanup"
      /\ Stays(p) /\ Keeps(p)
      /\ UNCHANGED <<active, withdrawn, alive, fenced, published, forked>>
  BY <1>0 DEF TypeOK, Replace, Go, fileVars, effects
<1>b. path = 0 => /\ Linked(p, Fresh) /\ Considerate(p) /\ RecordInv'
                  /\ path' # 0
                  /\ Fresh \notin withdrawn /\ \A q \in Proc : ~Owns(q)
  <2>1. UNCHANGED <<guard, active, withdrawn>> BY DEF Replace
  <2>2. Fresh \in Nat BY <1>0 DEF TypeOK, Fresh
  <2> QED BY <1>0, <1>a, <2>1, <2>2, LinkFacts, Published
<1>c. Grows BY <1>0, <1>a, <1>b, SameGrows DEF Linked
<1>d. fd[p] \in 0..Len(rec) /\ (fd[p] # 0 => rec'[fd[p]] = rec[fd[p]]) BY <1>0, <1>c DEF TypeOK, Grows
<1>t. TypedNow(p) BY <1>0, TypesBefore
<1>1. Others(p) BY <1>0 DEF TypeOK, Others, Replace, Go, fileVars, effects
<1>2. \A q \in Proc \ {p} : Same(q) BY <1>0, <1>1, OthersSame
<1>3. Typed(p)
  <2>1. /\ rec' \in Seq([pid : Proc, nonce : Nat]) /\ Len(rec) <= Len(rec')
        /\ path' \in 0..Len(rec') BY SMTT(60), <1>0, <1>a, <1>b, <1>c DEF TypeOK, Linked, Grows
  <2>2. fd'[p] \in 0..Len(rec') BY <1>a, <1>c, <1>d, <2>1 DEF Grows
  <2> QED BY <1>a, <1>t, <2>1, <2>2 DEF TypedNow, Labels, Typed
<1>4. Considerate(p) /\ RecordInv'
  <2>1. UNCHANGED <<guard, active, withdrawn>> BY DEF Replace
  <2> QED BY <1>0, <1>a, <1>b, <2>1, Calm
<1>5. Entitled(p) BY <1>0, <1>a DEF Entitled, FlockOK, TargetOK
<1>6. ProcInv(p)'
  <2>1. OwnOK(p)' BY <1>0, <1>a, <1>b, <1>d DEF FlockOK, OwnOK, Linked, Grows, Fresh
  <2>2. GuardOK(p)' BY <1>0, <1>a, <1>c DEF GuardOK, Grows
  <2>3. FlockOK(p)' /\ BoundOK(p)' BY <1>0, <1>a DEF FlockOK, BoundOK
  <2>4. TargetOK(p)' BY <1>0, <1>a, <1>d, ProcFacts DEF TargetOK, RoleOK
  <2>5. AliveOK(p)' /\ RoleOK(p)' /\ VictimOK(p)' BY <1>0, <1>a DEF AliveOK, RoleOK, VictimOK
  <2> QED BY <2>1, <2>2, <2>3, <2>4, <2>5
<1>7. LauncherInv' /\ FenceInv' BY <1>0, <1>a, <1>2, ProcFacts DEF LauncherInv, FenceInv, Admitted, Same,
     RoleOK, TargetOK
<1> QED BY <1>0, <1>1, <1>3, <1>4, <1>5, <1>6, <1>7, OneProc

(* The nonce read back is that of the record just published. *)
LEMMA ReadGuardStep ==
  ASSUME Inv, NEW p \in Proc, ReadGuard(p)
  PROVE  Inv'
<1>0. /\ TypeOK /\ ProcInv(p) /\ RecordInv /\ LauncherInv /\ FenceInv
      /\ p \in Proc /\ \A q \in Proc : PairInv(p, q) /\ OwnOK(q) BY ProcFacts DEF Inv, ProcInv
<1>a. /\ pc[p] = "read"
      /\ path \in 1..Len(rec) /\ rec[path].pid = p
      /\ rec[path].nonce = path /\ path \notin withdrawn
      /\ pc'[p] = "held" /\ guard'[p] = path /\ tgt'[p] = tgt[p]
      /\ Stays(p) /\ ret'[p] = ret[p]
      /\ UNCHANGED <<path, rec, active, withdrawn, alive>>
      /\ UNCHANGED <<fenced, published, forked>>
  BY <1>0 DEF TypeOK, ReadGuard, Go, fileVars, effects, OwnOK
<1>b. rec[path] = Owner(p, path)
  <2>1. \A S : rec \in Seq(S) => rec[path] \in S BY <1>a
  <2>2. rec[path] \in [pid : Proc, nonce : Nat] BY <1>0, <2>1 DEF TypeOK
  <2> QED BY <1>a, <2>2 DEF Owner
<1>t. TypedNow(p) BY <1>0, TypesBefore
<1>1. Others(p) BY <1>0 DEF TypeOK, Others, ReadGuard, Go, fileVars, effects, OwnOK
<1>2. \A q \in Proc \ {p} : Same(q) BY <1>0, <1>1, OthersSame
<1>3. Typed(p) BY <1>a, <1>b, <1>t DEF TypedNow, Labels, Typed
<1>4. Considerate(p) /\ RecordInv'
  <2>1. Considerate(p) BY <1>0, <1>a, SameGrows DEF Considerate, OwnOK
  <2>2. guard'[Launcher] = guard[Launcher] \/ guard[Launcher] = 0
    BY <1>0, <1>a, <1>2, ProcFacts DEF Same, LauncherInv
  <2>3. RecordInv' BY <1>0, <1>a, <2>2 DEF RecordInv
  <2> QED BY <2>1, <2>3
<1>5. Entitled(p) BY <1>0, <1>a, <1>b DEF Entitled, FlockOK, TargetOK
<1>6. ProcInv(p)' BY <1>0, <1>a, <1>b, ProcFacts DEF AliveOK, FlockOK, BoundOK, RoleOK,
     GuardOK, TargetOK, OwnOK, VictimOK
<1>7. LauncherInv' /\ FenceInv' BY <1>0, <1>a, <1>b, <1>2, ProcFacts DEF LauncherInv, FenceInv, Admitted,
     Same, RoleOK, TargetOK
<1> QED BY <1>0, <1>1, <1>3, <1>4, <1>5, <1>6, <1>7, OneProc

(* Only a withdrawn claim is swept, and a working owner's is not *)
(* withdrawn. *)
LEMMA CleanupStep ==
  ASSUME Inv, NEW p \in Proc, Cleanup(p)
  PROVE  Inv'
<1>0. /\ TypeOK /\ ProcInv(p) /\ RecordInv /\ LauncherInv /\ FenceInv
      /\ p \in Proc /\ \A q \in Proc : PairInv(p, q) /\ OwnOK(q) BY ProcFacts DEF Inv, ProcInv
<1>a. /\ pc[p] = "cleanup"
      /\ \/ pc'[p] = "sweep" /\ path = fd[p] /\ rec[fd[p]].nonce \in withdrawn
         \/ pc'[p] = "unlock"
      /\ Stays(p) /\ Keeps(p) /\ ret'[p] = ret[p]
      /\ UNCHANGED <<path, rec, active, withdrawn, alive>>
      /\ UNCHANGED <<fenced, published, forked>> BY <1>0 DEF TypeOK, Cleanup, Go, fileVars, effects
<1>t. TypedNow(p) BY <1>0, TypesBefore
<1>1. Others(p) BY <1>0 DEF TypeOK, Others, Cleanup, Go, fileVars, effects
<1>2. \A q \in Proc \ {p} : Same(q) BY <1>0, <1>1, OthersSame
<1>3. Typed(p) BY <1>a, <1>t DEF TypedNow, Labels, Typed
<1>4. Considerate(p) /\ RecordInv' BY <1>0, Calm DEF Cleanup, Go, fileVars, effects
<1>5. Entitled(p) BY <1>0, <1>a DEF Entitled, FlockOK, TargetOK, OwnOK
<1>6. ProcInv(p)' BY <1>0, <1>a, ProcFacts DEF AliveOK, FlockOK, BoundOK, RoleOK, GuardOK,
     TargetOK, OwnOK, VictimOK
<1>7. LauncherInv' /\ FenceInv' BY <1>0, <1>a, <1>2, ProcFacts DEF LauncherInv, FenceInv, Admitted, Same,
     RoleOK, TargetOK
<1> QED BY <1>0, <1>1, <1>3, <1>4, <1>5, <1>6, <1>7, OneProc

(* The swept entry is nobody's. *)
LEMMA SweepStep ==
  ASSUME Inv, NEW p \in Proc, Sweep(p)
  PROVE  Inv'
<1>0. /\ TypeOK /\ ProcInv(p) /\ RecordInv /\ LauncherInv /\ FenceInv
      /\ p \in Proc /\ \A q \in Proc : PairInv(p, q) /\ OwnOK(q) BY ProcFacts DEF Inv, ProcInv
<1>a. /\ pc[p] = "sweep"
      /\ path # 0 /\ fd[p] = path /\ flocked[p] /\ path' = 0
      /\ pc'[p] = "sweeptoken"
      /\ Stays(p) /\ Keeps(p) /\ ret'[p] = ret[p]
      /\ UNCHANGED <<rec, active, withdrawn, alive>>
      /\ UNCHANGED <<fenced, published, forked>>
  BY <1>0 DEF TypeOK, Sweep, Go, fileVars, effects, Unlink, ProcInv, FlockOK,
     BoundOK
<1>t. TypedNow(p) BY <1>0, TypesBefore
<1>1. Others(p) BY <1>0 DEF TypeOK, Others, Sweep, Go, fileVars, effects, Unlink, ProcInv,
     FlockOK, BoundOK
<1>2. \A q \in Proc \ {p} : Same(q) BY <1>0, <1>1, OthersSame
<1>3. Typed(p) BY <1>a, <1>t DEF TypedNow, Labels, Typed
<1>4. Considerate(p) /\ RecordInv'
  <2>1. UNCHANGED <<rec, guard, active, withdrawn>> BY DEF Sweep, Unlink
  <2>2. \A q \in Proc : ~Owns(q) BY <1>0, <1>a DEF PairInv
  <2> QED BY <1>0, <1>a, <2>1, <2>2, Removed
<1>5. Entitled(p) BY <1>0, <1>a DEF Entitled, FlockOK, TargetOK
<1>6. ProcInv(p)' BY <1>0, <1>a, ProcFacts DEF AliveOK, FlockOK, BoundOK, RoleOK, GuardOK,
     TargetOK, OwnOK, VictimOK
<1>7. LauncherInv' /\ FenceInv' BY <1>0, <1>a, <1>2, ProcFacts DEF LauncherInv, FenceInv, Admitted, Same,
     RoleOK, TargetOK
<1> QED BY <1>0, <1>1, <1>3, <1>4, <1>5, <1>6, <1>7, OneProc

(* The swept claim's token is removed. *)
LEMMA SweepTokenStep ==
  ASSUME Inv, NEW p \in Proc, SweepToken(p)
  PROVE  Inv'
<1>0. /\ TypeOK /\ ProcInv(p) /\ RecordInv /\ LauncherInv /\ FenceInv
      /\ p \in Proc /\ \A q \in Proc : PairInv(p, q) /\ OwnOK(q) BY ProcFacts DEF Inv, ProcInv
<1>a. /\ pc[p] = "sweeptoken"
      /\ pc'[p] = "unlock" /\ active' \subseteq active
      /\ withdrawn' \subseteq withdrawn
      /\ Stays(p) /\ Keeps(p) /\ ret'[p] = ret[p]
      /\ UNCHANGED <<path, rec, alive, fenced, published, forked>>
  BY <1>0 DEF TypeOK, SweepToken, Go, fileVars, effects, RemoveToken
<1>t. TypedNow(p) BY <1>0, TypesBefore
<1>1. Others(p) BY <1>0 DEF TypeOK, Others, SweepToken, Go, fileVars, effects, RemoveToken
<1>2. \A q \in Proc \ {p} : Same(q) BY <1>0, <1>1, OthersSame
<1>3. Typed(p) BY <1>a, <1>t DEF TypedNow, Labels, Typed
<1>4. Considerate(p) /\ RecordInv' BY <1>0, Calm DEF SweepToken, Go, fileVars, effects, RemoveToken
<1>5. Entitled(p) BY <1>0, <1>a DEF Entitled, FlockOK, TargetOK
<1>6. ProcInv(p)' BY <1>0, <1>a, ProcFacts DEF AliveOK, FlockOK, BoundOK, RoleOK, GuardOK,
     TargetOK, OwnOK, VictimOK
<1>7. LauncherInv' /\ FenceInv' BY <1>0, <1>a, <1>2, ProcFacts DEF LauncherInv, FenceInv, Admitted, Same,
     RoleOK, TargetOK
<1> QED BY <1>0, <1>1, <1>3, <1>4, <1>5, <1>6, <1>7, OneProc

(* The advisory lock ends, and the procedure returns. *)
LEMMA UnlockStep ==
  ASSUME Inv, NEW p \in Proc, Unlock(p)
  PROVE  Inv'
<1>0. /\ TypeOK /\ ProcInv(p) /\ RecordInv /\ LauncherInv /\ FenceInv
      /\ p \in Proc /\ \A q \in Proc : PairInv(p, q) /\ OwnOK(q) BY ProcFacts DEF Inv, ProcInv
<1>a. /\ pc[p] = "unlock"
      /\ pc'[p] = ret[p] /\ ret[p] \in TailRet /\ fd'[p] = 0
      /\ flocked'[p] = FALSE
      /\ flocked'[p] \in BOOLEAN
      /\ Keeps(p) /\ ret'[p] = ret[p]
      /\ UNCHANGED <<path, rec, active, withdrawn, alive>>
      /\ UNCHANGED <<fenced, published, forked>>
  BY <1>0 DEF TypeOK, Unlock, Go, fileVars, effects, ProcInv, TargetOK
<1>t. TypedNow(p) BY <1>0, TypesBefore
<1>1. Others(p) BY <1>0 DEF TypeOK, Others, Unlock, Go, fileVars, effects, ProcInv, TargetOK
<1>2. \A q \in Proc \ {p} : Same(q) BY <1>0, <1>1, OthersSame
<1>3. Typed(p) BY <1>a, <1>t DEF TypedNow, Labels, Typed
<1>4. Considerate(p) /\ RecordInv' BY <1>0, Calm DEF Unlock, Go, fileVars, effects, ProcInv, TargetOK
<1>5. Entitled(p) BY <1>0, <1>a DEF Entitled, FlockOK, TargetOK
<1>6. ProcInv(p)' BY <1>0, <1>a, ProcFacts DEF AliveOK, FlockOK, BoundOK, RoleOK, GuardOK,
     TargetOK, OwnOK, VictimOK
<1>7. LauncherInv' /\ FenceInv' BY <1>0, <1>a, <1>2, ProcFacts DEF LauncherInv, FenceInv, Admitted, Same,
     RoleOK, TargetOK
<1> QED BY <1>0, <1>1, <1>3, <1>4, <1>5, <1>6, <1>7, OneProc

(* A guard withdraws its own nonce, which is no other guard's. *)
LEMMA EndClaimStep ==
  ASSUME Inv, NEW p \in Proc, EndClaim(p)
  PROVE  Inv'
<1>0. /\ TypeOK /\ ProcInv(p) /\ RecordInv /\ LauncherInv /\ FenceInv
      /\ p \in Proc /\ \A q \in Proc : PairInv(p, q) /\ OwnOK(q) BY ProcFacts DEF Inv, ProcInv
<1>a. /\ pc[p] \in {"held", "waiting", "drop"} /\ guard[p] # 0
      /\ pc'[p] = "relopen" /\ ret'[p] = "done" /\ tgt'[p] = Owner(p, guard[p])
      /\ guard'[p] = guard[p] /\ Withdraw(guard[p])
      /\ Stays(p)
      /\ UNCHANGED <<path, rec, alive, fenced, published, forked>>
  BY <1>0 DEF TypeOK, EndClaim, Go, fileVars, effects, Release, GuardOK
<1>t. TypedNow(p) BY <1>0, TypesBefore
<1>1. Others(p) BY <1>0 DEF TypeOK, Others, EndClaim, Go, fileVars, effects, Release,
     GuardOK
<1>2. \A q \in Proc \ {p} : Same(q) BY <1>0, <1>1, OthersSame
<1>3. Typed(p)
  <2>1. guard[p] \in Nat BY <1>0 DEF TypeOK
  <2>2. active' \subseteq Nat /\ withdrawn' \subseteq Nat BY <1>0, <1>a, <2>1 DEF TypeOK, Withdraw
  <2> QED BY <1>a, <1>t, <2>2 DEF TypedNow, Labels, Typed, Owner
<1>4. Considerate(p) /\ RecordInv'
  <2>1. UNCHANGED <<path, rec, guard>> BY DEF EndClaim, Release
  <2> QED BY <1>0, <1>a, <2>1, Withdrawn
<1>5. Entitled(p) BY <1>0, <1>a DEF Entitled, FlockOK, TargetOK
<1>6. ProcInv(p)' BY <1>0, <1>a, ProcFacts DEF AliveOK, FlockOK, BoundOK, RoleOK, GuardOK,
     TargetOK, OwnOK, VictimOK, Owner
<1>7. LauncherInv' /\ FenceInv' BY <1>0, <1>a, <1>2, ProcFacts DEF LauncherInv, FenceInv, Admitted, Same,
     RoleOK, TargetOK
<1> QED BY <1>0, <1>1, <1>3, <1>4, <1>5, <1>6, <1>7, OneProc

(* The record under the name is the one to release, or there is nothing to *)
(* do. *)
LEMMA ReleaseOpenStep ==
  ASSUME Inv, NEW p \in Proc, ReleaseOpen(p)
  PROVE  Inv'
<1>0. /\ TypeOK /\ ProcInv(p) /\ RecordInv /\ LauncherInv /\ FenceInv
      /\ p \in Proc /\ \A q \in Proc : PairInv(p, q) /\ OwnOK(q) BY ProcFacts DEF Inv, ProcInv
<1>a. /\ pc[p] = "relopen"
      /\ \/ /\ path # 0 /\ rec[path].pid = tgt[p].pid /\ fd'[p] = path
            /\ \/ tgt[p].nonce = 0 /\ pc'[p] = "relwithdraw"
               \/ pc'[p] = "relflock"
         \/ fd'[p] = fd[p] /\ pc'[p] = ret[p]
      /\ flocked'[p] = flocked[p] /\ Keeps(p) /\ ret'[p] = ret[p]
      /\ UNCHANGED <<path, rec, active, withdrawn, alive>>
      /\ UNCHANGED <<fenced, published, forked>>
  BY <1>0 DEF TypeOK, ReleaseOpen, Go, fileVars, effects, Matches
<1>t. TypedNow(p) BY <1>0, TypesBefore
<1>1. Others(p) BY <1>0 DEF TypeOK, Others, ReleaseOpen, Go, fileVars, effects, Matches
<1>2. \A q \in Proc \ {p} : Same(q) BY <1>0, <1>1, OthersSame
<1>3. Typed(p) BY <1>a, <1>t DEF TypedNow, Labels, Typed
<1>4. Considerate(p) /\ RecordInv' BY <1>0, Calm DEF ReleaseOpen, Go, fileVars, effects, Matches
<1>5. Entitled(p) BY <1>0, <1>a DEF Entitled, FlockOK, TargetOK
<1>6. ProcInv(p)' BY <1>0, <1>a, ProcFacts DEF AliveOK, FlockOK, BoundOK, RoleOK, GuardOK,
     TargetOK, OwnOK, VictimOK
<1>7. LauncherInv' /\ FenceInv' BY <1>0, <1>a, <1>2, ProcFacts DEF LauncherInv, FenceInv, Admitted, Same,
     RoleOK, TargetOK
<1> QED BY <1>0, <1>1, <1>3, <1>4, <1>5, <1>6, <1>7, OneProc

(* A release by pid withdraws the nonce it found, which is the launcher's *)
(* or the daemon's. *)
LEMMA ReleaseWithdrawStep ==
  ASSUME Inv, NEW p \in Proc, ReleaseWithdraw(p)
  PROVE  Inv'
<1>0. /\ TypeOK /\ ProcInv(p) /\ RecordInv /\ LauncherInv /\ FenceInv
      /\ p \in Proc /\ \A q \in Proc : PairInv(p, q) /\ OwnOK(q) BY ProcFacts DEF Inv, ProcInv
<1>a. /\ pc[p] = "relwithdraw"
      /\ pc'[p] = "relflock" /\ Withdraw(rec[fd[p]].nonce) /\ p = Daemon
      /\ fd[p] \in 1..Len(rec) /\ rec[fd[p]].pid \in {Launcher, Daemon}
      /\ Stays(p) /\ Keeps(p) /\ ret'[p] = ret[p]
      /\ UNCHANGED <<path, rec, alive, fenced, published, forked>>
  BY SMTT(60), <1>0 DEF TypeOK, ReleaseWithdraw, Go, fileVars, effects, FlockOK,
     TargetOK
<1>t. TypedNow(p) BY <1>0, TypesBefore
<1>1. Others(p) BY <1>0 DEF TypeOK, Others, ReleaseWithdraw, Go, fileVars, effects, FlockOK,
     TargetOK
<1>2. \A q \in Proc \ {p} : Same(q) BY <1>0, <1>1, OthersSame
<1>3. Typed(p)
  <2>1. rec[fd[p]].nonce \in Nat BY <1>0, <1>a, RecordTypes
  <2>2. active' \subseteq Nat /\ withdrawn' \subseteq Nat BY <1>0, <1>a, <2>1 DEF TypeOK, Withdraw
  <2> QED BY <1>a, <1>t, <2>2 DEF TypedNow, Labels, Typed
<1>4. Considerate(p) /\ RecordInv'
  <2>1. UNCHANGED <<path, rec, guard>> BY DEF ReleaseWithdraw
  <2> QED BY <1>0, <1>a, <2>1, WithdrawnRecord
<1>5. Entitled(p) BY <1>0, <1>a DEF Entitled, FlockOK, TargetOK
<1>6. ProcInv(p)' BY <1>0, <1>a, ProcFacts DEF AliveOK, FlockOK, BoundOK, RoleOK, GuardOK,
     TargetOK, OwnOK, VictimOK
<1>7. LauncherInv' /\ FenceInv' BY <1>0, <1>a, <1>2, ProcFacts DEF LauncherInv, FenceInv, Admitted, Same,
     RoleOK, TargetOK
<1> QED BY <1>0, <1>1, <1>3, <1>4, <1>5, <1>6, <1>7, OneProc

(* The releaser takes the advisory lock, or leaves the claim to its *)
(* holder. *)
LEMMA ReleaseFlockStep ==
  ASSUME Inv, NEW p \in Proc, ReleaseFlock(p)
  PROVE  Inv'
<1>0. /\ TypeOK /\ ProcInv(p) /\ RecordInv /\ LauncherInv /\ FenceInv
      /\ p \in Proc /\ \A q \in Proc : PairInv(p, q) /\ OwnOK(q) BY ProcFacts DEF Inv, ProcInv
<1>a. /\ pc[p] = "relflock"
      /\ \/ /\ FlockFree(fd[p]) /\ flocked'[p] = TRUE /\ fd'[p] = fd[p]
            /\ pc'[p] = "relcheck"
         \/ flocked'[p] = flocked[p] /\ fd'[p] = 0 /\ pc'[p] = ret[p]
      /\ flocked'[p] \in BOOLEAN
      /\ Keeps(p) /\ ret'[p] = ret[p]
      /\ UNCHANGED <<path, rec, active, withdrawn, alive>>
      /\ UNCHANGED <<fenced, published, forked>>
  BY <1>0 DEF TypeOK, ReleaseFlock, Go, fileVars, effects, TryFlock
<1>t. TypedNow(p) BY <1>0, TypesBefore
<1>1. Others(p) BY <1>0 DEF TypeOK, Others, ReleaseFlock, Go, fileVars, effects, TryFlock
<1>2. \A q \in Proc \ {p} : Same(q) BY <1>0, <1>1, OthersSame
<1>3. Typed(p) BY <1>a, <1>t DEF TypedNow, Labels, Typed
<1>4. Considerate(p) /\ RecordInv' BY <1>0, Calm DEF ReleaseFlock, Go, fileVars, effects, TryFlock
<1>5. Entitled(p) BY <1>0, <1>a DEF Entitled, FlockOK, TargetOK
<1>6. ProcInv(p)' BY <1>0, <1>a, ProcFacts DEF AliveOK, FlockOK, BoundOK, RoleOK, GuardOK,
     TargetOK, OwnOK, VictimOK
<1>7. LauncherInv' /\ FenceInv' BY <1>0, <1>a, <1>2, ProcFacts DEF LauncherInv, FenceInv, Admitted, Same,
     RoleOK, TargetOK
<1> QED BY <1>0, <1>1, <1>3, <1>4, <1>5, <1>6, <1>7, OneProc

(* The entry is checked again under the advisory lock. *)
LEMMA ReleaseCheckStep ==
  ASSUME Inv, NEW p \in Proc, ReleaseCheck(p)
  PROVE  Inv'
<1>0. /\ TypeOK /\ ProcInv(p) /\ RecordInv /\ LauncherInv /\ FenceInv
      /\ p \in Proc /\ \A q \in Proc : PairInv(p, q) /\ OwnOK(q) BY ProcFacts DEF Inv, ProcInv
<1>a. /\ pc[p] = "relcheck"
      /\ pc'[p] = IF path = fd[p] THEN "relunlink" ELSE "cleanup"
      /\ \/ tgt[p].nonce # 0 /\ UNCHANGED <<active, withdrawn>>
         \/ /\ Withdraw(rec[fd[p]].nonce) /\ p = Daemon
            /\ fd[p] \in 1..Len(rec) /\ rec[fd[p]].pid \in {Launcher, Daemon}
      /\ Stays(p) /\ Keeps(p) /\ ret'[p] = ret[p]
      /\ UNCHANGED <<path, rec, alive, fenced, published, forked>>
  BY SMTT(60), <1>0 DEF TypeOK, ReleaseCheck, Go, fileVars, effects, FlockOK, TargetOK
<1>t. TypedNow(p) BY <1>0, TypesBefore
<1>1. Others(p) BY <1>0 DEF TypeOK, Others, ReleaseCheck, Go, fileVars, effects, FlockOK,
     TargetOK
<1>2. \A q \in Proc \ {p} : Same(q) BY <1>0, <1>1, OthersSame
<1>3. Typed(p)
  <2>1. CASE UNCHANGED <<active, withdrawn>> BY <1>a, <1>t, <2>1 DEF TypedNow, Labels, Typed
  <2>2. CASE Withdraw(rec[fd[p]].nonce) /\ fd[p] \in 1..Len(rec)
    <3>1. rec[fd[p]].nonce \in Nat BY <1>0, <2>2, RecordTypes
    <3>2. active' \subseteq Nat /\ withdrawn' \subseteq Nat BY <1>0, <2>2, <3>1 DEF TypeOK, Withdraw
    <3> QED BY <1>a, <1>t, <3>2 DEF TypedNow, Labels, Typed
  <2> QED BY <1>a, <2>1, <2>2
<1>4. Considerate(p) /\ RecordInv'
  <2>1. UNCHANGED <<path, rec, guard>> BY DEF ReleaseCheck
  <2>2. CASE UNCHANGED <<active, withdrawn>> BY <1>0, <2>1, <2>2, Calm
  <2>3. CASE ~UNCHANGED <<active, withdrawn>> BY <1>0, <1>a, <2>1, <2>3, WithdrawnRecord
  <2> QED BY <2>2, <2>3
<1>5. Entitled(p) BY <1>0, <1>a DEF Entitled, FlockOK, TargetOK
<1>6. ProcInv(p)' BY <1>0, <1>a, ProcFacts DEF AliveOK, FlockOK, BoundOK, RoleOK, GuardOK,
     TargetOK, OwnOK, VictimOK
<1>7. LauncherInv' /\ FenceInv' BY <1>0, <1>a, <1>2, ProcFacts DEF LauncherInv, FenceInv, Admitted, Same,
     RoleOK, TargetOK
<1> QED BY <1>0, <1>1, <1>3, <1>4, <1>5, <1>6, <1>7, OneProc

(* The released entry is the releaser's own, or its launcher's. *)
LEMMA ReleaseUnlinkStep ==
  ASSUME Inv, NEW p \in Proc, ReleaseUnlink(p)
  PROVE  Inv'
<1>0. /\ TypeOK /\ ProcInv(p) /\ RecordInv /\ LauncherInv /\ FenceInv
      /\ p \in Proc /\ \A q \in Proc : PairInv(p, q) /\ OwnOK(q) BY ProcFacts DEF Inv, ProcInv
<1>a. /\ pc[p] = "relunlink"
      /\ path # 0 /\ fd[p] = path /\ flocked[p] /\ path' = 0
      /\ pc'[p] = "reltoken"
      /\ Stays(p) /\ Keeps(p) /\ ret'[p] = ret[p]
      /\ UNCHANGED <<rec, active, withdrawn, alive>>
      /\ UNCHANGED <<fenced, published, forked>>
  BY <1>0 DEF TypeOK, ReleaseUnlink, Go, fileVars, effects, Unlink, ProcInv,
     FlockOK, BoundOK
<1>t. TypedNow(p) BY <1>0, TypesBefore
<1>1. Others(p) BY <1>0 DEF TypeOK, Others, ReleaseUnlink, Go, fileVars, effects, Unlink,
     ProcInv, FlockOK, BoundOK
<1>2. \A q \in Proc \ {p} : Same(q) BY <1>0, <1>1, OthersSame
<1>3. Typed(p) BY <1>a, <1>t DEF TypedNow, Labels, Typed
<1>4. Considerate(p) /\ RecordInv'
  <2>1. rec[path].pid = p \/ (p = Daemon /\ rec[path].pid = Launcher) BY <1>0, <1>a DEF TargetOK
  <2>2. \A q \in Proc \ {p} : ~Owns(q) BY <1>0, <1>a, <2>1, ProcFacts DEF OwnOK, LauncherInv
  <2>3. UNCHANGED <<rec, guard, active, withdrawn>> BY <1>a DEF ReleaseUnlink, Unlink
  <2> QED BY <1>0, <1>a, <2>2, <2>3, Removed
<1>5. Entitled(p) BY <1>0, <1>a DEF Entitled, FlockOK, TargetOK
<1>6. ProcInv(p)' BY <1>0, <1>a, ProcFacts DEF AliveOK, FlockOK, BoundOK, RoleOK, GuardOK,
     TargetOK, OwnOK, VictimOK
<1>7. LauncherInv' /\ FenceInv' BY <1>0, <1>a, <1>2, ProcFacts DEF LauncherInv, FenceInv, Admitted, Same,
     RoleOK, TargetOK
<1> QED BY <1>0, <1>1, <1>3, <1>4, <1>5, <1>6, <1>7, OneProc

(* The released claim's token is removed. *)
LEMMA ReleaseTokenStep ==
  ASSUME Inv, NEW p \in Proc, ReleaseToken(p)
  PROVE  Inv'
<1>0. /\ TypeOK /\ ProcInv(p) /\ RecordInv /\ LauncherInv /\ FenceInv
      /\ p \in Proc /\ \A q \in Proc : PairInv(p, q) /\ OwnOK(q) BY ProcFacts DEF Inv, ProcInv
<1>a. /\ pc[p] = "reltoken"
      /\ pc'[p] = "cleanup" /\ active' \subseteq active
      /\ withdrawn' \subseteq withdrawn
      /\ Stays(p) /\ Keeps(p) /\ ret'[p] = ret[p]
      /\ UNCHANGED <<path, rec, alive, fenced, published, forked>>
  BY <1>0 DEF TypeOK, ReleaseToken, Go, fileVars, effects, RemoveToken
<1>t. TypedNow(p) BY <1>0, TypesBefore
<1>1. Others(p) BY <1>0 DEF TypeOK, Others, ReleaseToken, Go, fileVars, effects, RemoveToken
<1>2. \A q \in Proc \ {p} : Same(q) BY <1>0, <1>1, OthersSame
<1>3. Typed(p) BY <1>a, <1>t DEF TypedNow, Labels, Typed
<1>4. Considerate(p) /\ RecordInv' BY <1>0, Calm DEF ReleaseToken, Go, fileVars, effects, RemoveToken
<1>5. Entitled(p) BY <1>0, <1>a DEF Entitled, FlockOK, TargetOK
<1>6. ProcInv(p)' BY <1>0, <1>a, ProcFacts DEF AliveOK, FlockOK, BoundOK, RoleOK, GuardOK,
     TargetOK, OwnOK, VictimOK
<1>7. LauncherInv' /\ FenceInv' BY <1>0, <1>a, <1>2, ProcFacts DEF LauncherInv, FenceInv, Admitted, Same,
     RoleOK, TargetOK
<1> QED BY <1>0, <1>1, <1>3, <1>4, <1>5, <1>6, <1>7, OneProc

(* A pin opens the file under the name. *)
LEMMA PinOpenStep ==
  ASSUME Inv, NEW p \in Proc, PinOpen(p)
  PROVE  Inv'
<1>0. /\ TypeOK /\ ProcInv(p) /\ RecordInv /\ LauncherInv /\ FenceInv
      /\ p \in Proc /\ \A q \in Proc : PairInv(p, q) /\ OwnOK(q) BY ProcFacts DEF Inv, ProcInv
<1>a. /\ pc[p] = "pinopen"
      /\ fd'[p] = path
      /\ pc'[p] = IF path = 0 THEN PinFailed(p) ELSE "pinflock"
      /\ flocked'[p] = flocked[p] /\ Keeps(p) /\ ret'[p] = ret[p]
      /\ UNCHANGED <<path, rec, active, withdrawn, alive>>
      /\ UNCHANGED <<fenced, published, forked>> BY <1>0 DEF TypeOK, PinOpen, Go, fileVars, effects
<1>t. TypedNow(p) BY <1>0, TypesBefore
<1>1. Others(p) BY <1>0 DEF TypeOK, Others, PinOpen, Go, fileVars, effects
<1>2. \A q \in Proc \ {p} : Same(q) BY <1>0, <1>1, OthersSame
<1>3. Typed(p) BY <1>a, <1>t DEF TypedNow, Labels, Typed, PinFailed
<1>4. Considerate(p) /\ RecordInv' BY <1>0, Calm DEF PinOpen, Go, fileVars, effects
<1>5. Entitled(p) BY <1>0, <1>a DEF Entitled, FlockOK, TargetOK, PinFailed
<1>6. ProcInv(p)' BY <1>0, <1>a, ProcFacts DEF AliveOK, FlockOK, BoundOK, RoleOK, GuardOK,
     TargetOK, OwnOK, VictimOK, PinFailed
<1>7. LauncherInv' /\ FenceInv' BY <1>0, <1>a, <1>2, ProcFacts DEF LauncherInv, FenceInv, Admitted, Same,
     RoleOK, TargetOK, PinFailed
<1> QED BY <1>0, <1>1, <1>3, <1>4, <1>5, <1>6, <1>7, OneProc

(* A pin takes the advisory lock of the opened inode. *)
LEMMA PinFlockStep ==
  ASSUME Inv, NEW p \in Proc, PinFlock(p)
  PROVE  Inv'
<1>0. /\ TypeOK /\ ProcInv(p) /\ RecordInv /\ LauncherInv /\ FenceInv
      /\ p \in Proc /\ \A q \in Proc : PairInv(p, q) /\ OwnOK(q) BY ProcFacts DEF Inv, ProcInv
<1>a. /\ pc[p] = "pinflock"
      /\ \/ /\ FlockFree(fd[p]) /\ flocked'[p] = TRUE /\ fd'[p] = fd[p]
            /\ pc'[p] = "pincheck"
         \/ flocked'[p] = flocked[p] /\ fd'[p] = 0 /\ pc'[p] = PinFailed(p)
      /\ flocked'[p] \in BOOLEAN
      /\ Keeps(p) /\ ret'[p] = ret[p]
      /\ UNCHANGED <<path, rec, active, withdrawn, alive>>
      /\ UNCHANGED <<fenced, published, forked>>
  BY <1>0 DEF TypeOK, PinFlock, Go, fileVars, effects, TryFlock, PinFailed
<1>t. TypedNow(p) BY <1>0, TypesBefore
<1>1. Others(p) BY <1>0 DEF TypeOK, Others, PinFlock, Go, fileVars, effects, TryFlock,
     PinFailed
<1>2. \A q \in Proc \ {p} : Same(q) BY <1>0, <1>1, OthersSame
<1>3. Typed(p) BY <1>a, <1>t DEF TypedNow, Labels, Typed, PinFailed
<1>4. Considerate(p) /\ RecordInv' BY <1>0, Calm DEF PinFlock, Go, fileVars, effects, TryFlock, PinFailed
<1>5. Entitled(p) BY <1>0, <1>a DEF Entitled, FlockOK, TargetOK, PinFailed
<1>6. ProcInv(p)' BY <1>0, <1>a, ProcFacts DEF AliveOK, FlockOK, BoundOK, RoleOK, GuardOK,
     TargetOK, OwnOK, VictimOK, PinFailed
<1>7. LauncherInv' /\ FenceInv' BY <1>0, <1>a, <1>2, ProcFacts DEF LauncherInv, FenceInv, Admitted, Same,
     RoleOK, TargetOK, PinFailed
<1> QED BY <1>0, <1>1, <1>3, <1>4, <1>5, <1>6, <1>7, OneProc

(* A valid pin binds the name to the locked inode. *)
LEMMA PinCheckStep ==
  ASSUME Inv, NEW p \in Proc, PinCheck(p)
  PROVE  Inv'
<1>0. /\ TypeOK /\ ProcInv(p) /\ RecordInv /\ LauncherInv /\ FenceInv
      /\ p \in Proc /\ \A q \in Proc : PairInv(p, q) /\ OwnOK(q) BY ProcFacts DEF Inv, ProcInv
<1>a. /\ pc[p] = "pincheck"
      /\ \/ /\ PinValid(p) /\ pc'[p] = ret[p] /\ ret'[p] = ret[p]
            /\ ret[p] \in {"publish"} \cup SwapPC
         \/ pc'[p] = "cleanup" /\ ret'[p] = PinFailed(p)
      /\ flocked[p]
      /\ Stays(p) /\ Keeps(p)
      /\ UNCHANGED <<path, rec, active, withdrawn, alive>>
      /\ UNCHANGED <<fenced, published, forked>>
  BY <1>0 DEF TypeOK, PinCheck, Go, fileVars, effects, FlockOK, TargetOK
<1>t. TypedNow(p) BY <1>0, TypesBefore
<1>1. Others(p) BY <1>0 DEF TypeOK, Others, PinCheck, Go, fileVars, effects, FlockOK,
     TargetOK
<1>2. \A q \in Proc \ {p} : Same(q) BY <1>0, <1>1, OthersSame
<1>3. Typed(p) BY <1>a, <1>t DEF TypedNow, Labels, Typed, PinFailed
<1>4. Considerate(p) /\ RecordInv' BY <1>0, Calm DEF PinCheck, Go, fileVars, effects, FlockOK, TargetOK
<1>5. Entitled(p)
  <2>1. Owns(p)' => path = fd[p] BY <1>a DEF PinValid, PinFailed
  <2>2. pc'[p] # "sweep" BY <1>a
  <2> QED BY <1>a, <2>1, <2>2 DEF Entitled
<1>6. ProcInv(p)' BY <1>0, <1>a, ProcFacts DEF AliveOK, FlockOK, BoundOK, RoleOK, GuardOK,
     TargetOK, OwnOK, VictimOK, PinValid, PinFailed, RecordInv, Owner
<1>7. LauncherInv' /\ FenceInv' BY <1>0, <1>a, <1>2, ProcFacts DEF LauncherInv, FenceInv, Admitted, Same,
     RoleOK, TargetOK, PinFailed
<1> QED BY <1>0, <1>1, <1>3, <1>4, <1>5, <1>6, <1>7, OneProc

(* A pin is dropped: what it sweeps is its own claim, or its launcher's, *)
(* given up before. *)
LEMMA UnpinStep ==
  ASSUME Inv, NEW p \in Proc, Unpin(p)
  PROVE  Inv'
<1>0. /\ TypeOK /\ ProcInv(p) /\ RecordInv /\ LauncherInv /\ FenceInv
      /\ p \in Proc /\ \A q \in Proc : PairInv(p, q) /\ OwnOK(q) BY ProcFacts DEF Inv, ProcInv
<1>a. /\ pc[p] = "unpin"
      /\ \/ pc'[p] = "sweep" /\ path = fd[p]
         \/ pc'[p] = "unlock"
      /\ Stays(p) /\ Keeps(p) /\ ret'[p] = ret[p]
      /\ UNCHANGED <<path, rec, active, withdrawn, alive>>
      /\ UNCHANGED <<fenced, published, forked>> BY <1>0 DEF TypeOK, Unpin, Go, fileVars, effects
<1>t. TypedNow(p) BY <1>0, TypesBefore
<1>1. Others(p) BY <1>0 DEF TypeOK, Others, Unpin, Go, fileVars, effects
<1>2. \A q \in Proc \ {p} : Same(q) BY <1>0, <1>1, OthersSame
<1>3. Typed(p) BY <1>a, <1>t DEF TypedNow, Labels, Typed
<1>4. Considerate(p) /\ RecordInv' BY <1>0, Calm DEF Unpin, Go, fileVars, effects
<1>5. Entitled(p)
  <2>1. flocked[p] /\ ~Owns(p)' BY <1>0, <1>a DEF FlockOK, TargetOK
  <2>2. rec[fd[p]].pid = p \/ (p = Daemon /\ rec[fd[p]].pid = Launcher) BY <1>0, <1>a DEF TargetOK
  <2>3. p = Daemon => ~Owns(Launcher) BY <1>0, <1>a, ProcFacts DEF LauncherInv
  <2>4. ~Owns(p) BY <1>a
  <2>5. path = fd[p] => \A q \in Proc : ~Owns(q) BY <1>0, <2>2, <2>3, <2>4, ProcFacts DEF OwnOK
  <2> QED BY <1>0, <1>a, <2>1, <2>5 DEF Entitled
<1>6. ProcInv(p)' BY <1>0, <1>a, ProcFacts DEF AliveOK, FlockOK, BoundOK, RoleOK, GuardOK,
     TargetOK, OwnOK, VictimOK
<1>7. LauncherInv' /\ FenceInv' BY <1>0, <1>a, <1>2, ProcFacts DEF LauncherInv, FenceInv, Admitted, Same,
     RoleOK, TargetOK
<1> QED BY <1>0, <1>1, <1>3, <1>4, <1>5, <1>6, <1>7, OneProc

(* A contender pins its own claim. *)
LEMMA StartFenceStep ==
  ASSUME Inv, NEW p \in Proc, StartFence(p)
  PROVE  Inv'
<1>0. /\ TypeOK /\ ProcInv(p) /\ RecordInv /\ LauncherInv /\ FenceInv
      /\ p \in Proc /\ \A q \in Proc : PairInv(p, q) /\ OwnOK(q) BY ProcFacts DEF Inv, ProcInv
<1>a. /\ pc[p] = "held"
      /\ p \in Contenders
      /\ pc'[p] = "pinopen" /\ ret'[p] = "fence"
      /\ tgt'[p] = Owner(p, guard[p])
      /\ active' \subseteq active \cup {guard[p]} /\ guard'[p] = guard[p]
      /\ Stays(p)
      /\ UNCHANGED <<path, rec, withdrawn, alive>>
      /\ UNCHANGED <<fenced, published, forked>>
  BY <1>0 DEF TypeOK, StartFence, Go, fileVars, effects, PinOwnClaim, Activate
<1>t. TypedNow(p) BY <1>0, TypesBefore
<1>1. Others(p) BY <1>0 DEF TypeOK, Others, StartFence, Go, fileVars, effects, PinOwnClaim,
     Activate
<1>2. \A q \in Proc \ {p} : Same(q) BY <1>0, <1>1, OthersSame
<1>3. Typed(p) BY <1>a, <1>t DEF TypedNow, Labels, Typed, Owner
<1>4. Considerate(p) /\ RecordInv'
  BY <1>0, Calm DEF StartFence, Go, fileVars, effects, PinOwnClaim, Activate
<1>5. Entitled(p) BY <1>0, <1>a DEF Entitled, FlockOK, TargetOK
<1>6. ProcInv(p)' BY <1>0, <1>a, ProcFacts DEF AliveOK, FlockOK, BoundOK, RoleOK, GuardOK,
     TargetOK, OwnOK, VictimOK, Owner
<1>7. LauncherInv' /\ FenceInv' BY <1>0, <1>a, <1>2, ProcFacts DEF LauncherInv, FenceInv, Admitted, Same,
     RoleOK, TargetOK
<1> QED BY <1>0, <1>1, <1>3, <1>4, <1>5, <1>6, <1>7, OneProc

(* A fence is installed by the owner of the lock, so the daemon is *)
(* admitted to nothing. *)
LEMMA EndFenceStep ==
  ASSUME Inv, NEW p \in Proc, EndFence(p)
  PROVE  Inv'
<1>0. /\ TypeOK /\ ProcInv(p) /\ RecordInv /\ LauncherInv /\ FenceInv
      /\ p \in Proc /\ \A q \in Proc : PairInv(p, q) /\ OwnOK(q) BY ProcFacts DEF Inv, ProcInv
<1>a. /\ pc[p] = "fence"
      /\ pc'[p] = "unpin" /\ ret'[p] = "drop" /\ fenced' \in BOOLEAN
      /\ Stays(p) /\ Keeps(p)
      /\ UNCHANGED <<path, rec, active, withdrawn, alive>>
      /\ UNCHANGED <<published, forked>> BY <1>0 DEF TypeOK, EndFence, Go, fileVars, effects
<1>t. TypedNow(p) BY <1>0, TypesBefore
<1>1. Others(p) BY <1>0 DEF TypeOK, Others, EndFence, Go, fileVars, effects
<1>2. \A q \in Proc \ {p} : Same(q) BY <1>0, <1>1, OthersSame
<1>3. Typed(p) BY <1>a, <1>t DEF TypedNow, Labels, Typed
<1>4. Considerate(p) /\ RecordInv' BY <1>0, Calm DEF EndFence, Go, fileVars, effects
<1>5. Entitled(p) BY <1>0, <1>a DEF Entitled, FlockOK, TargetOK
<1>6. ProcInv(p)' BY <1>0, <1>a, ProcFacts DEF AliveOK, FlockOK, BoundOK, RoleOK, GuardOK,
     TargetOK, OwnOK, VictimOK, Owner
<1>7. LauncherInv' /\ FenceInv'
  <2>1. ProcInv(Daemon) BY ProcFacts DEF Inv
  <2>2. p \in Contenders /\ Same(Launcher) /\ Same(Daemon) BY <1>0, <1>a, <1>2, ProcFacts DEF RoleOK
  <2>3. LauncherInv' BY <1>0, <2>2 DEF LauncherInv, Same
  <2>4. Owns(p) /\ flocked[p] /\ path = fd[p] BY <1>0, <1>a DEF FlockOK, BoundOK
  <2>5. ~Owns(Daemon) BY <1>0, <2>2, <2>4, ProcFacts DEF OwnOK
  <2>6. pc[Daemon] \notin {"effect", "take"}
    BY <1>0, <2>1, <2>2, <2>4, ProcFacts DEF FlockOK, BoundOK, PairInv
  <2>7. ~Admitted' BY <2>2, <2>5, <2>6 DEF Admitted, Same
  <2> QED BY <2>3, <2>7 DEF FenceInv
<1> QED BY <1>0, <1>1, <1>3, <1>4, <1>5, <1>6, <1>7, OneProc

(* The launcher replaces its record by one that names its daemon. *)
LEMMA HandOverStep ==
  ASSUME Inv, HandOver
  PROVE  Inv'
<1>0. /\ TypeOK /\ ProcInv(Launcher) /\ RecordInv /\ LauncherInv /\ FenceInv
      /\ Launcher \in Proc /\ \A q \in Proc : PairInv(Launcher, q) /\ OwnOK(q)
  BY ProcFacts DEF Inv, ProcInv
<1>a. /\ pc[Launcher] = "hoswap"
      /\ Link(Owner(Daemon, guard[Launcher])) /\ pc'[Launcher] = "unpin"
      /\ ret'[Launcher] = "handed"
      /\ path \in 1..Len(rec) /\ path = fd[Launcher] /\ flocked[Launcher]
      /\ rec[path] = Owner(Launcher, guard[Launcher]) /\ guard[Launcher] # 0
      /\ Stays(Launcher) /\ Keeps(Launcher)
      /\ UNCHANGED <<active, withdrawn, alive, fenced, published, forked>>
  BY <1>0, ProcFacts DEF TypeOK, HandOver, Go, fileVars, effects, FlockOK,
     BoundOK, GuardOK, TargetOK, LauncherInv
<1>b. Linked(Daemon, guard[Launcher])
  <2>1. guard[Launcher] \in Nat BY <1>0, ProcFacts DEF TypeOK
  <2> QED BY <1>0, <1>a, <2>1, ProcFacts, LinkFacts
<1>c. rec'[fd[Launcher]] = rec[fd[Launcher]] /\ Len(rec) <= Len(rec') BY <1>a, <1>b DEF Linked, Grows
<1>t. TypedNow(Launcher) BY <1>0, TypesBefore
<1>1. Others(Launcher) BY <1>0 DEF TypeOK, Others, HandOver, Go, fileVars, effects
<1>2. \A q \in Proc \ {Launcher} : Same(q) BY <1>0, <1>1, OthersSame
<1>3. Typed(Launcher)
  <2>1. rec' \in Seq([pid : Proc, nonce : Nat]) /\ path' \in 0..Len(rec') BY <1>b DEF Linked, Grows
  <2>2. fd'[Launcher] \in 0..Len(rec') BY <1>a, <1>b DEF Linked, Grows
  <2> QED BY <1>a, <1>c, <1>t, <2>1, <2>2 DEF TypedNow, Labels, Typed
<1>4. Considerate(Launcher) /\ RecordInv'
  <2>1. \A q \in Proc \ {Launcher} : ~Owns(q) BY <1>0, <1>a DEF OwnOK, Owner
  <2>2. Considerate(Launcher) BY <1>a, <1>b, <1>0, <2>1 DEF Considerate, Linked, OwnOK
  <2>3. UNCHANGED <<guard, active, withdrawn>> BY DEF HandOver
  <2>4. RecordInv' BY <1>0, <1>a, <1>b, <2>3, RecordSwapped
  <2> QED BY <2>2, <2>4
<1>5. Entitled(Launcher) BY <1>0, <1>a DEF Entitled, FlockOK, TargetOK
<1>6. ProcInv(Launcher)'
  <2>1. GuardOK(Launcher)' BY <1>0, <1>a, <1>b DEF GuardOK, Linked, Grows
  <2>2. TargetOK(Launcher)' BY <1>0, <1>a, <1>c, ProcFacts DEF TargetOK, Owner
  <2>3. FlockOK(Launcher)' /\ BoundOK(Launcher)' /\ OwnOK(Launcher)'
    BY <1>0, <1>a DEF FlockOK, BoundOK, OwnOK
  <2>4. AliveOK(Launcher)' /\ RoleOK(Launcher)' /\ VictimOK(Launcher)'
    BY <1>0, <1>a, ProcFacts DEF AliveOK, RoleOK, VictimOK
  <2> QED BY <2>1, <2>2, <2>3, <2>4
<1>7. LauncherInv' /\ FenceInv' BY <1>0, <1>a, <1>2, ProcFacts DEF LauncherInv, FenceInv, Admitted, Same,
     RoleOK, TargetOK
<1> QED BY <1>0, <1>1, <1>3, <1>4, <1>5, <1>6, <1>7, OneProc

(* The gated daemon exits. *)
LEMMA GateClosedStep ==
  ASSUME Inv, GateClosed
  PROVE  Inv'
<1>0. /\ TypeOK /\ ProcInv(Daemon) /\ RecordInv /\ LauncherInv /\ FenceInv
      /\ Daemon \in Proc /\ \A q \in Proc : PairInv(Daemon, q) /\ OwnOK(q) BY ProcFacts DEF Inv, ProcInv
<1>a. /\ pc[Daemon] = "gated"
      /\ pc'[Daemon] = "dead" /\ alive' = alive \ {Daemon}
      /\ Stays(Daemon) /\ Keeps(Daemon) /\ ret'[Daemon] = ret[Daemon]
      /\ UNCHANGED <<path, rec, active, withdrawn>>
      /\ UNCHANGED <<fenced, published, forked>> BY <1>0 DEF TypeOK, GateClosed, Go, fileVars, effects
<1>t. TypedNow(Daemon) BY <1>0, TypesBefore
<1>1. Others(Daemon) BY <1>0 DEF TypeOK, Others, GateClosed, Go, fileVars, effects
<1>2. \A q \in Proc \ {Daemon} : Same(q) BY <1>0, <1>1, OthersSame
<1>3. Typed(Daemon) BY <1>a, <1>t DEF TypedNow, Labels, Typed
<1>4. Considerate(Daemon) /\ RecordInv' BY <1>0, Calm DEF GateClosed, Go, fileVars, effects
<1>5. Entitled(Daemon) BY <1>0, <1>a DEF Entitled, FlockOK, TargetOK
<1>6. ProcInv(Daemon)' BY <1>0, <1>a, ProcFacts DEF AliveOK, FlockOK, BoundOK, RoleOK, GuardOK,
     TargetOK, OwnOK, VictimOK
<1>7. LauncherInv' /\ FenceInv' BY <1>0, <1>a, <1>2, ProcFacts DEF LauncherInv, FenceInv, Admitted, Same,
     RoleOK, TargetOK
<1> QED BY <1>0, <1>1, <1>3, <1>4, <1>5, <1>6, <1>7, OneProc

(* The daemon is admitted only without a fence. *)
LEMMA CheckPublicationStep ==
  ASSUME Inv, CheckPublication
  PROVE  Inv'
<1>0. /\ TypeOK /\ ProcInv(Daemon) /\ RecordInv /\ LauncherInv /\ FenceInv
      /\ Daemon \in Proc /\ \A q \in Proc : PairInv(Daemon, q) /\ OwnOK(q) BY ProcFacts DEF Inv, ProcInv
<1>a. /\ pc[Daemon] = "publish"
      /\ \/ ~fenced /\ pc'[Daemon] = "effect" /\ ret'[Daemon] = ret[Daemon]
         \/ pc'[Daemon] = "unpin" /\ ret'[Daemon] \in {"retired", "done"}
      /\ Stays(Daemon) /\ Keeps(Daemon)
      /\ UNCHANGED <<path, rec, active, withdrawn, alive>>
      /\ UNCHANGED <<fenced, published, forked>>
  BY <1>0 DEF TypeOK, CheckPublication, Go, fileVars, effects
<1>t. TypedNow(Daemon) BY <1>0, TypesBefore
<1>1. Others(Daemon) BY <1>0 DEF TypeOK, Others, CheckPublication, Go, fileVars, effects
<1>2. \A q \in Proc \ {Daemon} : Same(q) BY <1>0, <1>1, OthersSame
<1>3. Typed(Daemon) BY <1>a, <1>t DEF TypedNow, Labels, Typed
<1>4. Considerate(Daemon) /\ RecordInv' BY <1>0, Calm DEF CheckPublication, Go, fileVars, effects
<1>5. Entitled(Daemon) BY <1>0, <1>a DEF Entitled, FlockOK, TargetOK
<1>6. ProcInv(Daemon)' BY <1>0, <1>a, ProcFacts DEF AliveOK, FlockOK, BoundOK, RoleOK, GuardOK,
     TargetOK, OwnOK, VictimOK
<1>7. LauncherInv' /\ FenceInv' BY <1>0, <1>a, <1>2, ProcFacts DEF LauncherInv, FenceInv, Admitted, Same,
     RoleOK, TargetOK
<1> QED BY <1>0, <1>1, <1>3, <1>4, <1>5, <1>6, <1>7, OneProc

(* The publication happens under the pin. *)
LEMMA PublishSessionStep ==
  ASSUME Inv, PublishSession
  PROVE  Inv'
<1>0. /\ TypeOK /\ ProcInv(Daemon) /\ RecordInv /\ LauncherInv /\ FenceInv
      /\ Daemon \in Proc /\ \A q \in Proc : PairInv(Daemon, q) /\ OwnOK(q) BY ProcFacts DEF Inv, ProcInv
<1>a. /\ pc[Daemon] = "effect"
      /\ published' = TRUE
      /\ \/ pc'[Daemon] = "take" /\ ret'[Daemon] = ret[Daemon]
         \/ /\ pc'[Daemon] = "unpin"
            /\ ret'[Daemon] \in {"done", "owned", "retired"}
      /\ Stays(Daemon) /\ Keeps(Daemon)
      /\ UNCHANGED <<path, rec, active, withdrawn, alive, fenced, forked>>
  BY <1>0 DEF TypeOK, PublishSession, Go, fileVars, effects
<1>t. TypedNow(Daemon) BY <1>0, TypesBefore
<1>1. Others(Daemon) BY <1>0 DEF TypeOK, Others, PublishSession, Go, fileVars, effects
<1>2. \A q \in Proc \ {Daemon} : Same(q) BY <1>0, <1>1, OthersSame
<1>3. Typed(Daemon) BY <1>a, <1>t DEF TypedNow, Labels, Typed
<1>4. Considerate(Daemon) /\ RecordInv' BY <1>0, Calm DEF PublishSession, Go, fileVars, effects
<1>5. Entitled(Daemon) BY <1>0, <1>a DEF Entitled, FlockOK, TargetOK
<1>6. ProcInv(Daemon)' BY <1>0, <1>a, ProcFacts DEF AliveOK, FlockOK, BoundOK, RoleOK, GuardOK,
     TargetOK, OwnOK, VictimOK
<1>7. LauncherInv' /\ FenceInv' BY <1>0, <1>a, <1>2, ProcFacts DEF LauncherInv, FenceInv, Admitted, Same,
     RoleOK, TargetOK
<1> QED BY <1>0, <1>1, <1>3, <1>4, <1>5, <1>6, <1>7, OneProc

(* The daemon replaces the pinned record by its own. *)
LEMMA TakeClaimStep ==
  ASSUME Inv, TakeClaim
  PROVE  Inv'
<1>0. /\ TypeOK /\ ProcInv(Daemon) /\ RecordInv /\ LauncherInv /\ FenceInv
      /\ Daemon \in Proc /\ \A q \in Proc : PairInv(Daemon, q) /\ OwnOK(q) BY ProcFacts DEF Inv, ProcInv
<1>a. /\ pc[Daemon] = "take"
      /\ Link(Owner(Daemon, Fresh)) /\ guard'[Daemon] = Fresh
      /\ pc'[Daemon] = "unlock" /\ ret'[Daemon] = "serving"
      /\ path \in 1..Len(rec) /\ path = fd[Daemon] /\ flocked[Daemon]
      /\ rec[path].pid \in {Launcher, Daemon}
      /\ tgt'[Daemon] = tgt[Daemon]
      /\ Stays(Daemon)
      /\ UNCHANGED <<active, withdrawn, alive, fenced, published, forked>>
  BY SMTT(60), <1>0, ProcFacts DEF TypeOK, TakeClaim, Go, fileVars, effects, FlockOK,
     BoundOK, TargetOK
<1>b. Linked(Daemon, Fresh) /\ Fresh \in Nat
  <2>1. Fresh \in Nat BY <1>0 DEF TypeOK, Fresh
  <2> QED BY <1>0, <1>a, <2>1, LinkFacts
<1>c. Fresh \notin withdrawn /\ path' # 0 /\ path' = Fresh
  BY <1>0, <1>b DEF RecordInv, Fresh, Linked, Grows
<1>t. TypedNow(Daemon) BY <1>0, TypesBefore
<1>1. Others(Daemon) BY <1>0 DEF TypeOK, Others, TakeClaim, Go, fileVars, effects
<1>2. \A q \in Proc \ {Daemon} : Same(q) BY <1>0, <1>1, OthersSame
<1>3. Typed(Daemon)
  <2>1. /\ rec' \in Seq([pid : Proc, nonce : Nat]) /\ path' \in 0..Len(rec')
        /\ Len(rec) <= Len(rec') BY <1>b DEF Linked, Grows
  <2>2. fd'[Daemon] \in 0..Len(rec') BY <1>a, <1>b DEF Linked, Grows
  <2> QED BY SMTT(60), <1>a, <1>b, <1>t, <2>1, <2>2 DEF TypedNow, Labels, Typed
<1>4. Considerate(Daemon) /\ RecordInv'
  <2>1. ~Owns(Launcher) BY <1>0, <1>a, ProcFacts DEF LauncherInv
  <2>2. \A q \in Proc \ {Daemon} : ~Owns(q) BY <1>0, <1>a, <2>1 DEF OwnOK
  <2>3. Considerate(Daemon) BY <1>0, <1>a, <1>b, <2>2 DEF Considerate, Linked, OwnOK
  <2>4. guard'[Launcher] = guard[Launcher] BY <1>2, ProcFacts DEF Same
  <2>5. RecordInv' BY <1>0, <1>a, <1>b, <2>4, RecordAdded
  <2> QED BY <2>3, <2>5
<1>5. Entitled(Daemon) BY <1>0, <1>a DEF Entitled, FlockOK, TargetOK
<1>6. ProcInv(Daemon)'
  <2>1. GuardOK(Daemon)' BY <1>0, <1>a, <1>b DEF GuardOK, Linked, Grows, Fresh
  <2>2. OwnOK(Daemon)' BY <1>0, <1>a, <1>b, <1>c DEF OwnOK, Linked
  <2>3. FlockOK(Daemon)' /\ BoundOK(Daemon)' /\ TargetOK(Daemon)'
    BY <1>0, <1>a, ProcFacts DEF FlockOK, BoundOK, TargetOK
  <2>4. AliveOK(Daemon)' /\ RoleOK(Daemon)' /\ VictimOK(Daemon)'
    BY <1>0, <1>a, ProcFacts DEF AliveOK, RoleOK, VictimOK
  <2> QED BY <2>1, <2>2, <2>3, <2>4
<1>7. LauncherInv' /\ FenceInv' BY <1>0, <1>a, <1>2, ProcFacts DEF LauncherInv, FenceInv, Admitted, Same,
     RoleOK, TargetOK
<1> QED BY <1>0, <1>1, <1>3, <1>4, <1>5, <1>6, <1>7, OneProc

(* The daemon forks under its claim. *)
LEMMA ForkChildStep ==
  ASSUME Inv, ForkChild
  PROVE  Inv'
<1>0. /\ TypeOK /\ ProcInv(Daemon) /\ RecordInv /\ LauncherInv /\ FenceInv
      /\ Daemon \in Proc /\ \A q \in Proc : PairInv(Daemon, q) /\ OwnOK(q) BY ProcFacts DEF Inv, ProcInv
<1>a. /\ pc[Daemon] = "serving"
      /\ pc'[Daemon] \in {"handback", "drop"} /\ forked' \in BOOLEAN
      /\ Stays(Daemon) /\ Keeps(Daemon) /\ ret'[Daemon] = ret[Daemon]
      /\ UNCHANGED <<path, rec, active, withdrawn, alive>>
      /\ UNCHANGED <<fenced, published>> BY <1>0 DEF TypeOK, ForkChild, Go, fileVars, effects
<1>t. TypedNow(Daemon) BY <1>0, TypesBefore
<1>1. Others(Daemon) BY <1>0 DEF TypeOK, Others, ForkChild, Go, fileVars, effects
<1>2. \A q \in Proc \ {Daemon} : Same(q) BY <1>0, <1>1, OthersSame
<1>3. Typed(Daemon) BY <1>a, <1>t DEF TypedNow, Labels, Typed
<1>4. Considerate(Daemon) /\ RecordInv' BY <1>0, Calm DEF ForkChild, Go, fileVars, effects
<1>5. Entitled(Daemon) BY <1>0, <1>a DEF Entitled, FlockOK, TargetOK
<1>6. ProcInv(Daemon)' BY <1>0, <1>a, ProcFacts DEF AliveOK, FlockOK, BoundOK, RoleOK, GuardOK,
     TargetOK, OwnOK, VictimOK
<1>7. LauncherInv' /\ FenceInv' BY <1>0, <1>a, <1>2, ProcFacts DEF LauncherInv, FenceInv, Admitted, Same,
     RoleOK, TargetOK
<1> QED BY <1>0, <1>1, <1>3, <1>4, <1>5, <1>6, <1>7, OneProc

(* The daemon pins its own claim, or withdraws it. *)
LEMMA HandBackStep ==
  ASSUME Inv, HandBack
  PROVE  Inv'
<1>0. /\ TypeOK /\ ProcInv(Daemon) /\ RecordInv /\ LauncherInv /\ FenceInv
      /\ Daemon \in Proc /\ \A q \in Proc : PairInv(Daemon, q) /\ OwnOK(q) BY ProcFacts DEF Inv, ProcInv
<1>a. /\ pc[Daemon] = "handback"
      /\ \/ /\ pc'[Daemon] = "pinopen" /\ ret'[Daemon] = "hbswap"
            /\ Activate(guard[Daemon])
         \/ /\ pc'[Daemon] = "relopen" /\ ret'[Daemon] = "hbforget"
            /\ Withdraw(guard[Daemon])
      /\ tgt'[Daemon] = Owner(Daemon, guard[Daemon])
      /\ guard'[Daemon] = guard[Daemon] /\ guard[Daemon] # 0
      /\ Stays(Daemon)
      /\ UNCHANGED <<path, rec, alive, fenced, published, forked>>
  BY <1>0 DEF TypeOK, HandBack, Go, fileVars, effects, Release, PinOwnClaim,
     GuardOK
<1>t. TypedNow(Daemon) BY <1>0, TypesBefore
<1>1. Others(Daemon) BY ZenonT(60), <1>0 DEF TypeOK, Others, HandBack, Go, fileVars, effects, Release,
     PinOwnClaim, GuardOK
<1>2. \A q \in Proc \ {Daemon} : Same(q) BY <1>0, <1>1, OthersSame
<1>3. Typed(Daemon)
  <2>1. guard[Daemon] \in Nat BY <1>0 DEF TypeOK
  <2>2. active' \subseteq Nat /\ withdrawn' \subseteq Nat
    BY <1>0, <1>a, <2>1 DEF TypeOK, Withdraw, Activate
  <2> QED BY <1>a, <1>t, <2>2, ProcFacts DEF TypedNow, Labels, Typed, Owner
<1>4. Considerate(Daemon) /\ RecordInv'
  <2>1. UNCHANGED <<path, rec, guard>> BY DEF HandBack, Release, PinOwnClaim
  <2>2. CASE Activate(guard[Daemon]) BY <1>0, <2>1, <2>2, Calm DEF Activate
  <2>3. CASE Withdraw(guard[Daemon]) BY <1>0, <1>a, <2>1, <2>3, Withdrawn
  <2> QED BY <1>a, <2>2, <2>3
<1>5. Entitled(Daemon) BY <1>0, <1>a DEF Entitled, FlockOK, TargetOK
<1>6. ProcInv(Daemon)' BY <1>0, <1>a, ProcFacts DEF AliveOK, FlockOK, BoundOK, RoleOK, GuardOK,
     TargetOK, OwnOK, VictimOK, Owner
<1>7. LauncherInv' /\ FenceInv' BY <1>0, <1>a, <1>2, ProcFacts DEF LauncherInv, FenceInv, Admitted, Same,
     RoleOK, TargetOK
<1> QED BY <1>0, <1>1, <1>3, <1>4, <1>5, <1>6, <1>7, OneProc

(* The launcher's token is removed with the claim. *)
LEMMA HandBackForgetStep ==
  ASSUME Inv, HandBackForget
  PROVE  Inv'
<1>0. /\ TypeOK /\ ProcInv(Daemon) /\ RecordInv /\ LauncherInv /\ FenceInv
      /\ Daemon \in Proc /\ \A q \in Proc : PairInv(Daemon, q) /\ OwnOK(q) BY ProcFacts DEF Inv, ProcInv
<1>a. /\ pc[Daemon] = "hbforget"
      /\ pc'[Daemon] = "done" /\ active' \subseteq active
      /\ withdrawn' \subseteq withdrawn
      /\ Stays(Daemon) /\ Keeps(Daemon) /\ ret'[Daemon] = ret[Daemon]
      /\ UNCHANGED <<path, rec, alive, fenced, published, forked>>
  BY <1>0 DEF TypeOK, HandBackForget, Go, fileVars, effects, RemoveToken
<1>t. TypedNow(Daemon) BY <1>0, TypesBefore
<1>1. Others(Daemon) BY <1>0 DEF TypeOK, Others, HandBackForget, Go, fileVars, effects,
     RemoveToken
<1>2. \A q \in Proc \ {Daemon} : Same(q) BY <1>0, <1>1, OthersSame
<1>3. Typed(Daemon) BY <1>a, <1>t DEF TypedNow, Labels, Typed
<1>4. Considerate(Daemon) /\ RecordInv'
  BY <1>0, Calm DEF HandBackForget, Go, fileVars, effects, RemoveToken
<1>5. Entitled(Daemon) BY <1>0, <1>a DEF Entitled, FlockOK, TargetOK
<1>6. ProcInv(Daemon)' BY <1>0, <1>a, ProcFacts DEF AliveOK, FlockOK, BoundOK, RoleOK, GuardOK,
     TargetOK, OwnOK, VictimOK
<1>7. LauncherInv' /\ FenceInv' BY <1>0, <1>a, <1>2, ProcFacts DEF LauncherInv, FenceInv, Admitted, Same,
     RoleOK, TargetOK
<1> QED BY <1>0, <1>1, <1>3, <1>4, <1>5, <1>6, <1>7, OneProc

(* The daemon replaces its record by its launcher's. *)
LEMMA HandBackSwapStep ==
  ASSUME Inv, HandBackSwap
  PROVE  Inv'
<1>0. /\ TypeOK /\ ProcInv(Daemon) /\ RecordInv /\ LauncherInv /\ FenceInv
      /\ Daemon \in Proc /\ \A q \in Proc : PairInv(Daemon, q) /\ OwnOK(q) BY ProcFacts DEF Inv, ProcInv
<1>a. /\ pc[Daemon] = "hbswap"
      /\ Link(Owner(Launcher, guard[Launcher])) /\ pc'[Daemon] = "unpin"
      /\ ret'[Daemon] = "hbtoken"
      /\ path \in 1..Len(rec) /\ path = fd[Daemon] /\ flocked[Daemon]
      /\ rec[path] = Owner(Daemon, guard[Daemon]) /\ guard[Launcher] # 0
      /\ Stays(Daemon) /\ Keeps(Daemon)
      /\ UNCHANGED <<active, withdrawn, alive, fenced, published, forked>>
  BY <1>0, ProcFacts DEF TypeOK, HandBackSwap, Go, fileVars, effects, FlockOK,
     BoundOK, GuardOK, TargetOK, LauncherInv
<1>b. Linked(Launcher, guard[Launcher])
  <2>1. guard[Launcher] \in Nat BY <1>0, ProcFacts DEF TypeOK
  <2> QED BY <1>0, <1>a, <2>1, ProcFacts, LinkFacts
<1>c. rec'[fd[Daemon]] = rec[fd[Daemon]] /\ Len(rec) <= Len(rec') BY <1>a, <1>b DEF Linked, Grows
<1>t. TypedNow(Daemon) BY <1>0, TypesBefore
<1>1. Others(Daemon) BY <1>0 DEF TypeOK, Others, HandBackSwap, Go, fileVars, effects
<1>2. \A q \in Proc \ {Daemon} : Same(q) BY <1>0, <1>1, OthersSame
<1>3. Typed(Daemon)
  <2>1. rec' \in Seq([pid : Proc, nonce : Nat]) /\ path' \in 0..Len(rec') BY <1>b DEF Linked, Grows
  <2>2. fd'[Daemon] \in 0..Len(rec') BY <1>a, <1>b DEF Linked, Grows
  <2> QED BY ZenonT(60), <1>a, <1>c, <1>t, <2>1, <2>2 DEF TypedNow, Labels, Typed
<1>4. Considerate(Daemon) /\ RecordInv'
  <2>1. \A q \in Proc \ {Daemon} : ~Owns(q) BY <1>0, <1>a DEF OwnOK, Owner
  <2>2. Considerate(Daemon) BY <1>a, <1>b, <1>0, <2>1 DEF Considerate, Linked, OwnOK
  <2>3. UNCHANGED <<guard, active, withdrawn>> BY DEF HandBackSwap
  <2>4. RecordInv' BY <1>0, <1>a, <1>b, <2>3, RecordSwapped
  <2> QED BY <2>2, <2>4
<1>5. Entitled(Daemon) BY <1>0, <1>a DEF Entitled, FlockOK, TargetOK
<1>6. ProcInv(Daemon)'
  <2>1. GuardOK(Daemon)' BY <1>0, <1>a, <1>b DEF GuardOK, Linked, Grows
  <2>2. TargetOK(Daemon)' BY <1>0, <1>a, <1>c, ProcFacts DEF TargetOK, Owner
  <2>3. FlockOK(Daemon)' /\ BoundOK(Daemon)' /\ OwnOK(Daemon)' BY <1>0, <1>a DEF FlockOK, BoundOK, OwnOK
  <2>4. AliveOK(Daemon)' /\ RoleOK(Daemon)' /\ VictimOK(Daemon)'
    BY <1>0, <1>a, ProcFacts DEF AliveOK, RoleOK, VictimOK
  <2> QED BY <2>1, <2>2, <2>3, <2>4
<1>7. LauncherInv' /\ FenceInv' BY <1>0, <1>a, <1>2, ProcFacts DEF LauncherInv, FenceInv, Admitted, Same,
     RoleOK, TargetOK
<1> QED BY <1>0, <1>1, <1>3, <1>4, <1>5, <1>6, <1>7, OneProc

(* The daemon's token is removed after the swap. *)
LEMMA HandBackTokenStep ==
  ASSUME Inv, HandBackToken
  PROVE  Inv'
<1>0. /\ TypeOK /\ ProcInv(Daemon) /\ RecordInv /\ LauncherInv /\ FenceInv
      /\ Daemon \in Proc /\ \A q \in Proc : PairInv(Daemon, q) /\ OwnOK(q) BY ProcFacts DEF Inv, ProcInv
<1>a. /\ pc[Daemon] = "hbtoken"
      /\ pc'[Daemon] = "hbcheck" /\ active' \subseteq active
      /\ withdrawn' \subseteq withdrawn
      /\ Stays(Daemon) /\ Keeps(Daemon) /\ ret'[Daemon] = ret[Daemon]
      /\ UNCHANGED <<path, rec, alive, fenced, published, forked>>
  BY <1>0 DEF TypeOK, HandBackToken, Go, fileVars, effects, RemoveToken
<1>t. TypedNow(Daemon) BY <1>0, TypesBefore
<1>1. Others(Daemon) BY <1>0 DEF TypeOK, Others, HandBackToken, Go, fileVars, effects,
     RemoveToken
<1>2. \A q \in Proc \ {Daemon} : Same(q) BY <1>0, <1>1, OthersSame
<1>3. Typed(Daemon) BY <1>a, <1>t DEF TypedNow, Labels, Typed
<1>4. Considerate(Daemon) /\ RecordInv'
  BY <1>0, Calm DEF HandBackToken, Go, fileVars, effects, RemoveToken
<1>5. Entitled(Daemon) BY <1>0, <1>a DEF Entitled, FlockOK, TargetOK
<1>6. ProcInv(Daemon)' BY <1>0, <1>a, ProcFacts DEF AliveOK, FlockOK, BoundOK, RoleOK, GuardOK,
     TargetOK, OwnOK, VictimOK
<1>7. LauncherInv' /\ FenceInv' BY <1>0, <1>a, <1>2, ProcFacts DEF LauncherInv, FenceInv, Admitted, Same,
     RoleOK, TargetOK
<1> QED BY <1>0, <1>1, <1>3, <1>4, <1>5, <1>6, <1>7, OneProc

(* A claim withdrawn during the swap is released by the daemon. *)
LEMMA HandBackCheckStep ==
  ASSUME Inv, HandBackCheck
  PROVE  Inv'
<1>0. /\ TypeOK /\ ProcInv(Daemon) /\ RecordInv /\ LauncherInv /\ FenceInv
      /\ Daemon \in Proc /\ \A q \in Proc : PairInv(Daemon, q) /\ OwnOK(q) BY ProcFacts DEF Inv, ProcInv
<1>a. /\ pc[Daemon] = "hbcheck"
      /\ \/ /\ pc'[Daemon] = "done"
            /\ ret'[Daemon] = ret[Daemon] /\ tgt'[Daemon] = tgt[Daemon]
         \/ /\ pc'[Daemon] = "relopen" /\ ret'[Daemon] = "done"
            /\ tgt'[Daemon] = Owner(Launcher, guard[Launcher])
      /\ guard[Launcher] \in Nat /\ guard'[Daemon] = guard[Daemon]
      /\ Stays(Daemon)
      /\ UNCHANGED <<path, rec, active, withdrawn, alive>>
      /\ UNCHANGED <<fenced, published, forked>>
  BY <1>0, ProcFacts DEF TypeOK, HandBackCheck, Go, fileVars, effects
<1>t. TypedNow(Daemon) BY <1>0, TypesBefore
<1>1. Others(Daemon) BY <1>0 DEF TypeOK, Others, HandBackCheck, Go, fileVars, effects
<1>2. \A q \in Proc \ {Daemon} : Same(q) BY <1>0, <1>1, OthersSame
<1>3. Typed(Daemon) BY <1>a, <1>t, ProcFacts DEF TypedNow, Labels, Typed, Owner
<1>4. Considerate(Daemon) /\ RecordInv' BY <1>0, Calm DEF HandBackCheck, Go, fileVars, effects
<1>5. Entitled(Daemon) BY <1>0, <1>a DEF Entitled, FlockOK, TargetOK
<1>6. ProcInv(Daemon)' BY <1>0, <1>a, ProcFacts DEF AliveOK, FlockOK, BoundOK, RoleOK, GuardOK,
     TargetOK, OwnOK, VictimOK, LauncherInv, Owner
<1>7. LauncherInv' /\ FenceInv' BY <1>0, <1>a, <1>2, ProcFacts DEF LauncherInv, FenceInv, Admitted, Same,
     RoleOK, TargetOK
<1> QED BY <1>0, <1>1, <1>3, <1>4, <1>5, <1>6, <1>7, OneProc

(* An operation's daemon releases what is under its pid. *)
LEMMA ReleaseOwnedStep ==
  ASSUME Inv, ReleaseOwned
  PROVE  Inv'
<1>0. /\ TypeOK /\ ProcInv(Daemon) /\ RecordInv /\ LauncherInv /\ FenceInv
      /\ Daemon \in Proc /\ \A q \in Proc : PairInv(Daemon, q) /\ OwnOK(q) BY ProcFacts DEF Inv, ProcInv
<1>a. /\ pc[Daemon] \in {"owned", "retired"}
      /\ pc'[Daemon] = "relopen" /\ ret'[Daemon] \in {"idle", "done"}
      /\ tgt'[Daemon] = Owner(Daemon, 0) /\ guard'[Daemon] = guard[Daemon]
      /\ Stays(Daemon)
      /\ UNCHANGED <<path, rec, active, withdrawn, alive>>
      /\ UNCHANGED <<fenced, published, forked>> BY <1>0 DEF TypeOK, ReleaseOwned, Go, fileVars, effects
<1>t. TypedNow(Daemon) BY <1>0, TypesBefore
<1>1. Others(Daemon) BY <1>0 DEF TypeOK, Others, ReleaseOwned, Go, fileVars, effects
<1>2. \A q \in Proc \ {Daemon} : Same(q) BY <1>0, <1>1, OthersSame
<1>3. Typed(Daemon) BY <1>a, <1>t, ProcFacts DEF TypedNow, Labels, Typed, Owner
<1>4. Considerate(Daemon) /\ RecordInv' BY <1>0, Calm DEF ReleaseOwned, Go, fileVars, effects
<1>5. Entitled(Daemon) BY <1>0, <1>a DEF Entitled, FlockOK, TargetOK
<1>6. ProcInv(Daemon)' BY <1>0, <1>a, ProcFacts DEF AliveOK, FlockOK, BoundOK, RoleOK, GuardOK,
     TargetOK, OwnOK, VictimOK, Owner
<1>7. LauncherInv' /\ FenceInv' BY <1>0, <1>a, <1>2, ProcFacts DEF LauncherInv, FenceInv, Admitted, Same,
     RoleOK, TargetOK
<1> QED BY <1>0, <1>1, <1>3, <1>4, <1>5, <1>6, <1>7, OneProc

(* The daemon stops polling. *)
LEMMA GiveUpStep ==
  ASSUME Inv, GiveUp
  PROVE  Inv'
<1>0. /\ TypeOK /\ ProcInv(Daemon) /\ RecordInv /\ LauncherInv /\ FenceInv
      /\ Daemon \in Proc /\ \A q \in Proc : PairInv(Daemon, q) /\ OwnOK(q) BY ProcFacts DEF Inv, ProcInv
<1>a. /\ pc[Daemon] = "busy"
      /\ pc'[Daemon] = "done"
      /\ Stays(Daemon) /\ Keeps(Daemon) /\ ret'[Daemon] = ret[Daemon]
      /\ UNCHANGED <<path, rec, active, withdrawn, alive>>
      /\ UNCHANGED <<fenced, published, forked>> BY <1>0 DEF TypeOK, GiveUp, Go, fileVars, effects
<1>t. TypedNow(Daemon) BY <1>0, TypesBefore
<1>1. Others(Daemon) BY <1>0 DEF TypeOK, Others, GiveUp, Go, fileVars, effects
<1>2. \A q \in Proc \ {Daemon} : Same(q) BY <1>0, <1>1, OthersSame
<1>3. Typed(Daemon) BY <1>a, <1>t DEF TypedNow, Labels, Typed
<1>4. Considerate(Daemon) /\ RecordInv' BY <1>0, Calm DEF GiveUp, Go, fileVars, effects
<1>5. Entitled(Daemon) BY <1>0, <1>a DEF Entitled, FlockOK, TargetOK
<1>6. ProcInv(Daemon)' BY <1>0, <1>a, ProcFacts DEF AliveOK, FlockOK, BoundOK, RoleOK, GuardOK,
     TargetOK, OwnOK, VictimOK
<1>7. LauncherInv' /\ FenceInv' BY <1>0, <1>a, <1>2, ProcFacts DEF LauncherInv, FenceInv, Admitted, Same,
     RoleOK, TargetOK
<1> QED BY <1>0, <1>1, <1>3, <1>4, <1>5, <1>6, <1>7, OneProc

(* The fork is admitted only without a fence, under the daemon's own *)
(* claim. *)
LEMMA AdmitForkStep ==
  ASSUME Inv, AdmitFork
  PROVE  Inv'
<1>0. /\ TypeOK /\ ProcInv(Daemon) /\ RecordInv /\ LauncherInv /\ FenceInv
      /\ Daemon \in Proc /\ \A q \in Proc : PairInv(Daemon, q) /\ OwnOK(q) BY ProcFacts DEF Inv, ProcInv
<1>a. /\ pc[Daemon] = "held"
      /\ (~fenced /\ pc'[Daemon] = "admitted") \/ pc'[Daemon] = "drop"
      /\ Stays(Daemon) /\ Keeps(Daemon) /\ ret'[Daemon] = ret[Daemon]
      /\ UNCHANGED <<path, rec, active, withdrawn, alive>>
      /\ UNCHANGED <<fenced, published, forked>> BY <1>0 DEF TypeOK, AdmitFork, Go, fileVars, effects
<1>t. TypedNow(Daemon) BY <1>0, TypesBefore
<1>1. Others(Daemon) BY <1>0 DEF TypeOK, Others, AdmitFork, Go, fileVars, effects
<1>2. \A q \in Proc \ {Daemon} : Same(q) BY <1>0, <1>1, OthersSame
<1>3. Typed(Daemon) BY <1>a, <1>t DEF TypedNow, Labels, Typed
<1>4. Considerate(Daemon) /\ RecordInv' BY <1>0, Calm DEF AdmitFork, Go, fileVars, effects
<1>5. Entitled(Daemon) BY <1>0, <1>a DEF Entitled, FlockOK, TargetOK
<1>6. ProcInv(Daemon)' BY <1>0, <1>a, ProcFacts DEF AliveOK, FlockOK, BoundOK, RoleOK, GuardOK,
     TargetOK, OwnOK, VictimOK
<1>7. LauncherInv' /\ FenceInv' BY <1>0, <1>a, <1>2, ProcFacts DEF LauncherInv, FenceInv, Admitted, Same,
     RoleOK, TargetOK
<1> QED BY <1>0, <1>1, <1>3, <1>4, <1>5, <1>6, <1>7, OneProc

(* The admitted fork happens or fails. *)
LEMMA ForkHeldStep ==
  ASSUME Inv, ForkHeld
  PROVE  Inv'
<1>0. /\ TypeOK /\ ProcInv(Daemon) /\ RecordInv /\ LauncherInv /\ FenceInv
      /\ Daemon \in Proc /\ \A q \in Proc : PairInv(Daemon, q) /\ OwnOK(q) BY ProcFacts DEF Inv, ProcInv
<1>a. /\ pc[Daemon] = "admitted"
      /\ pc'[Daemon] = "drop" /\ forked' \in BOOLEAN
      /\ Stays(Daemon) /\ Keeps(Daemon) /\ ret'[Daemon] = ret[Daemon]
      /\ UNCHANGED <<path, rec, active, withdrawn, alive>>
      /\ UNCHANGED <<fenced, published>> BY <1>0 DEF TypeOK, ForkHeld, Go, fileVars, effects
<1>t. TypedNow(Daemon) BY <1>0, TypesBefore
<1>1. Others(Daemon) BY <1>0 DEF TypeOK, Others, ForkHeld, Go, fileVars, effects
<1>2. \A q \in Proc \ {Daemon} : Same(q) BY <1>0, <1>1, OthersSame
<1>3. Typed(Daemon) BY <1>a, <1>t DEF TypedNow, Labels, Typed
<1>4. Considerate(Daemon) /\ RecordInv' BY <1>0, Calm DEF ForkHeld, Go, fileVars, effects
<1>5. Entitled(Daemon) BY <1>0, <1>a DEF Entitled, FlockOK, TargetOK
<1>6. ProcInv(Daemon)' BY <1>0, <1>a, ProcFacts DEF AliveOK, FlockOK, BoundOK, RoleOK, GuardOK,
     TargetOK, OwnOK, VictimOK
<1>7. LauncherInv' /\ FenceInv' BY <1>0, <1>a, <1>2, ProcFacts DEF LauncherInv, FenceInv, Admitted, Same,
     RoleOK, TargetOK
<1> QED BY <1>0, <1>1, <1>3, <1>4, <1>5, <1>6, <1>7, OneProc

(* A dead process holds no advisory lock and owns nothing. *)
LEMMA DieStep ==
  ASSUME Inv, NEW p \in Proc, Die(p)
  PROVE  Inv'
<1>0. /\ TypeOK /\ ProcInv(p) /\ RecordInv /\ LauncherInv /\ FenceInv
      /\ p \in Proc /\ \A q \in Proc : PairInv(p, q) /\ OwnOK(q) BY ProcFacts DEF Inv, ProcInv
<1>a. /\ pc[p] \notin {"unborn", "dead"}
      /\ pc'[p] = "dead" /\ alive' = alive \ {p} /\ fd'[p] = 0
      /\ flocked'[p] = FALSE
      /\ flocked'[p] \in BOOLEAN
      /\ Keeps(p) /\ ret'[p] = ret[p]
      /\ UNCHANGED <<path, rec, active, withdrawn>>
      /\ UNCHANGED <<fenced, published, forked>> BY <1>0 DEF TypeOK, Die, Go, fileVars, effects
<1>t. TypedNow(p) BY <1>0, TypesBefore
<1>1. Others(p) BY <1>0 DEF TypeOK, Others, Die, Go, fileVars, effects
<1>2. \A q \in Proc \ {p} : Same(q) BY <1>0, <1>1, OthersSame
<1>3. Typed(p) BY <1>a, <1>t DEF TypedNow, Labels, Typed
<1>4. Considerate(p) /\ RecordInv' BY <1>0, Calm DEF Die, Go, fileVars, effects
<1>5. Entitled(p) BY <1>0, <1>a DEF Entitled, FlockOK, TargetOK
<1>6. ProcInv(p)' BY <1>0, <1>a, ProcFacts DEF AliveOK, FlockOK, BoundOK, RoleOK, GuardOK,
     TargetOK, OwnOK, VictimOK
<1>7. LauncherInv' /\ FenceInv' BY <1>0, <1>a, <1>2, ProcFacts DEF LauncherInv, FenceInv, Admitted, Same,
     RoleOK, TargetOK
<1> QED BY <1>0, <1>1, <1>3, <1>4, <1>5, <1>6, <1>7, OneProc

HIDE DEF Stays, Keeps, Mine, Owns, New, Works, Holding, ProcInv

----------------------------------------------------------------------------
(* The launcher starts its daemon: two processes change. *)

(* Neither may gain anything by it. *)
Started ==
  /\ UNCHANGED <<path, rec, withdrawn, alive, fd, flocked, guard>>
  /\ UNCHANGED <<fenced, published, forked>>
  /\ \A n \in active' : n \in active \/ n \notin withdrawn'
  /\ \A q \in Proc \ {Launcher, Daemon} : Same(q)
  /\ \A q \in {Launcher, Daemon} : pc'[q] # "sweep" /\ ~Owns(q)'

(* Starting the daemon keeps the invariant if it keeps that of the two. *)
LEMMA TwoProcs ==
  ASSUME Inv, TypeOK', Started, ProcInv(Launcher)', ProcInv(Daemon)',
         LauncherInv', FenceInv'
  PROVE  Inv'
<1>1. Considerate(Launcher) /\ RecordInv' BY ProcFacts, Calm DEF Started
<1>2. \A q \in Proc \ {Launcher, Daemon} : ProcInv(q)'
  <2> SUFFICES ASSUME NEW q \in Proc \ {Launcher, Daemon} PROVE ProcInv(q)' OBVIOUS
  <2> QED BY <1>1, ProcFacts, OtherProc DEF Started
<1>3. \A p, q \in Proc : PairInv(p, q)'
  <2> SUFFICES ASSUME NEW p \in Proc, NEW q \in Proc PROVE PairInv(p, q)' OBVIOUS
  <2>1. PairInv(p, q) BY DEF Inv
  <2>2. pc'[p] = "sweep" => pc[p] = "sweep" BY DEF Started, Same
  <2>3. Owns(q)' => Owns(q) BY DEF Started, Same, Owns, New, Works, Holding
  <2> QED BY <2>1, <2>2, <2>3 DEF PairInv, Started
<1> QED BY <1>1, <1>2, <1>3 DEF Inv, Proc

(* delegate and start: the daemon gets the launcher's owner record. *)
LEMMA SpawnDaemonStep == ASSUME Inv, SpawnDaemon PROVE Inv'
<1> USE DEF SpawnDaemon, Go, effects
<1>0. /\ TypeOK /\ ProcInv(Launcher) /\ ProcInv(Daemon)
      /\ RecordInv /\ LauncherInv /\ FenceInv BY ProcFacts DEF Inv
<1>1. Owner(Launcher, guard[Launcher]) \in [pid : Proc, nonce : Nat]
      /\ Owner(Daemon, guard[Launcher]) \in [pid : Proc, nonce : Nat]
  BY <1>0, ProcFacts DEF TypeOK, Owner
<1>2. TypeOK' BY ZenonT(60), <1>0, <1>1, ProcFacts DEF TypeOK, Labels, Activate
<1>3. Started BY <1>0, ProcFacts
  DEF TypeOK, RecordInv, Started, Same, Owns, New, Works, Holding, Activate
<1>4. ProcInv(Launcher)' BY <1>0, ProcFacts DEF TypeOK, ProcInv, AliveOK, FlockOK, BoundOK, RoleOK,
     GuardOK, TargetOK, Mine, OwnOK, Owns, New, Works, Holding, VictimOK, Owner
<1>5. ProcInv(Daemon)' BY <1>0, ProcFacts DEF TypeOK, ProcInv, AliveOK, FlockOK, BoundOK, RoleOK,
     GuardOK, TargetOK, Mine, OwnOK, Owns, New, Works, Holding, VictimOK, Owner
<1>6. LauncherInv' /\ FenceInv' BY <1>0, ProcFacts
  DEF TypeOK, ProcInv, RoleOK, GuardOK, LauncherInv, FenceInv, Admitted
<1> QED BY <1>2, <1>3, <1>4, <1>5, <1>6, TwoProcs

(* A gated daemon waits while the launcher pins its own claim. *)
LEMMA SpawnGatedStep == ASSUME Inv, SpawnGated PROVE Inv'
<1> USE DEF SpawnGated, PinOwnClaim, Go, effects
<1>0. /\ TypeOK /\ ProcInv(Launcher) /\ ProcInv(Daemon)
      /\ RecordInv /\ LauncherInv /\ FenceInv BY ProcFacts DEF Inv
<1>1. Owner(Launcher, guard[Launcher]) \in [pid : Proc, nonce : Nat]
      /\ Owner(Daemon, guard[Launcher]) \in [pid : Proc, nonce : Nat]
  BY <1>0, ProcFacts DEF TypeOK, Owner
<1>2. TypeOK' BY ZenonT(60), <1>0, <1>1, ProcFacts DEF TypeOK, Labels, Activate
<1>3. Started BY ZenonT(60), <1>0, ProcFacts
  DEF TypeOK, RecordInv, Started, Same, Owns, New, Works, Holding, Activate
<1>4. ProcInv(Launcher)' BY <1>0, ProcFacts DEF TypeOK, ProcInv, AliveOK, FlockOK, BoundOK, RoleOK,
     GuardOK, TargetOK, Mine, OwnOK, Owns, New, Works, Holding, VictimOK, Owner
<1>5. ProcInv(Daemon)' BY <1>0, ProcFacts DEF TypeOK, ProcInv, AliveOK, FlockOK, BoundOK, RoleOK,
     GuardOK, TargetOK, Mine, OwnOK, Owns, New, Works, Holding, VictimOK, Owner
<1>6. LauncherInv' /\ FenceInv' BY <1>0, ProcFacts
  DEF TypeOK, ProcInv, RoleOK, GuardOK, LauncherInv, FenceInv, Admitted
<1> QED BY <1>2, <1>3, <1>4, <1>5, <1>6, TwoProcs

(* The gate opens after the claim was handed over. *)
LEMMA OpenGateStep == ASSUME Inv, OpenGate PROVE Inv'
<1> USE DEF OpenGate, Go, fileVars, effects
<1>0. /\ TypeOK /\ ProcInv(Launcher) /\ ProcInv(Daemon)
      /\ RecordInv /\ LauncherInv /\ FenceInv BY ProcFacts DEF Inv
<1>1. Owner(Launcher, guard[Launcher]) \in [pid : Proc, nonce : Nat]
      /\ Owner(Daemon, guard[Launcher]) \in [pid : Proc, nonce : Nat]
  BY <1>0, ProcFacts DEF TypeOK, Owner
<1>2. TypeOK' BY ZenonT(60), <1>0, <1>1, ProcFacts DEF TypeOK, Labels, Activate
<1>3. Started BY <1>0, ProcFacts
  DEF TypeOK, RecordInv, Started, Same, Owns, New, Works, Holding, Activate
<1>4. ProcInv(Launcher)' BY <1>0, ProcFacts DEF TypeOK, ProcInv, AliveOK, FlockOK, BoundOK, RoleOK,
     GuardOK, TargetOK, Mine, OwnOK, Owns, New, Works, Holding, VictimOK, Owner
<1>5. ProcInv(Daemon)' BY <1>0, ProcFacts DEF TypeOK, ProcInv, AliveOK, FlockOK, BoundOK, RoleOK,
     GuardOK, TargetOK, Mine, OwnOK, Owns, New, Works, Holding, VictimOK, Owner
<1>6. LauncherInv' /\ FenceInv' BY <1>0, ProcFacts
  DEF TypeOK, ProcInv, RoleOK, GuardOK, LauncherInv, FenceInv, Admitted
<1> QED BY <1>2, <1>3, <1>4, <1>5, <1>6, TwoProcs

----------------------------------------------------------------------------
(* The invariant is inductive. *)

(* The invariant holds initially: no lock, and nobody holds anything. *)
LEMMA InitInv == Init => Inv
<1> SUFFICES ASSUME Init PROVE Inv OBVIOUS
<1>1. TypeOK
  <2>1. rec \in Seq([pid : Proc, nonce : Nat]) /\ Len(rec) = 0 BY DEF Init
  <2>2. 0 \in 0..Len(rec) BY <2>1
  <2>3. None \in [pid : Proc, nonce : Nat] BY ProcFacts DEF None, Owner
  <2> QED BY ZenonT(60), <2>1, <2>2, <2>3 DEF Init, TypeOK, Labels
<1>2. ASSUME NEW p \in Proc PROVE ProcInv(p) BY <1>2, ProcFacts
  DEF Init, ProcInv, AliveOK, FlockOK, BoundOK, RoleOK, GuardOK, TargetOK,
      OwnOK, Owns, New, Works, Holding, VictimOK
<1>3. ASSUME NEW p \in Proc, NEW q \in Proc PROVE PairInv(p, q) BY <1>3 DEF Init, PairInv
<1>4. RecordInv /\ LauncherInv /\ FenceInv
  BY ProcFacts DEF Init, RecordInv, LauncherInv, FenceInv, Admitted
<1> QED BY <1>1, <1>2, <1>3, <1>4 DEF Inv

(* Every action keeps the invariant. *)
LEMMA StepInv == Inv /\ [Next]_vars => Inv'
<1> SUFFICES ASSUME Inv, [Next]_vars PROVE Inv' OBVIOUS
<1>1. ASSUME NEW p \in Proc, LockStep(p) PROVE Inv'
  BY <1>1, AcquireStep, OpenStaleStep, CreateAgainStep, LockStaleStep,
     JudgeStep, ForgetTokenStep, UnlinkStaleStep, ReplaceStep, ReadGuardStep,
     CleanupStep, SweepStep, SweepTokenStep, UnlockStep, EndClaimStep,
     ReleaseOpenStep, ReleaseWithdrawStep, ReleaseFlockStep,
     ReleaseCheckStep, ReleaseUnlinkStep, ReleaseTokenStep, PinOpenStep,
     PinFlockStep, PinCheckStep, UnpinStep, StartFenceStep, EndFenceStep
  DEF LockStep
<1>2. ASSUME NEW p \in Proc, Die(p) PROVE Inv' BY <1>2, DieStep
<1>3. CASE LauncherStep BY <1>3, SpawnDaemonStep, SpawnGatedStep, HandOverStep, OpenGateStep
  DEF LauncherStep
<1>4. CASE DaemonStep BY <1>4, GateClosedStep, CheckPublicationStep, PublishSessionStep,
     TakeClaimStep, ForkChildStep, HandBackStep, HandBackForgetStep,
     HandBackSwapStep, HandBackTokenStep, HandBackCheckStep,
     ReleaseOwnedStep, GiveUpStep, AdmitForkStep, ForkHeldStep
  DEF DaemonStep
<1>5. CASE UNCHANGED vars
  <2> USE <1>5 DEF vars, fileVars, procVars, effects
  <2>1. TypeOK' BY DEF Inv, TypeOK
  <2>2. \A p \in Proc : ProcInv(p)' BY DEF Inv, ProcInv, AliveOK, FlockOK, BoundOK, RoleOK, GuardOK,
       TargetOK, Mine, OwnOK, Owns, New, Works, Holding, VictimOK
  <2>3. \A p, q \in Proc : PairInv(p, q)' BY DEF Inv, PairInv, Owns, New, Works, Holding
  <2>4. RecordInv' /\ LauncherInv' /\ FenceInv' BY DEF Inv, RecordInv, LauncherInv, FenceInv, Admitted
  <2> QED BY <2>1, <2>2, <2>3, <2>4 DEF Inv
<1> QED BY <1>1, <1>2, <1>3, <1>4, <1>5 DEF Next

(* The claim protocol keeps its inductive invariant, whoever runs, dies or *)
(* is refused, for any set of contenders. *)
THEOREM Invariance == Spec => []Inv
BY InitInv, StepInv, PTL DEF Spec

----------------------------------------------------------------------------
(* What follows from it. *)

(* The type invariant of the protocol of lock.rs always holds. *)
THEOREM TypeCorrect == Spec => []TypeOK
<1>1. Inv => TypeOK BY DEF Inv
<1> QED BY <1>1, Invariance, PTL

(* The invariant gives the owner of the lock. *)
LEMMA HolderFacts == Inv => HolderOwnsLock
<1> SUFFICES ASSUME Inv, NEW p \in Proc, Holding(p)
             PROVE  path # 0 /\ rec[path] = Owner(p, guard[p]) BY DEF HolderOwnsLock
<1>1. TypeOK /\ OwnOK(p) /\ Owns(p) /\ Works(p) BY DEF Inv, ProcInv, Owns, Works
<1>2. path \in 1..Len(rec) /\ rec[path].pid = p /\ rec[path].nonce = guard[p] BY <1>1 DEF TypeOK, OwnOK
<1>3. \A S : rec \in Seq(S) => rec[path] \in S BY <1>2
<1>4. rec[path] \in [pid : Proc, nonce : Nat] BY <1>1, <1>3 DEF TypeOK
<1> QED BY <1>2, <1>4 DEF Owner

(* Two processes are never in their critical sections together: the lock's *)
(* name leads to the record of whoever works under a LockGuard, which *)
(* nobody replaced or removed (try_acquire_file_lock, steal_locked_inode, *)
(* release_file_lock_checked_nonce). *)
THEOREM MutualExclusion == Spec => []HolderOwnsLock
BY HolderFacts, Invariance, PTL

(* The invariant makes a pinned publication exclusive. *)
LEMMA PublicationFacts == Inv => PublicationIsExclusive
<1> SUFFICES ASSUME Inv, pc[Daemon] \in PublishPC
             PROVE  path = fd[Daemon] /\ \A c \in Contenders : ~Holding(c) BY DEF PublicationIsExclusive
<1>1. ProcInv(Daemon) /\ \A c \in Contenders : OwnOK(c) BY ProcFacts DEF Inv, ProcInv
<1>2. path = fd[Daemon] /\ rec[path].pid \in {Launcher, Daemon}
  BY <1>1 DEF ProcInv, BoundOK, TargetOK, Mine
<1> QED BY <1>1, <1>2, ProcFacts DEF OwnOK, Owns, Works

(* What a daemon publishes under its pin (pin_claim, PublicationLock) is *)
(* exclusive until it unpins, even if its launcher releases or dies. *)
THEOREM PublicationExclusive == Spec => []PublicationIsExclusive
BY PublicationFacts, Invariance, PTL

(* No step publishes or forks once the fence is installed. *)
LEMMA FenceFacts ==
  Inv /\ [Next]_vars => [fenced => UNCHANGED <<published, forked>>]_vars
<1> SUFFICES ASSUME Inv, Next, fenced PROVE UNCHANGED <<published, forked>> BY DEF vars
<1>1. ~Admitted BY DEF Inv, FenceInv
<1>2. ASSUME NEW p \in Proc, LockStep(p) \/ Die(p)
      PROVE  UNCHANGED <<published, forked>>
  BY <1>2 DEF LockStep, Die, Acquire, OpenStale, CreateAgain, LockStale,
     TryFlock, Judge, ForgetToken, UnlinkStale, Replace, ReadGuard, Cleanup,
     Sweep, SweepToken, Unlock, EndClaim, Release, ReleaseOpen,
     ReleaseWithdraw, ReleaseFlock, ReleaseCheck, ReleaseUnlink,
     ReleaseToken, PinOpen, PinFlock, PinCheck, Unpin, StartFence,
     PinOwnClaim, EndFence, effects
<1>3. CASE LauncherStep BY <1>3 DEF LauncherStep, SpawnDaemon, SpawnGated, PinOwnClaim, HandOver,
     OpenGate, effects
<1>4. CASE DaemonStep BY <1>1, <1>4 DEF Admitted, DaemonStep, GateClosed, CheckPublication,
     PublishSession, TakeClaim, ForkChild, HandBack, Release, PinOwnClaim,
     HandBackForget, HandBackSwap, HandBackToken, HandBackCheck,
     ReleaseOwned, GiveUp, AdmitFork, ForkHeld, effects
<1> QED BY <1>2, <1>3, <1>4 DEF Next

(* A revocation installed under the claim is final: the session it revokes *)
(* is neither published nor its child forked afterwards. *)
THEOREM FenceHolds == Spec => RevocationIsFinal
BY FenceFacts, Invariance, PTL DEF Spec, RevocationIsFinal

(* Only a holder of the inode's advisory lock changes the entry. *)
LEMMA EntryFacts ==
  Inv /\ [Next]_vars =>
    [path # 0 /\ path' # path => \E p \in Proc : flocked[p] /\ fd[p] = path]_vars
<1> SUFFICES ASSUME Inv, Next, path # 0, path' # path
             PROVE  \E p \in Proc : flocked[p] /\ fd[p] = path BY DEF vars
<1>1. SUFFICES \E p \in Proc : pc[p] \in BoundPC BY DEF Inv, ProcInv, FlockOK, BoundOK
<1>2. ASSUME NEW p \in Proc, LockStep(p) \/ Die(p) PROVE pc[p] \in BoundPC
  BY <1>2 DEF LockStep, Die, Acquire, OpenStale, CreateAgain, LockStale,
     TryFlock, Judge, ForgetToken, UnlinkStale, Replace, ReadGuard, Cleanup,
     Sweep, SweepToken, Unlock, EndClaim, Release, ReleaseOpen,
     ReleaseWithdraw, ReleaseFlock, ReleaseCheck, ReleaseUnlink,
     ReleaseToken, PinOpen, PinFlock, PinCheck, Unpin, StartFence,
     PinOwnClaim, EndFence, fileVars
<1>3. CASE LauncherStep BY <1>3, ProcFacts DEF LauncherStep, SpawnDaemon, SpawnGated, PinOwnClaim,
     HandOver, OpenGate, fileVars
<1>4. CASE DaemonStep BY <1>4, ProcFacts DEF DaemonStep, GateClosed, CheckPublication,
     PublishSession, TakeClaim, ForkChild, HandBack, Release, PinOwnClaim,
     HandBackForget, HandBackSwap, HandBackToken, HandBackCheck,
     ReleaseOwned, GiveUp, AdmitFork, ForkHeld, fileVars
<1> QED BY <1>2, <1>3, <1>4 DEF Next

(* Whoever replaces or removes the lock's entry (steal_locked_inode, *)
(* replace_owner_record, unlink on release) has the advisory lock on the *)
(* inode it named. *)
THEOREM EntryProtected == Spec => EntryChangesUnderFlock
BY EntryFacts, Invariance, PTL DEF Spec, EntryChangesUnderFlock

----------------------------------------------------------------------------
(* Claims come back.  A second invariant, on top of the first: every claim *)
(* of a live process has somebody who will release it, and the token of a *)
(* nonce that is still in use is not removed. *)

(* The daemon made the claim its own and may still hand it back. *)
Taken ==
  \/ pc[Daemon] \in {"serving", "handback", "hbswap"}
  \/ pc[Daemon] = "unlock" /\ ret[Daemon] = "serving"
  \/ pc[Daemon] \in PinPC /\ ret[Daemon] = "hbswap"

(* A nonce the lock names, or one that the launcher waits to get back. *)
Live(n) ==
  \/ path # 0 /\ rec[path].nonce = n
  \/ n = guard[Launcher] /\ (Taken \/ pc[Launcher] = "waiting")

(* The daemon has swapped the claim back and has not said so yet. *)
Returning ==
  \/ pc[Daemon] \in {"hbtoken", "hbcheck"}
  \/ pc[Daemon] \in {"unpin"} \cup TailPC /\ ret[Daemon] = "hbtoken"

(* The daemon found its launcher's claim withdrawn. *)
Dismissed ==
  \/ pc[Daemon] = "hbforget"
  \/ pc[Daemon] \in ReleasePC \cup TailPC /\ ret[Daemon] = "hbforget"

(* A process on its way to remove the token of a nonce. *)
Forgets(p, n) ==
  \/ pc[p] \in {"sweeptoken", "reltoken"} /\ rec[fd[p]].nonce = n
  \/ p = Daemon /\ n = guard[Daemon] /\ Returning
  \/ p = Daemon /\ n = guard[Launcher] /\ Dismissed

Remembered(p) == \A n \in 1..Len(rec) : Forgets(p, n) => ~Live(n)

(* The tokens of what is pinned and of what is about to be removed. *)
TokenOK(p) ==
  /\ pc[p] \in PublishPC \cup SwapPC \cup {"unpin"} /\ path = fd[p]
       => tgt[p].nonce \in active \cup withdrawn
  /\ pc[p] = "sweep" => rec[fd[p]].nonce \in withdrawn
  /\ pc[p] = "relunlink" =>
       rec[fd[p]].nonce \in withdrawn \/ rec[fd[p]].pid \notin alive

(* What is being released is withdrawn, unless its owner died and a thief *)
(* has taken the token away. *)
ReleaseOK(p) ==
  /\ pc[p] \in ReleasePC /\ tgt[p].nonce # 0 =>
       /\ tgt[p].nonce = guard[tgt[p].pid]
       /\ Live(tgt[p].nonce) =>
            tgt[p].nonce \in withdrawn \/ tgt[p].pid \notin alive
       /\ pc[p] # "relopen" => rec[fd[p]].nonce = tgt[p].nonce
  /\ pc[p] \in ReleasePC /\ tgt[p].nonce = 0 => tgt[p].pid = Daemon
  /\ pc[p] = "relwithdraw" => tgt[p].nonce = 0

(* Who will release the claim that the lock names: its guard, or the *)
(* daemon it was handed over to. *)
OwnClaim(p) ==
  /\ rec[path].nonce = guard[p]
  /\ \/ pc[p] \in {"held", "waiting", "drop", "fence", "hoswap", "serving",
                   "handback", "hbswap", "admitted"}
     \/ pc[p] \in PinPC /\ ret[p] \in SwapPC
     \/ pc[p] = "unlock" /\ ret[p] = "serving"
     \/ pc[p] \in {"unpin"} \cup TailPC /\ ret[p] = "drop"

Inherited(p) ==
  /\ p = Daemon /\ rec[path].nonce = guard[Launcher]
  /\ \/ pc[p] \in {"gated", "owned", "retired"}
     \/ pc[p] \in {"publish", "effect"} /\ tgt[p].pid = Daemon
     \/ pc[p] \in PinPC /\ ret[p] = "publish" /\ tgt[p].pid = Daemon
     \/ pc[p] \in {"unpin"} \cup TailPC /\ ret[p] \in {"owned", "retired"}
     \/ pc[p] = "relopen" /\ tgt[p].nonce = 0
     \/ pc[p] = "relwithdraw" /\ path = fd[p]

Claims(p) ==
  path # 0 /\ rec[path].pid = p /\ p \in alive
    /\ rec[path].nonce \notin withdrawn
ClaimOK(p) == Claims(p) => New(p) \/ OwnClaim(p) \/ Inherited(p)

ReturnOK(p) == Remembered(p) /\ TokenOK(p) /\ ReleaseOK(p) /\ ClaimOK(p)

(* What a daemon that took the claim knows of it and of its launcher. *)
TakenInv ==
  Taken => /\ path = 0 \/ rec[path].nonce # guard[Launcher]
           /\ \/ Launcher \notin alive \/ pc[Launcher] = "waiting"
              \/ guard[Launcher] \in withdrawn

(* What the daemon was started with. *)
DaemonInv ==
  /\ pc[Daemon] \notin {"unborn", "gated", "dead"}
       /\ tgt[Daemon].pid = Launcher => tgt[Daemon].nonce = guard[Launcher]
  /\ pc[Daemon] \in PinPC /\ ret[Daemon] = "publish" => guard[Daemon] = 0
  /\ pc[Launcher] \in {"hoswap"} \cup PinPC => pc[Daemon] # "unborn"
  /\ pc[Daemon] = "take" => tgt[Daemon].pid = Launcher
  /\ pc[Daemon] \in {"unborn", "gated"} => guard[Daemon] = 0

(* Before the launcher hands its claim over, no record of the daemon's has *)
(* its nonce. *)
Unhanded ==
  \/ pc[Launcher] \in {"held", "waiting", "drop", "hoswap"}
                        \cup PinPC \cup ReleasePC
  \/ pc[Launcher] \in {"unpin"} \cup TailPC /\ ret[Launcher] = "drop"
HandInv ==
  Unhanded => \A i \in 1..Len(rec) :
                rec[i].pid = Daemon => rec[i].nonce # guard[Launcher]

(* A waiting launcher's claim is usable, and is the lock unless its daemon *)
(* has it. *)
WaitInv ==
  pc[Launcher] = "waiting" =>
    /\ guard[Launcher] \in active
    /\ guard[Daemon] = 0 \/ Returning =>
         path # 0 /\ rec[path] = Owner(Launcher, guard[Launcher])

Back ==
  /\ \A p \in Proc : ReturnOK(p)
  /\ TakenInv /\ DaemonInv /\ HandInv /\ WaitInv

(* What a step of p may do to the lock's entry and the tokens. *)
Careful(p) ==
  /\ Grows
  /\ \/ path' \in {path, 0} /\ rec' = rec
     \/ /\ path' = Len(rec) + 1 /\ Len(rec') = path'
        /\ \A q \in Proc \ {p} : rec'[path'].pid = q => ClaimOK(q)'
  /\ \A n \in 1..Len(rec) : Live(n)' => Live(n)
  /\ \A n \in 1..Len(rec) : Live(n) =>
       /\ n \in withdrawn => n \in withdrawn'
       /\ n \in active => n \in active' \cup withdrawn'
  /\ \/ guard'[Launcher] = guard[Launcher]
     \/ p = Launcher /\ pc[Launcher] = "read"

(* Nonces in use are numbers of inodes. *)
LEMMA NonceRange ==
  ASSUME Inv
  PROVE  /\ \A i \in 1..Len(rec) : rec[i].nonce \in 1..Len(rec)
         /\ \A p \in Proc : guard[p] # 0 => guard[p] \in 1..Len(rec)
         /\ Len(rec) \in Nat /\ path \in 0..Len(rec)
<1>1. TypeOK /\ RecordInv /\ \A p \in Proc : GuardOK(p) BY DEF Inv, ProcInv
<1>2. guard[Launcher] # 0 => guard[Launcher] \in 1..Len(rec) BY <1>1, ProcFacts DEF GuardOK
<1>3. \A i \in 1..Len(rec) :
        \/ rec[i].nonce = i
        \/ rec[i].nonce = guard[Launcher] /\ guard[Launcher] # 0 BY <1>1 DEF RecordInv
<1>4. \A i \in 1..Len(rec) : rec[i].nonce \in 1..Len(rec) BY <1>2, <1>3
<1>5. \A p \in Proc : guard[p] # 0 => guard[p] \in 1..Len(rec) BY <1>1 DEF GuardOK
<1> QED BY <1>1, <1>4, <1>5 DEF TypeOK

(* Different processes' guards have different nonces. *)
LEMMA GuardsDiffer ==
  ASSUME Inv, NEW p \in Proc, NEW q \in Proc, p # q, guard[p] # 0
  PROVE  guard[p] # guard[q]
<1>1. GuardOK(p) /\ GuardOK(q) BY DEF Inv, ProcInv
<1> QED BY <1>1 DEF GuardOK, Owner

(* A careful step of p keeps what is said of the others. *)
LEMMA OtherReturn ==
  ASSUME Inv, Inv', Back, NEW p \in Proc, Careful(p), alive' \subseteq alive,
         NEW q \in Proc, q # p, Same(q)
  PROVE  ReturnOK(q)'
<1>0. /\ TypeOK /\ ProcInv(q) /\ LauncherInv /\ ReturnOK(q)
      /\ RecordInv /\ ProcInv(Launcher) /\ TypedNow(q)
      /\ path \in 0..Len(rec) /\ Len(rec) \in Nat BY ProcFacts, TypesBefore, NonceRange DEF Inv, Back
<1>1. fd[q] \in 0..Len(rec) /\ (fd[q] # 0 => rec'[fd[q]] = rec[fd[q]]) BY SMTT(60), <1>0 DEF TypeOK, Careful, Grows
<1>2. path' \in 1..Len(rec) => path' = path /\ rec'[path'] = rec[path] BY <1>0 DEF Careful, Grows
<1>3. /\ guard[Launcher] # 0 => guard'[Launcher] = guard[Launcher]
      /\ q = Daemon /\ pc[q] \notin {"unborn", "gated", "dead"}
           => guard'[Launcher] = guard[Launcher] BY <1>0, ProcFacts DEF Careful, LauncherInv
<1>4. TokenOK(q)'
  <2>1. ASSUME pc[q] \in PublishPC \cup SwapPC \cup {"unpin"}, path' = fd[q]
        PROVE  tgt[q].nonce \in active' \cup withdrawn'
    <3>1. fd[q] # 0 /\ path = fd[q] /\ rec[fd[q]] = tgt[q]
      BY <1>0, <1>1, <1>2, <2>1 DEF ProcInv, FlockOK, TargetOK
    <3>2. Live(tgt[q].nonce) /\ tgt[q].nonce \in active \cup withdrawn
      BY <1>0, <2>1, <3>1 DEF Live, ReturnOK, TokenOK
    <3>3. tgt[q].nonce \in 1..Len(rec) BY <1>1, <3>1, NonceRange
    <3> QED BY <3>2, <3>3 DEF Careful
  <2>2. ASSUME pc[q] \in {"sweep", "relunlink"}
        PROVE  /\ rec[fd[q]].nonce \in withdrawn =>
                    rec[fd[q]].nonce \in withdrawn'
               /\ fd[q] # 0
    <3>1. fd[q] # 0 /\ path = fd[q] BY <1>0, <2>2 DEF ProcInv, FlockOK, BoundOK
    <3>2. Live(rec[fd[q]].nonce) BY <3>1 DEF Live
    <3>3. rec[fd[q]].nonce \in 1..Len(rec) BY <1>1, <3>1, NonceRange
    <3> QED BY <3>1, <3>2, <3>3 DEF Careful
  <2> QED BY <1>0, <1>1, <2>1, <2>2 DEF TokenOK, ReturnOK, Same
<1>5. ReleaseOK(q)'
  <2>1. SUFFICES ASSUME pc[q] \in ReleasePC PROVE ReleaseOK(q)' BY <1>0 DEF ReleaseOK, Same
  <2>2. pc[q] # "relopen" => fd[q] # 0 BY <1>0, <2>1 DEF ProcInv, FlockOK
  <2>3. ASSUME tgt[q].nonce # 0
        PROVE  /\ tgt[q].nonce = guard'[tgt[q].pid]
               /\ tgt[q].nonce \in 1..Len(rec)
    <3>1. tgt[q].nonce = guard[tgt[q].pid] /\ tgt[q].pid \in Proc
      BY <1>0, <2>1, <2>3 DEF ReturnOK, ReleaseOK, TypedNow
    <3>2. tgt[q].pid = q \/ (q = Daemon /\ tgt[q].pid = Launcher)
      BY <1>0, <2>1 DEF ProcInv, TargetOK, Mine
    <3>3. tgt[q].nonce \in 1..Len(rec) BY <2>3, <3>1, NonceRange
    <3> QED BY <1>0, <1>3, <2>1, <3>1, <3>2, <3>3 DEF Same
  <2>4. ASSUME tgt[q].nonce # 0, Live(tgt[q].nonce)'
        PROVE  tgt[q].nonce \in withdrawn' \/ tgt[q].pid \notin alive'
    <3>1. Live(tgt[q].nonce) BY <2>3, <2>4, <1>0 DEF Careful, Live, Same, Taken
    <3> QED BY <1>0, <2>1, <2>3, <2>4, <3>1
            DEF ReturnOK, ReleaseOK, Careful
  <2> QED BY <1>0, <1>1, <2>1, <2>2, <2>3, <2>4
          DEF ReturnOK, ReleaseOK, Same, Live, Taken
<1>6. ClaimOK(q)'
  <2>1. SUFFICES ASSUME Claims(q)', ~ClaimOK(q)'
                 PROVE  (New(q) \/ OwnClaim(q) \/ Inherited(q))' BY DEF ClaimOK
  <2>2. path' = path /\ path \in 1..Len(rec) /\ rec'[path'] = rec[path]
    BY <1>0, <1>2, <2>1 DEF Claims, Careful
  <2>3. rec[path].nonce \in 1..Len(rec) /\ Live(rec[path].nonce) BY <2>2, NonceRange DEF Live
  <2>4. Claims(q) BY <2>1, <2>2, <2>3 DEF Claims, Careful
  <2>5. guard'[Launcher] # guard[Launcher] => guard[Launcher] = 0
    BY <1>0, ProcFacts DEF Careful, LauncherInv
  <2> QED BY <1>0, <2>2, <2>3, <2>4, <2>5
          DEF ReturnOK, ClaimOK, New, OwnClaim, Inherited, Same
<1>7. Remembered(q)'
  <2>1. SUFFICES ASSUME NEW n \in 1..Len(rec'), Forgets(q, n)', Live(n)'
                 PROVE  FALSE BY DEF Remembered
  <2>2. pc[q] \in {"sweeptoken", "reltoken"} => fd[q] # 0 BY <1>0 DEF ProcInv, FlockOK
  <2>3. q = Daemon /\ (Dismissed' \/ Returning')
          => guard'[Launcher] = guard[Launcher] /\ guard[Launcher] # 0
    BY <1>0, <1>3 DEF Dismissed, Returning, Same, LauncherInv
  <2>4. Forgets(q, n) BY <1>0, <1>1, <2>1, <2>2, <2>3 DEF Forgets, Dismissed, Returning, Same
  <2>5. n # 0 /\ (n = guard[q] => guard[q] # 0) BY <2>1
  <2>6. n \in 1..Len(rec) BY <1>0, <1>1, <2>2, <2>3, <2>4, <2>5, NonceRange, ProcFacts
    DEF Forgets, Dismissed, Returning, Same
  <2> QED BY <1>0, <2>1, <2>4, <2>6 DEF Careful, ReturnOK, Remembered
<1> QED BY <1>4, <1>5, <1>6, <1>7 DEF ReturnOK

(* What a step of p may do to what launcher and daemon know of each other. *)
Orderly(p) ==
  /\ \/ TakenInv'
     \/ (Taken' => Taken) /\ (path' > Len(rec) => rec'[path'].nonce = path')
  /\ path' > Len(rec) /\ rec'[path'].pid = Daemon =>
       rec'[path'].nonce = path' \/ ~Unhanded'
  /\ p = Launcher =>
       /\ pc'[p] # "waiting"
       /\ pc[p] = "waiting" => p \notin alive' \/ guard[p] \in withdrawn'
       /\ pc'[p] \in {"hoswap"} \cup PinPC => pc[p] \in {"hoswap"} \cup PinPC
       /\ \/ (Unhanded' => Unhanded) /\ guard'[p] = guard[p]
          \/ HandInv'
  /\ p = Daemon => DaemonInv' /\ pc'[p] # "unborn"
  /\ \/ WaitInv'
     \/ /\ p = Daemon => /\ guard'[p] = 0 => guard[p] = 0
                         /\ Returning' => Returning
        /\ p # Launcher /\ pc[Launcher] = "waiting" =>
             /\ guard[Launcher] \in active'
             /\ path # 0 /\ rec[path] = Owner(Launcher, guard[Launcher]) =>
                  path' = path \/ (guard'[Daemon] # 0 /\ ~Returning')

(* A careful and orderly step of p keeps the second invariant if it keeps *)
(* p's own part. *)
LEMMA OneReturn ==
  ASSUME Inv, Inv', Back, NEW p \in Proc, Others(p), Careful(p), Orderly(p),
         ReturnOK(p)'
  PROVE  Back'
<1>0. /\ TypeOK /\ LauncherInv /\ RecordInv /\ ProcInv(Launcher)
      /\ TakenInv /\ DaemonInv /\ HandInv /\ WaitInv
      /\ path \in 0..Len(rec) /\ Len(rec) \in Nat
      /\ Launcher # Daemon /\ Launcher \in Proc /\ Daemon \in Proc BY ProcFacts, NonceRange DEF Inv, Back
<1>1. /\ p # Launcher => Same(Launcher)
      /\ p # Daemon => Same(Daemon) BY <1>0, OthersSame
<1>2. \A q \in Proc : ReturnOK(q)'
  <2> SUFFICES ASSUME NEW q \in Proc, q # p PROVE ReturnOK(q)' OBVIOUS
  <2> QED BY <1>0, OthersSame, OtherReturn DEF Others
<1>3. /\ pc[Daemon] \notin {"unborn", "gated", "dead"}
           \/ pc[Launcher] = "waiting"
           => guard'[Launcher] = guard[Launcher]
      /\ guard[Launcher] # 0 => guard'[Launcher] = guard[Launcher]
      /\ guard[Launcher] # 0 => guard[Launcher] \in 1..Len(rec)
      /\ pc[Launcher] = "waiting" => guard[Launcher] # 0
      /\ pc[Daemon] \notin {"unborn", "gated", "dead"} => guard[Launcher] # 0
  BY <1>0, NonceRange DEF Careful, LauncherInv, ProcInv, GuardOK
<1>4. path' \in 1..Len(rec) => path' = path /\ rec'[path'] = rec[path] BY <1>0 DEF Careful, Grows
<1>5. TakenInv'
  <2>1. SUFFICES ASSUME Taken', ~TakenInv' PROVE TakenInv' BY DEF TakenInv
  <2>2. Taken /\ pc[Daemon] \notin {"unborn", "gated", "dead"} BY <2>1 DEF Orderly, Taken
  <2>3. path' = 0 \/ rec'[path'].nonce # guard'[Launcher]
    <3>1. path' > Len(rec) => rec'[path'].nonce = path' BY <2>1 DEF Orderly
    <3> QED BY <1>0, <1>3, <1>4, <2>2, <3>1 DEF TakenInv, Careful
  <2>4. Live(guard[Launcher]) BY <2>2 DEF Live
  <2>5. guard[Launcher] \in withdrawn => guard[Launcher] \in withdrawn' BY <1>3, <2>2, <2>4 DEF Careful
  <2>6. \/ Launcher \notin alive' \/ pc'[Launcher] = "waiting"
        \/ guard[Launcher] \in withdrawn' BY <1>0, <1>1, <2>2, <2>5 DEF TakenInv, Orderly, Same, Others
  <2> QED BY <1>3, <2>2, <2>3, <2>6 DEF TakenInv
<1>6. DaemonInv'
  <2>1. CASE p = Daemon BY <2>1 DEF Orderly
  <2>2. CASE p # Daemon BY <1>0, <1>1, <1>3, <2>2 DEF DaemonInv, Orderly, Same
  <2> QED BY <2>1, <2>2
<1>7. HandInv'
  <2>1. CASE p = Launcher /\ HandInv' BY <2>1
  <2>2. CASE (Unhanded' => Unhanded) /\ guard'[Launcher] = guard[Launcher]
    <3>1. SUFFICES ASSUME Unhanded', NEW i \in 1..Len(rec'),
                          rec'[i].pid = Daemon
                   PROVE  rec'[i].nonce # guard[Launcher] BY <2>2 DEF HandInv
    <3>2. CASE i \in 1..Len(rec) BY <1>0, <2>2, <3>1, <3>2 DEF HandInv, Careful, Grows
    <3>3. CASE i \notin 1..Len(rec)
      <4>1. i = path' /\ path' > Len(rec) BY <3>1, <3>3, <1>0 DEF Careful
      <4> QED BY <1>3, <3>1, <4>1, <1>0 DEF Orderly
    <3> QED BY <3>2, <3>3
  <2>3. p # Launcher => (Unhanded' = Unhanded)
          /\ guard'[Launcher] = guard[Launcher] BY <1>1 DEF Same, Unhanded
  <2> QED BY <2>1, <2>2, <2>3 DEF Orderly
<1>8. WaitInv'
  <2>1. SUFFICES ASSUME pc'[Launcher] = "waiting", ~WaitInv' PROVE WaitInv' BY DEF WaitInv
  <2>2. p # Launcher /\ pc[Launcher] = "waiting"
        /\ guard'[Launcher] = guard[Launcher] /\ guard[Launcher] \in active'
    BY <1>1, <2>1 DEF Orderly, Same
  <2>3. ASSUME guard'[Daemon] = 0 \/ Returning'
        PROVE  path' # 0 /\ rec'[path'] = Owner(Launcher, guard[Launcher])
    <3>1. guard[Daemon] = 0 \/ Returning BY <1>1, <2>1, <2>3 DEF Orderly, Returning, Same
    <3>2. path # 0 /\ rec[path] = Owner(Launcher, guard[Launcher]) BY <1>0, <2>2, <3>1 DEF WaitInv
    <3>3. path' = path BY <2>1, <2>2, <2>3, <3>2 DEF Orderly
    <3> QED BY <1>0, <1>4, <3>2, <3>3
  <2> QED BY <2>2, <2>3 DEF WaitInv
<1> QED BY <1>2, <1>5, <1>6, <1>7, <1>8 DEF Back

(* The same for a step that leaves the lock's entry and the guards alone. *)
Modest(p) ==
  /\ Taken' => Taken
  /\ p = Launcher =>
       /\ pc'[p] # "waiting"
       /\ pc[p] = "waiting" => p \notin alive' \/ guard[p] \in withdrawn'
       /\ pc'[p] \in {"hoswap"} \cup PinPC => pc[p] \in {"hoswap"} \cup PinPC
       /\ Unhanded' => Unhanded
  /\ p = Daemon =>
       DaemonInv' /\ pc'[p] # "unborn" /\ (Returning' => Returning)

(* No token of a nonce that is in use is removed or activated again, and *)
(* none is withdrawn that the launcher waits with. *)
Gentle(p) ==
  /\ \A n \in 1..Len(rec) : Live(n) =>
       /\ n \in withdrawn => n \in withdrawn'
       /\ n \in active => n \in active' \cup withdrawn'
  /\ p # Launcher /\ pc[Launcher] = "waiting" => guard[Launcher] \in active'

(* Such a step is careful and orderly. *)
LEMMA GentleReturn ==
  ASSUME Inv, Inv', Back, NEW p \in Proc, Others(p), Modest(p), Gentle(p),
         ReturnOK(p)', UNCHANGED <<path, rec, guard>>
  PROVE  Back'
<1>0. TypeOK /\ WaitInv /\ path \in 0..Len(rec) /\ Len(rec) \in Nat BY NonceRange DEF Inv, Back
<1>1. p # Launcher => Same(Launcher) BY <1>0, OthersSame, ProcFacts
<1>2. Grows BY <1>0, SameGrows
<1>3. \A n \in 1..Len(rec) : Live(n)' => Live(n) BY <1>1 DEF Live, Modest, Same
<1>4. Careful(p)
  <2>1. path' \in {path, 0} /\ rec' = rec /\ guard' = guard OBVIOUS
  <2> QED BY <1>2, <1>3, <2>1 DEF Careful, Gentle
<1>5. Orderly(p) BY <1>0, <1>1 DEF Orderly, Modest, Gentle
<1> QED BY <1>4, <1>5, OneReturn

(* So is one that leaves the tokens alone as well. *)
LEMMA StillReturn ==
  ASSUME Inv, Inv', Back, NEW p \in Proc, Others(p), Modest(p), ReturnOK(p)',
         UNCHANGED <<path, rec, active, withdrawn, guard>>
  PROVE  Back'
<1>1. active' = active /\ withdrawn' = withdrawn OBVIOUS
<1>2. Gentle(p) BY <1>1 DEF Gentle, WaitInv, Back
<1> QED BY <1>2, GentleReturn

(* What a step of p starts from. *)
Before(p) ==
  /\ TypedNow(p) /\ ProcInv(p) /\ RecordInv /\ LauncherInv /\ ReturnOK(p)
  /\ TakenInv /\ DaemonInv /\ HandInv /\ WaitInv

(* It is part of the two invariants. *)
LEMMA BeforeFacts == ASSUME Inv, Back, NEW p \in Proc PROVE TypeOK /\ Before(p)
BY TypesBefore DEF Inv, Back, Before

USE DEF Stays, Keeps, Mine, Owns, New, Works, Holding, ProcInv, Before

(* Where a step goes that changes no file, no token and no guard. *)
QuietStep(p) ==
  /\ Keeps(p)
  /\ \/ /\ pc[p] = "open" /\ pc'[p] \in {"again", "flock"}
        /\ ret'[p] = ret[p] /\ alive' = alive
     \/ /\ pc[p] = "flock" /\ pc'[p] \in {"judge", "busy"}
        /\ ret'[p] = ret[p] /\ alive' = alive
     \/ /\ pc[p] = "judge" /\ Stays(p) /\ alive' = alive
        /\ \/ pc'[p] \in {"replace", "forget"}
           \/ pc'[p] = "cleanup" /\ ret'[p] = "busy"
     \/ /\ pc[p] = "cleanup" /\ Stays(p) /\ ret'[p] = ret[p]
        /\ \/ pc'[p] = "unlock"
           \/ pc'[p] = "sweep" /\ rec[fd[p]].nonce \in withdrawn
        /\ alive' = alive
     \/ /\ pc[p] = "unlock" /\ pc'[p] = ret[p] /\ ret'[p] = ret[p]
        /\ alive' = alive
     \/ /\ pc[p] = "relopen" /\ ret'[p] = ret[p] /\ alive' = alive
        /\ \/ /\ path # 0 /\ fd'[p] = path /\ rec[path].pid = tgt[p].pid
              /\ tgt[p].nonce # 0 => rec[path].nonce = tgt[p].nonce
              /\ pc'[p] = IF tgt[p].nonce = 0 THEN "relwithdraw" ELSE "relflock"
           \/ /\ pc'[p] = ret[p]
              /\ path # 0 => \/ rec[path].pid # tgt[p].pid
                             \/ tgt[p].nonce # 0 /\ rec[path].nonce # tgt[p].nonce
     \/ /\ pc[p] = "relflock" /\ ret'[p] = ret[p] /\ alive' = alive
        /\ (pc'[p] = "relcheck" /\ fd'[p] = fd[p]) \/ pc'[p] = ret[p]
     \/ /\ pc[p] = "pinopen" /\ ret'[p] = ret[p] /\ alive' = alive
        /\ \/ pc'[p] = "pinflock" /\ fd'[p] = path /\ path # 0
           \/ pc'[p] = PinFailed(p) /\ path = 0
     \/ /\ pc[p] = "pinflock" /\ ret'[p] = ret[p] /\ alive' = alive
        /\ (pc'[p] = "pincheck" /\ fd'[p] = fd[p]) \/ pc'[p] = PinFailed(p)
     \/ /\ pc[p] = "pincheck" /\ Stays(p) /\ alive' = alive
        /\ \/ pc'[p] = ret[p] /\ ret'[p] = ret[p] /\ tgt[p].nonce \in active
           \/ pc'[p] = "cleanup" /\ ret'[p] = PinFailed(p)
     \/ /\ pc[p] = "unpin" /\ Stays(p) /\ ret'[p] = ret[p]
        /\ alive' = alive
        /\ \/ pc'[p] = "unlock"
           \/ pc'[p] = "sweep" /\ tgt[p].nonce \notin active /\ path = fd[p]
     \/ /\ pc[p] = "fence" /\ Stays(p) /\ alive' = alive
        /\ pc'[p] = "unpin" /\ ret'[p] = "drop"
     \/ /\ pc[p] \notin {"unborn", "dead"} /\ pc'[p] = "dead"
        /\ p \notin alive' /\ alive' \subseteq alive

(* Such a step keeps the claims returning. *)
LEMMA QuietReturn ==
  ASSUME Inv, Inv', Back, NEW p \in Proc, Others(p), QuietStep(p),
         UNCHANGED <<path, rec, active, withdrawn, guard>>
  PROVE  Back'
<1>0. TypeOK /\ Before(p) /\ ProcInv(p)' BY BeforeFacts, ProcFacts DEF Inv
<1>a. QuietStep(p) OBVIOUS
<1>b. UNCHANGED <<path, rec, active, withdrawn, guard>> OBVIOUS
<1>2. (p # Launcher => Same(Launcher)) /\ (p # Daemon => Same(Daemon)) BY <1>0, OthersSame, ProcFacts
<1> USE DEF QuietStep
<1>3. Modest(p)
  <2>1. Taken' => Taken BY <1>0, <1>a, <1>2, ProcFacts DEF Taken, Same, PinFailed, RoleOK,
       TargetOK, GuardOK, DaemonInv
  <2>2. ASSUME p = Launcher
        PROVE  /\ pc'[p] # "waiting" /\ (pc[p] = "waiting" => p \notin alive')
               /\ pc'[p] \in {"hoswap"} \cup PinPC =>
                    pc[p] \in {"hoswap"} \cup PinPC
               /\ Unhanded' => Unhanded BY <1>0, <1>a, <2>2, ProcFacts DEF Unhanded, PinFailed, RoleOK,
       TargetOK, GuardOK
  <2>3. ASSUME p = Daemon
        PROVE  /\ DaemonInv' /\ pc'[p] # "unborn"
               /\ Returning' => Returning
    BY <1>0, <1>a, <1>b, <1>2, <2>3, ProcFacts DEF DaemonInv, Returning,
       LauncherInv, Same, PinFailed, RoleOK, TargetOK, GuardOK
  <2> QED BY <2>1, <2>2, <2>3, ProcFacts DEF Modest
<1>4. ReturnOK(p)'
  <2>1. TokenOK(p)' BY <1>0, <1>a, <1>b, ProcFacts DEF ReturnOK, ReleaseOK, TokenOK,
       TargetOK, RoleOK, PinFailed, FlockOK, BoundOK
  <2>2. ReleaseOK(p)' BY <1>0, <1>a, <1>b, <1>2, ProcFacts DEF ReturnOK, ReleaseOK, ClaimOK,
       Claims, OwnClaim, TargetOK, RoleOK, PinFailed, LauncherInv, WaitInv,
       Live, Taken, Same, AliveOK
  <2>3. ClaimOK(p)' BY <1>0, <1>a, <1>b, ProcFacts DEF ReturnOK, ClaimOK, Claims, OwnClaim,
       Inherited, ReleaseOK, TargetOK, RoleOK, GuardOK, DaemonInv,
       PinFailed, FlockOK, LauncherInv, AliveOK, OwnOK
  <2>4. Remembered(p)' BY <1>0, <1>a, <1>b, <1>2, ProcFacts DEF ReturnOK, WaitInv, TakenInv,
       Remembered, Forgets, Live, Taken, Returning, Dismissed, TargetOK,
       RoleOK, PinFailed, Same
  <2> QED BY <2>1, <2>2, <2>3, <2>4 DEF ReturnOK
<1> QED BY <1>3, <1>4, <1>b, StillReturn

(* The file in the way is opened. *)
LEMMA OpenStaleReturn ==
  ASSUME Inv, Inv', Back, NEW p \in Proc, OpenStale(p)
  PROVE  Back'
<1>0. TypeOK /\ Before(p) BY BeforeFacts
<1>a. /\ pc[p] = "open" /\ pc'[p] \in {"again", "flock"}
      /\ Keeps(p) /\ ret'[p] = ret[p] /\ alive' = alive
  BY <1>0, ProcFacts DEF TypeOK, TypedNow, OpenStale, Go, fileVars, effects
<1>b. UNCHANGED <<path, rec, active, withdrawn, guard>> BY DEF OpenStale, Go, fileVars, effects
<1>1. Others(p) BY <1>0 DEF TypeOK, Others, OpenStale, Go, fileVars, effects
<1> QED BY <1>a, <1>b, <1>1, QuietReturn DEF QuietStep

(* It is locked or given up. *)
LEMMA LockStaleReturn ==
  ASSUME Inv, Inv', Back, NEW p \in Proc, LockStale(p)
  PROVE  Back'
<1>0. TypeOK /\ Before(p) BY BeforeFacts
<1>a. /\ pc[p] = "flock" /\ pc'[p] \in {"judge", "busy"}
      /\ Keeps(p) /\ ret'[p] = ret[p] /\ alive' = alive
  BY <1>0, ProcFacts DEF TypeOK, TypedNow, LockStale, Go, fileVars,
     effects, TryFlock
<1>b. UNCHANGED <<path, rec, active, withdrawn, guard>> BY DEF LockStale, Go, fileVars, effects, TryFlock
<1>1. Others(p) BY <1>0 DEF TypeOK, Others, LockStale, Go, fileVars, effects, TryFlock
<1> QED BY <1>a, <1>b, <1>1, QuietReturn DEF QuietStep

(* Its owner is judged. *)
LEMMA JudgeReturn ==
  ASSUME Inv, Inv', Back, NEW p \in Proc, Judge(p)
  PROVE  Back'
<1>0. TypeOK /\ Before(p) BY BeforeFacts
<1>a. /\ pc[p] = "judge" /\ Stays(p) /\ Keeps(p) /\ alive' = alive
      /\ \/ pc'[p] \in {"replace", "forget"}
         \/ pc'[p] = "cleanup" /\ ret'[p] = "busy"
  BY <1>0, ProcFacts DEF TypeOK, TypedNow, Judge, Go, fileVars, effects
<1>b. UNCHANGED <<path, rec, active, withdrawn, guard>> BY DEF Judge, Go, fileVars, effects
<1>1. Others(p) BY <1>0 DEF TypeOK, Others, Judge, Go, fileVars, effects
<1> QED BY <1>a, <1>b, <1>1, QuietReturn DEF QuietStep

(* A withdrawn claim is found before the advisory lock is dropped. *)
LEMMA CleanupReturn ==
  ASSUME Inv, Inv', Back, NEW p \in Proc, Cleanup(p)
  PROVE  Back'
<1>0. TypeOK /\ Before(p) BY BeforeFacts
<1>a. /\ pc[p] = "cleanup" /\ Stays(p) /\ Keeps(p) /\ ret'[p] = ret[p]
      /\ \/ pc'[p] = "unlock"
         \/ pc'[p] = "sweep" /\ rec[fd[p]].nonce \in withdrawn
      /\ alive' = alive BY <1>0, ProcFacts DEF TypeOK, TypedNow, Cleanup, Go, fileVars, effects
<1>b. UNCHANGED <<path, rec, active, withdrawn, guard>> BY DEF Cleanup, Go, fileVars, effects
<1>1. Others(p) BY <1>0 DEF TypeOK, Others, Cleanup, Go, fileVars, effects
<1> QED BY <1>a, <1>b, <1>1, QuietReturn DEF QuietStep

(* The advisory lock is dropped. *)
LEMMA UnlockReturn ==
  ASSUME Inv, Inv', Back, NEW p \in Proc, Unlock(p)
  PROVE  Back'
<1>0. TypeOK /\ Before(p) BY BeforeFacts
<1>a. /\ pc[p] = "unlock" /\ pc'[p] = ret[p] /\ ret'[p] = ret[p] /\ Keeps(p)
      /\ alive' = alive BY <1>0, ProcFacts DEF TypeOK, TypedNow, Unlock, Go, fileVars, effects
<1>b. UNCHANGED <<path, rec, active, withdrawn, guard>> BY DEF Unlock, Go, fileVars, effects
<1>1. Others(p) BY <1>0 DEF TypeOK, Others, Unlock, Go, fileVars, effects
<1> QED BY <1>a, <1>b, <1>1, QuietReturn DEF QuietStep

(* A release opens the lock if it names its target. *)
LEMMA ReleaseOpenReturn ==
  ASSUME Inv, Inv', Back, NEW p \in Proc, ReleaseOpen(p)
  PROVE  Back'
<1>0. TypeOK /\ Before(p) BY BeforeFacts
<1>a. /\ pc[p] = "relopen" /\ Keeps(p) /\ ret'[p] = ret[p] /\ alive' = alive
      /\ \/ /\ path # 0 /\ fd'[p] = path /\ rec[path].pid = tgt[p].pid
            /\ tgt[p].nonce # 0 => rec[path].nonce = tgt[p].nonce
            /\ pc'[p] = IF tgt[p].nonce = 0 THEN "relwithdraw" ELSE "relflock"
         \/ /\ pc'[p] = ret[p]
            /\ path # 0 => \/ rec[path].pid # tgt[p].pid
                           \/ tgt[p].nonce # 0 /\ rec[path].nonce # tgt[p].nonce
  BY <1>0, ProcFacts DEF TypeOK, TypedNow, ReleaseOpen, Go, fileVars,
     effects, Matches
<1>b. UNCHANGED <<path, rec, active, withdrawn, guard>>
  BY DEF ReleaseOpen, Go, fileVars, effects, Matches
<1>1. Others(p) BY <1>0 DEF TypeOK, Others, ReleaseOpen, Go, fileVars, effects, Matches
<1> QED BY <1>a, <1>b, <1>1, QuietReturn DEF QuietStep

(* A release locks it or leaves it to whoever has it. *)
LEMMA ReleaseFlockReturn ==
  ASSUME Inv, Inv', Back, NEW p \in Proc, ReleaseFlock(p)
  PROVE  Back'
<1>0. TypeOK /\ Before(p) BY BeforeFacts
<1>a. /\ pc[p] = "relflock" /\ Keeps(p) /\ ret'[p] = ret[p] /\ alive' = alive
      /\ (pc'[p] = "relcheck" /\ fd'[p] = fd[p]) \/ pc'[p] = ret[p]
  BY <1>0, ProcFacts DEF TypeOK, TypedNow, ReleaseFlock, Go, fileVars,
     effects, TryFlock
<1>b. UNCHANGED <<path, rec, active, withdrawn, guard>>
  BY DEF ReleaseFlock, Go, fileVars, effects, TryFlock
<1>1. Others(p) BY <1>0 DEF TypeOK, Others, ReleaseFlock, Go, fileVars, effects, TryFlock
<1> QED BY <1>a, <1>b, <1>1, QuietReturn DEF QuietStep

(* A pin opens the lock. *)
LEMMA PinOpenReturn ==
  ASSUME Inv, Inv', Back, NEW p \in Proc, PinOpen(p)
  PROVE  Back'
<1>0. TypeOK /\ Before(p) BY BeforeFacts
<1>a. /\ pc[p] = "pinopen" /\ Keeps(p) /\ ret'[p] = ret[p] /\ alive' = alive
      /\ \/ pc'[p] = "pinflock" /\ fd'[p] = path /\ path # 0
         \/ pc'[p] = PinFailed(p) /\ path = 0
  BY <1>0, ProcFacts DEF TypeOK, TypedNow, PinOpen, Go, fileVars, effects
<1>b. UNCHANGED <<path, rec, active, withdrawn, guard>> BY DEF PinOpen, Go, fileVars, effects
<1>1. Others(p) BY <1>0 DEF TypeOK, Others, PinOpen, Go, fileVars, effects
<1> QED BY <1>a, <1>b, <1>1, QuietReturn DEF QuietStep

(* A pin locks it or fails. *)
LEMMA PinFlockReturn ==
  ASSUME Inv, Inv', Back, NEW p \in Proc, PinFlock(p)
  PROVE  Back'
<1>0. TypeOK /\ Before(p) BY BeforeFacts
<1>a. /\ pc[p] = "pinflock" /\ Keeps(p) /\ ret'[p] = ret[p] /\ alive' = alive
      /\ (pc'[p] = "pincheck" /\ fd'[p] = fd[p]) \/ pc'[p] = PinFailed(p)
  BY <1>0, ProcFacts DEF TypeOK, TypedNow, PinFlock, Go, fileVars, effects,
     TryFlock
<1>b. UNCHANGED <<path, rec, active, withdrawn, guard>> BY DEF PinFlock, Go, fileVars, effects, TryFlock
<1>1. Others(p) BY <1>0 DEF TypeOK, Others, PinFlock, Go, fileVars, effects, TryFlock
<1> QED BY <1>a, <1>b, <1>1, QuietReturn DEF QuietStep

(* A pin is valid or fails. *)
LEMMA PinCheckReturn ==
  ASSUME Inv, Inv', Back, NEW p \in Proc, PinCheck(p)
  PROVE  Back'
<1>0. TypeOK /\ Before(p) BY BeforeFacts
<1>a. /\ pc[p] = "pincheck" /\ Stays(p) /\ Keeps(p) /\ alive' = alive
      /\ \/ pc'[p] = ret[p] /\ ret'[p] = ret[p] /\ tgt[p].nonce \in active
         \/ pc'[p] = "cleanup" /\ ret'[p] = PinFailed(p)
  BY SMTT(60), <1>0, ProcFacts DEF TypeOK, TypedNow, PinCheck, Go, fileVars, effects,
     PinValid
<1>b. UNCHANGED <<path, rec, active, withdrawn, guard>> BY DEF PinCheck, Go, fileVars, effects, PinValid
<1>1. Others(p) BY <1>0 DEF TypeOK, Others, PinCheck, Go, fileVars, effects, PinValid
<1> QED BY <1>a, <1>b, <1>1, QuietReturn DEF QuietStep

(* The pin is dropped. *)
LEMMA UnpinReturn ==
  ASSUME Inv, Inv', Back, NEW p \in Proc, Unpin(p)
  PROVE  Back'
<1>0. TypeOK /\ Before(p) BY BeforeFacts
<1>a. /\ pc[p] = "unpin" /\ Stays(p) /\ Keeps(p) /\ ret'[p] = ret[p]
      /\ alive' = alive
      /\ \/ pc'[p] = "unlock"
         \/ pc'[p] = "sweep" /\ tgt[p].nonce \notin active /\ path = fd[p]
  BY <1>0, ProcFacts DEF TypeOK, TypedNow, Unpin, Go, fileVars, effects
<1>b. UNCHANGED <<path, rec, active, withdrawn, guard>> BY DEF Unpin, Go, fileVars, effects
<1>1. Others(p) BY <1>0 DEF TypeOK, Others, Unpin, Go, fileVars, effects
<1> QED BY <1>a, <1>b, <1>1, QuietReturn DEF QuietStep

(* The fence is installed or refused. *)
LEMMA EndFenceReturn ==
  ASSUME Inv, Inv', Back, NEW p \in Proc, EndFence(p)
  PROVE  Back'
<1>0. TypeOK /\ Before(p) BY BeforeFacts
<1>a. /\ pc[p] = "fence" /\ Stays(p) /\ Keeps(p) /\ alive' = alive
      /\ pc'[p] = "unpin" /\ ret'[p] = "drop"
  BY <1>0, ProcFacts DEF TypeOK, TypedNow, EndFence, Go, fileVars, effects
<1>b. UNCHANGED <<path, rec, active, withdrawn, guard>> BY DEF EndFence, Go, fileVars, effects
<1>1. Others(p) BY <1>0 DEF TypeOK, Others, EndFence, Go, fileVars, effects
<1> QED BY <1>a, <1>b, <1>1, QuietReturn DEF QuietStep

(* A process dies. *)
LEMMA DieReturn ==
  ASSUME Inv, Inv', Back, NEW p \in Proc, Die(p)
  PROVE  Back'
<1>0. TypeOK /\ Before(p) BY BeforeFacts
<1>a. /\ pc[p] \notin {"unborn", "dead"} /\ pc'[p] = "dead"
      /\ p \notin alive' /\ alive' \subseteq alive /\ Keeps(p)
  BY <1>0, ProcFacts DEF TypeOK, TypedNow, Die, Go, fileVars, effects
<1>b. UNCHANGED <<path, rec, active, withdrawn, guard>> BY DEF Die, Go, fileVars, effects
<1>1. Others(p) BY <1>0 DEF TypeOK, Others, Die, Go, fileVars, effects
<1> QED BY <1>a, <1>b, <1>1, QuietReturn DEF QuietStep

(* Where such a step takes the daemon. *)
QuietDaemon ==
  \/ /\ pc[Daemon] = "gated" /\ pc'[Daemon] = "dead" /\ Daemon \notin alive'
     /\ alive' \subseteq alive /\ Keeps(Daemon)
  \/ /\ pc[Daemon] = "publish" /\ Stays(Daemon) /\ Keeps(Daemon)
     /\ alive' = alive
     /\ \/ pc'[Daemon] = "effect"
        \/ /\ pc'[Daemon] = "unpin"
           /\ ret'[Daemon] =
                IF tgt[Daemon].pid = Daemon THEN "retired" ELSE "done"
  \/ /\ pc[Daemon] = "effect" /\ Stays(Daemon) /\ Keeps(Daemon)
     /\ alive' = alive
     /\ \/ pc'[Daemon] = "take" /\ tgt[Daemon].pid # Daemon
        \/ /\ pc'[Daemon] = "unpin" /\ tgt[Daemon].pid # Daemon
           /\ ret'[Daemon] = "done"
        \/ /\ pc'[Daemon] = "unpin" /\ tgt[Daemon].pid = Daemon
           /\ ret'[Daemon] \in {"owned", "retired"}
  \/ /\ pc[Daemon] = "serving" /\ Stays(Daemon) /\ Keeps(Daemon)
     /\ alive' = alive
     /\ pc'[Daemon] \in {"handback", "drop"} /\ ret'[Daemon] = ret[Daemon]
  \/ /\ pc[Daemon] \in {"owned", "retired"} /\ Stays(Daemon)
     /\ guard'[Daemon] = guard[Daemon]
     /\ alive' = alive /\ pc'[Daemon] = "relopen"
     /\ tgt'[Daemon].pid = Daemon /\ tgt'[Daemon].nonce = 0
     /\ ret'[Daemon] \in {"idle", "done"}
  \/ /\ pc[Daemon] = "busy" /\ pc'[Daemon] = "done" /\ Stays(Daemon)
     /\ Keeps(Daemon)
     /\ alive' = alive
  \/ /\ pc[Daemon] = "held" /\ pc'[Daemon] \in {"admitted", "drop"}
     /\ Stays(Daemon) /\ Keeps(Daemon)
     /\ alive' = alive
  \/ /\ pc[Daemon] = "admitted" /\ pc'[Daemon] = "drop" /\ Stays(Daemon)
     /\ Keeps(Daemon)
     /\ alive' = alive

(* It keeps the claims returning. *)
LEMMA DaemonReturn ==
  ASSUME Inv, Inv', Back, Others(Daemon), QuietDaemon, UNCHANGED <<path, rec, active, withdrawn, guard>>
  PROVE  Back'
<1>0. TypeOK /\ Before(Daemon) /\ ProcInv(Daemon)' BY BeforeFacts, ProcFacts DEF Inv
<1>a. QuietDaemon OBVIOUS
<1>b. UNCHANGED <<path, rec, active, withdrawn, guard>> OBVIOUS
<1>2. Same(Launcher) BY <1>0, OthersSame, ProcFacts
<1> USE DEF QuietDaemon
<1>3. Modest(Daemon)
  <2>1. Taken' => Taken BY <1>0, <1>a, <1>2, ProcFacts DEF Taken, Same, PinFailed, RoleOK,
       TargetOK, GuardOK, DaemonInv
  <2>3. /\ DaemonInv' /\ pc'[Daemon] # "unborn"
        /\ Returning' => Returning BY <1>0, <1>a, <1>b, <1>2, ProcFacts DEF DaemonInv, Returning,
       LauncherInv, Same, PinFailed, RoleOK, TargetOK, GuardOK
  <2> QED BY <2>1, <2>3, ProcFacts DEF Modest
<1>4. ReturnOK(Daemon)'
  <2>1. TokenOK(Daemon)' BY <1>0, <1>a, <1>b, ProcFacts DEF ReturnOK, ReleaseOK, TokenOK,
       TargetOK, RoleOK, PinFailed, FlockOK, BoundOK
  <2>2. ReleaseOK(Daemon)' BY <1>0, <1>a, <1>b, <1>2, ProcFacts DEF ReturnOK, ReleaseOK, ClaimOK,
       Claims, OwnClaim, TargetOK, RoleOK, PinFailed, LauncherInv, WaitInv,
       Live, Taken, Same, AliveOK
  <2>3. ClaimOK(Daemon)' BY <1>0, <1>a, <1>b, ProcFacts DEF ReturnOK, ClaimOK, Claims, OwnClaim,
       Inherited, ReleaseOK, TargetOK, RoleOK, GuardOK, DaemonInv,
       PinFailed, FlockOK, LauncherInv, AliveOK, OwnOK
  <2>4. Remembered(Daemon)' BY <1>0, <1>a, <1>b, <1>2, ProcFacts DEF ReturnOK, WaitInv, TakenInv,
       Remembered, Forgets, Live, Taken, Returning, Dismissed, TargetOK,
       RoleOK, PinFailed, Same
  <2> QED BY <2>1, <2>2, <2>3, <2>4 DEF ReturnOK
<1> QED BY <1>3, <1>4, <1>b, StillReturn, ProcFacts

(* The gate of an abandoned daemon closes. *)
LEMMA GateClosedReturn ==
  ASSUME Inv, Inv', Back, GateClosed
  PROVE  Back'
<1>0. TypeOK /\ Before(Daemon) BY BeforeFacts, ProcFacts
<1>a. /\ pc[Daemon] = "gated" /\ pc'[Daemon] = "dead" /\ Daemon \notin alive'
      /\ alive' \subseteq alive /\ Keeps(Daemon)
  BY <1>0, ProcFacts DEF TypeOK, TypedNow, GateClosed, Go, fileVars,
     effects
<1>b. UNCHANGED <<path, rec, active, withdrawn, guard>> BY DEF GateClosed, Go, fileVars, effects
<1>1. Others(Daemon) BY <1>0 DEF TypeOK, Others, GateClosed, Go, fileVars, effects
<1> QED BY <1>a, <1>b, <1>1, DaemonReturn DEF QuietDaemon

(* The publication is checked under the pin. *)
LEMMA CheckPublicationReturn ==
  ASSUME Inv, Inv', Back, CheckPublication
  PROVE  Back'
<1>0. TypeOK /\ Before(Daemon) BY BeforeFacts, ProcFacts
<1>a. /\ pc[Daemon] = "publish" /\ Stays(Daemon) /\ Keeps(Daemon)
      /\ alive' = alive
      /\ \/ pc'[Daemon] = "effect"
         \/ /\ pc'[Daemon] = "unpin"
            /\ ret'[Daemon] =
                 IF tgt[Daemon].pid = Daemon THEN "retired" ELSE "done"
  BY <1>0, ProcFacts DEF TypeOK, TypedNow, CheckPublication, Go, fileVars,
     effects, ByOperation
<1>b. UNCHANGED <<path, rec, active, withdrawn, guard>>
  BY DEF CheckPublication, Go, fileVars, effects, ByOperation
<1>1. Others(Daemon) BY <1>0 DEF TypeOK, Others, CheckPublication, Go, fileVars, effects,
     ByOperation
<1> QED BY <1>a, <1>b, <1>1, DaemonReturn DEF QuietDaemon

(* The session is published under the pin. *)
LEMMA PublishSessionReturn ==
  ASSUME Inv, Inv', Back, PublishSession
  PROVE  Back'
<1>0. TypeOK /\ Before(Daemon) BY BeforeFacts, ProcFacts
<1>a. /\ pc[Daemon] = "effect" /\ Stays(Daemon) /\ Keeps(Daemon)
      /\ alive' = alive
      /\ \/ pc'[Daemon] = "take" /\ tgt[Daemon].pid # Daemon
         \/ /\ pc'[Daemon] = "unpin" /\ tgt[Daemon].pid # Daemon
            /\ ret'[Daemon] = "done"
         \/ /\ pc'[Daemon] = "unpin" /\ tgt[Daemon].pid = Daemon
            /\ ret'[Daemon] \in {"owned", "retired"}
  BY <1>0, ProcFacts DEF TypeOK, TypedNow, PublishSession, Go, fileVars,
     effects, ByOperation
<1>b. UNCHANGED <<path, rec, active, withdrawn, guard>>
  BY DEF PublishSession, Go, fileVars, effects, ByOperation
<1>1. Others(Daemon) BY <1>0 DEF TypeOK, Others, PublishSession, Go, fileVars, effects,
     ByOperation
<1> QED BY <1>a, <1>b, <1>1, DaemonReturn DEF QuietDaemon

(* The child is forked or not. *)
LEMMA ForkChildReturn ==
  ASSUME Inv, Inv', Back, ForkChild
  PROVE  Back'
<1>0. TypeOK /\ Before(Daemon) BY BeforeFacts, ProcFacts
<1>a. /\ pc[Daemon] = "serving" /\ Stays(Daemon) /\ Keeps(Daemon)
      /\ alive' = alive
      /\ pc'[Daemon] \in {"handback", "drop"} /\ ret'[Daemon] = ret[Daemon]
  BY <1>0, ProcFacts DEF TypeOK, TypedNow, ForkChild, Go, fileVars, effects
<1>b. UNCHANGED <<path, rec, active, withdrawn, guard>> BY DEF ForkChild, Go, fileVars, effects
<1>1. Others(Daemon) BY <1>0 DEF TypeOK, Others, ForkChild, Go, fileVars, effects
<1> QED BY <1>a, <1>b, <1>1, DaemonReturn DEF QuietDaemon

(* The launcher may have withdrawn while the claim was swapped. *)
LEMMA HandBackCheckReturn ==
  ASSUME Inv, Inv', Back, HandBackCheck
  PROVE  Back'
<1>0. TypeOK /\ Before(Daemon) /\ ProcInv(Daemon)' BY BeforeFacts, ProcFacts DEF Inv
<1>a. /\ pc[Daemon] = "hbcheck" /\ Stays(Daemon)
      /\ guard'[Daemon] = guard[Daemon]
      /\ alive' = alive
      /\ \/ pc'[Daemon] = "done" /\ tgt'[Daemon] = tgt[Daemon]
         \/ /\ pc'[Daemon] = "relopen" /\ guard[Launcher] \notin active
            /\ tgt'[Daemon].pid = Launcher
            /\ tgt'[Daemon].nonce = guard[Launcher]
            /\ ret'[Daemon] = "done"
  BY <1>0, ProcFacts DEF TypeOK, TypedNow, HandBackCheck, Go, fileVars,
     effects, Owner
<1>b. UNCHANGED <<path, rec, active, withdrawn, guard>>
  BY DEF HandBackCheck, Go, fileVars, effects, Owner
<1>1. Others(Daemon) BY <1>0 DEF TypeOK, Others, HandBackCheck, Go, fileVars, effects, Owner
<1>2. Same(Launcher) BY <1>0, <1>1, OthersSame, ProcFacts
<1>3. Modest(Daemon)
  <2>1. Taken' => Taken BY <1>0, <1>a, <1>2, ProcFacts DEF Taken, Same, PinFailed, RoleOK,
       TargetOK, GuardOK, DaemonInv
  <2>3. /\ DaemonInv' /\ pc'[Daemon] # "unborn"
        /\ Returning' => Returning BY <1>0, <1>a, <1>b, <1>2, ProcFacts DEF DaemonInv, Returning,
       LauncherInv, Same, PinFailed, RoleOK, TargetOK, GuardOK
  <2> QED BY <2>1, <2>3, ProcFacts DEF Modest
<1>4. ReturnOK(Daemon)'
  <2>1. TokenOK(Daemon)' BY <1>0, <1>a, <1>b, ProcFacts DEF ReturnOK, ReleaseOK, TokenOK,
       TargetOK, RoleOK, PinFailed, FlockOK, BoundOK
  <2>2. ReleaseOK(Daemon)'
    <3>1. ReturnOK(Launcher) /\ ProcInv(Launcher) /\ path \in 0..Len(rec)
      BY ProcFacts DEF Inv, Back, TypeOK
    <3>2. ASSUME Live(guard[Launcher]), guard[Launcher] \notin active
          PROVE  guard[Launcher] \in withdrawn \/ Launcher \notin alive
      <4>1. guard[Launcher] # 0 /\ ~Taken /\ pc[Launcher] # "waiting"
        BY <1>0, <1>a, <3>2 DEF LauncherInv, Taken, WaitInv
      <4>2. path # 0 /\ rec[path].nonce = guard[Launcher] BY <3>2, <4>1 DEF Live
      <4>3. rec[path].pid \in {Launcher, Daemon} BY <1>0, <3>1, <4>1, <4>2 DEF RecordInv, GuardOK, Owner
      <4>4. CASE rec[path].pid = Launcher BY <1>0, <1>a, <3>1, <4>1, <4>2, <4>4, ProcFacts
        DEF ReturnOK, ClaimOK, Claims, OwnClaim, Inherited, LauncherInv
      <4>5. CASE rec[path].pid = Daemon BY <1>0, <1>a, <3>1, <4>1, <4>2, <4>5, ProcFacts
        DEF ReturnOK, ClaimOK, Claims, OwnClaim, Inherited, AliveOK
      <4> QED BY <4>3, <4>4, <4>5
    <3>3. pc'[Daemon] = "relopen" /\ Live(tgt[Daemon].nonce)'
            => Live(guard[Launcher]) BY <1>a, <1>b, <1>2, ProcFacts DEF Live, Taken, Same
    <3> QED BY <1>0, <1>a, <1>b, <3>2, <3>3 DEF ReleaseOK, LauncherInv
  <2>3. ClaimOK(Daemon)' BY <1>0, <1>a, <1>b, ProcFacts DEF ReturnOK, ClaimOK, Claims, OwnClaim,
       Inherited, ReleaseOK, TargetOK, RoleOK, GuardOK, DaemonInv,
       PinFailed, FlockOK, LauncherInv, AliveOK, OwnOK
  <2>4. Remembered(Daemon)' BY <1>0, <1>a, <1>b, <1>2, ProcFacts DEF ReturnOK, WaitInv, TakenInv,
       Remembered, Forgets, Live, Taken, Returning, Dismissed, TargetOK,
       RoleOK, PinFailed, Same
  <2> QED BY <2>1, <2>2, <2>3, <2>4 DEF ReturnOK
<1> QED BY <1>1, <1>3, <1>4, <1>b, StillReturn, ProcFacts

(* An operation's daemon releases by pid. *)
LEMMA ReleaseOwnedReturn ==
  ASSUME Inv, Inv', Back, ReleaseOwned
  PROVE  Back'
<1>0. TypeOK /\ Before(Daemon) BY BeforeFacts, ProcFacts
<1>a. /\ pc[Daemon] \in {"owned", "retired"} /\ Stays(Daemon)
      /\ guard'[Daemon] = guard[Daemon]
      /\ alive' = alive /\ pc'[Daemon] = "relopen"
      /\ tgt'[Daemon].pid = Daemon /\ tgt'[Daemon].nonce = 0
      /\ ret'[Daemon] \in {"idle", "done"}
  BY <1>0, ProcFacts DEF TypeOK, TypedNow, ReleaseOwned, Go, fileVars,
     effects, Owner
<1>b. UNCHANGED <<path, rec, active, withdrawn, guard>> BY DEF ReleaseOwned, Go, fileVars, effects, Owner
<1>1. Others(Daemon) BY <1>0 DEF TypeOK, Others, ReleaseOwned, Go, fileVars, effects, Owner
<1> QED BY <1>a, <1>b, <1>1, DaemonReturn DEF QuietDaemon

(* A refused daemon gives up. *)
LEMMA GiveUpReturn ==
  ASSUME Inv, Inv', Back, GiveUp
  PROVE  Back'
<1>0. TypeOK /\ Before(Daemon) BY BeforeFacts, ProcFacts
<1>a. /\ pc[Daemon] = "busy" /\ pc'[Daemon] = "done" /\ Stays(Daemon)
      /\ Keeps(Daemon)
      /\ alive' = alive BY <1>0, ProcFacts DEF TypeOK, TypedNow, GiveUp, Go, fileVars, effects
<1>b. UNCHANGED <<path, rec, active, withdrawn, guard>> BY DEF GiveUp, Go, fileVars, effects
<1>1. Others(Daemon) BY <1>0 DEF TypeOK, Others, GiveUp, Go, fileVars, effects
<1> QED BY <1>a, <1>b, <1>1, DaemonReturn DEF QuietDaemon

(* The fork is admitted again or not. *)
LEMMA AdmitForkReturn ==
  ASSUME Inv, Inv', Back, AdmitFork
  PROVE  Back'
<1>0. TypeOK /\ Before(Daemon) BY BeforeFacts, ProcFacts
<1>a. /\ pc[Daemon] = "held" /\ pc'[Daemon] \in {"admitted", "drop"}
      /\ Stays(Daemon) /\ Keeps(Daemon)
      /\ alive' = alive BY <1>0, ProcFacts DEF TypeOK, TypedNow, AdmitFork, Go, fileVars, effects
<1>b. UNCHANGED <<path, rec, active, withdrawn, guard>> BY DEF AdmitFork, Go, fileVars, effects
<1>1. Others(Daemon) BY <1>0 DEF TypeOK, Others, AdmitFork, Go, fileVars, effects
<1> QED BY <1>a, <1>b, <1>1, DaemonReturn DEF QuietDaemon

(* The admitted child is forked or not. *)
LEMMA ForkHeldReturn ==
  ASSUME Inv, Inv', Back, ForkHeld
  PROVE  Back'
<1>0. TypeOK /\ Before(Daemon) BY BeforeFacts, ProcFacts
<1>a. /\ pc[Daemon] = "admitted" /\ pc'[Daemon] = "drop" /\ Stays(Daemon)
      /\ Keeps(Daemon)
      /\ alive' = alive BY <1>0, ProcFacts DEF TypeOK, TypedNow, ForkHeld, Go, fileVars, effects
<1>b. UNCHANGED <<path, rec, active, withdrawn, guard>> BY DEF ForkHeld, Go, fileVars, effects
<1>1. Others(Daemon) BY <1>0 DEF TypeOK, Others, ForkHeld, Go, fileVars, effects
<1> QED BY <1>a, <1>b, <1>1, DaemonReturn DEF QuietDaemon

(* Where a step goes that changes tokens only, and which. *)
TokenStep(p) ==
  \/ /\ pc[p] = "sweeptoken" /\ pc'[p] = "unlock" /\ Stays(p) /\ Keeps(p)
     /\ ret'[p] = ret[p] /\ alive' = alive
     /\ active' = active \ {rec[fd[p]].nonce}
     /\ withdrawn' = withdrawn \ {rec[fd[p]].nonce}
     /\ ~Live(rec[fd[p]].nonce)
  \/ /\ pc[p] = "reltoken" /\ pc'[p] = "cleanup" /\ Stays(p) /\ Keeps(p)
     /\ ret'[p] = ret[p] /\ alive' = alive
     /\ active' = active \ {rec[fd[p]].nonce}
     /\ withdrawn' = withdrawn \ {rec[fd[p]].nonce}
     /\ ~Live(rec[fd[p]].nonce)
  \/ /\ pc[p] \in {"held", "waiting", "drop"}
     /\ pc[p] = "held" => p # Daemon
     /\ pc'[p] = "relopen" /\ ret'[p] = "done" /\ Stays(p) /\ alive' = alive
     /\ guard'[p] = guard[p] /\ guard[p] # 0
     /\ tgt'[p].pid = p /\ tgt'[p].nonce = guard[p]
     /\ active' = active \ {guard[p]}
     /\ withdrawn' = withdrawn \cup {guard[p]}
  \/ /\ pc[p] = "relwithdraw" /\ pc'[p] = "relflock" /\ Stays(p) /\ Keeps(p)
     /\ ret'[p] = ret[p] /\ alive' = alive
     /\ active' = active \ {rec[fd[p]].nonce}
     /\ withdrawn' = withdrawn \cup {rec[fd[p]].nonce}
  \/ /\ pc[p] = "relcheck" /\ Stays(p) /\ Keeps(p) /\ ret'[p] = ret[p]
     /\ alive' = alive
     /\ \/ pc'[p] = "relunlink" /\ path = fd[p]
        \/ pc'[p] = "cleanup" /\ path # fd[p]
     /\ IF tgt[p].nonce = 0
        THEN /\ active' = active \ {rec[fd[p]].nonce}
             /\ withdrawn' = withdrawn \cup {rec[fd[p]].nonce}
        ELSE active' = active /\ withdrawn' = withdrawn
  \/ /\ p \in Contenders /\ pc[p] = "held" /\ pc'[p] = "pinopen" /\ Stays(p)
     /\ guard'[p] = guard[p] /\ guard[p] # 0 /\ ret'[p] = "fence"
     /\ tgt'[p].pid = p /\ tgt'[p].nonce = guard[p] /\ alive' = alive
     /\ active \subseteq active' /\ active' \subseteq active \cup {guard[p]}
     /\ withdrawn' = withdrawn

(* Such a step, if gentle, keeps the claims returning. *)
LEMMA TokenReturn ==
  ASSUME Inv, Inv', Back, NEW p \in Proc, Others(p), TokenStep(p), Gentle(p), UNCHANGED <<path, rec, guard>>
  PROVE  Back'
<1>0. TypeOK /\ Before(p) /\ ProcInv(p)' BY BeforeFacts, ProcFacts DEF Inv
<1>a. TokenStep(p) OBVIOUS
<1>b. UNCHANGED <<path, rec, guard>> OBVIOUS
<1>c. Gentle(p) OBVIOUS
<1>2. (p # Launcher => Same(Launcher)) /\ (p # Daemon => Same(Daemon)) BY <1>0, OthersSame, ProcFacts
<1> USE DEF TokenStep
<1>3. Modest(p)
  <2>1. Taken' => Taken BY <1>0, <1>a, <1>2, ProcFacts DEF Taken, Same, PinFailed, RoleOK,
       TargetOK, GuardOK, DaemonInv
  <2>2. ASSUME p = Launcher
        PROVE  /\ pc'[p] # "waiting"
               /\ pc[p] = "waiting" => guard[p] \in withdrawn'
               /\ pc'[p] \in {"hoswap"} \cup PinPC =>
                    pc[p] \in {"hoswap"} \cup PinPC
               /\ Unhanded' => Unhanded
    BY <1>0, <1>a, <1>c, <2>2, ProcFacts DEF Unhanded, PinFailed, RoleOK,
       TargetOK, GuardOK
  <2>3. ASSUME p = Daemon
        PROVE  /\ DaemonInv' /\ pc'[p] # "unborn"
               /\ Returning' => Returning
    BY <1>0, <1>a, <1>b, <1>2, <2>3, ProcFacts DEF DaemonInv, Returning,
       LauncherInv, Same, PinFailed, RoleOK, TargetOK, GuardOK
  <2> QED BY <2>1, <2>2, <2>3, ProcFacts DEF Modest
<1>4. ReturnOK(p)'
  <2>1. TokenOK(p)' BY <1>0, <1>a, <1>b, <1>c, ProcFacts DEF Live, Taken, WaitInv,
       TakenInv, ReturnOK, ReleaseOK, TokenOK, TargetOK, RoleOK, PinFailed,
       FlockOK, BoundOK
  <2>2. ReleaseOK(p)' BY <1>0, <1>a, <1>b, <1>c, <1>2, ProcFacts DEF ReturnOK,
       ReleaseOK, ClaimOK, Claims, OwnClaim, TargetOK, RoleOK, PinFailed,
       LauncherInv, WaitInv, Live, Taken, Same, AliveOK
  <2>3. ClaimOK(p)' BY <1>0, <1>a, <1>b, <1>c, ProcFacts DEF Live, Taken, WaitInv,
       TakenInv, ReturnOK, ClaimOK, Claims, OwnClaim, Inherited, ReleaseOK,
       TargetOK, RoleOK, GuardOK, DaemonInv, PinFailed, FlockOK,
       LauncherInv, AliveOK, OwnOK
  <2>4. Remembered(p)' BY <1>0, <1>a, <1>b, <1>c, <1>2, ProcFacts DEF ReturnOK, WaitInv,
       TakenInv, Remembered, Forgets, Live, Taken, Returning, Dismissed,
       TargetOK, RoleOK, PinFailed, Same
  <2> QED BY <2>1, <2>2, <2>3, <2>4 DEF ReturnOK
<1> QED BY <1>3, <1>4, <1>b, GentleReturn

(* The token of a swept claim is removed. *)
LEMMA SweepTokenReturn ==
  ASSUME Inv, Inv', Back, NEW p \in Proc, SweepToken(p)
  PROVE  Back'
<1>0. TypeOK /\ Before(p) BY BeforeFacts
<1>a. /\ pc[p] = "sweeptoken" /\ pc'[p] = "unlock" /\ Stays(p) /\ Keeps(p)
      /\ ret'[p] = ret[p] /\ alive' = alive
  BY <1>0, ProcFacts DEF TypeOK, TypedNow, SweepToken, Go, fileVars,
     effects
<1>b. UNCHANGED <<path, rec, guard>> BY DEF SweepToken, Go, fileVars, effects
<1>c. /\ active' = active \ {rec[fd[p]].nonce}
      /\ withdrawn' = withdrawn \ {rec[fd[p]].nonce}
  BY DEF SweepToken, Go, fileVars, effects, RemoveToken, Withdraw, Activate
<1>d. ~Live(rec[fd[p]].nonce) /\ Gentle(p)
  <2>1. /\ rec[fd[p]].nonce \in 1..Len(rec)
        /\ Forgets(p, rec[fd[p]].nonce) BY <1>0, <1>a, NonceRange DEF TypedNow, FlockOK, Forgets
  <2>2. ~Live(rec[fd[p]].nonce) BY <1>0, <2>1 DEF ReturnOK, Remembered
  <2>3. guard[Launcher] # rec[fd[p]].nonce \/ pc[Launcher] # "waiting" BY <2>2 DEF Live
  <2> QED BY <1>0, <1>c, <2>2, <2>3 DEF Gentle, WaitInv
<1>1. Others(p) BY <1>0 DEF TypeOK, Others, SweepToken, Go, fileVars, effects
<1> QED BY <1>a, <1>b, <1>c, <1>d, <1>1, TokenReturn DEF TokenStep

(* The token of a released claim is removed. *)
LEMMA ReleaseTokenReturn ==
  ASSUME Inv, Inv', Back, NEW p \in Proc, ReleaseToken(p)
  PROVE  Back'
<1>0. TypeOK /\ Before(p) BY BeforeFacts
<1>a. /\ pc[p] = "reltoken" /\ pc'[p] = "cleanup" /\ Stays(p) /\ Keeps(p)
      /\ ret'[p] = ret[p] /\ alive' = alive
  BY <1>0, ProcFacts DEF TypeOK, TypedNow, ReleaseToken, Go, fileVars,
     effects
<1>b. UNCHANGED <<path, rec, guard>> BY DEF ReleaseToken, Go, fileVars, effects
<1>c. /\ active' = active \ {rec[fd[p]].nonce}
      /\ withdrawn' = withdrawn \ {rec[fd[p]].nonce}
  BY DEF ReleaseToken, Go, fileVars, effects, RemoveToken, Withdraw,
     Activate
<1>d. ~Live(rec[fd[p]].nonce) /\ Gentle(p)
  <2>1. /\ rec[fd[p]].nonce \in 1..Len(rec)
        /\ Forgets(p, rec[fd[p]].nonce) BY <1>0, <1>a, NonceRange DEF TypedNow, FlockOK, Forgets
  <2>2. ~Live(rec[fd[p]].nonce) BY <1>0, <2>1 DEF ReturnOK, Remembered
  <2>3. guard[Launcher] # rec[fd[p]].nonce \/ pc[Launcher] # "waiting" BY <2>2 DEF Live
  <2> QED BY <1>0, <1>c, <2>2, <2>3 DEF Gentle, WaitInv
<1>1. Others(p) BY <1>0 DEF TypeOK, Others, ReleaseToken, Go, fileVars, effects
<1> QED BY <1>a, <1>b, <1>c, <1>d, <1>1, TokenReturn DEF TokenStep

(* The token of a launcher that withdrew is removed. *)
LEMMA HandBackForgetReturn ==
  ASSUME Inv, Inv', Back, HandBackForget
  PROVE  Back'
<1>0. TypeOK /\ Before(Daemon) /\ ProcInv(Daemon)' BY BeforeFacts, ProcFacts DEF Inv
<1>a. /\ pc[Daemon] = "hbforget" /\ pc'[Daemon] = "done" /\ Stays(Daemon)
      /\ Keeps(Daemon)
      /\ ret'[Daemon] = ret[Daemon] /\ alive' = alive
  BY <1>0, ProcFacts DEF TypeOK, TypedNow, HandBackForget, Go, fileVars,
     effects
<1>b. UNCHANGED <<path, rec, guard>> BY DEF HandBackForget, Go, fileVars, effects
<1>c. /\ active' = active \ {guard[Launcher]}
      /\ withdrawn' = withdrawn \ {guard[Launcher]}
  BY DEF HandBackForget, Go, fileVars, effects, RemoveToken, Withdraw,
     Activate
<1>d. ~Live(guard[Launcher]) /\ Gentle(Daemon)
  <2>1. guard[Launcher] \in 1..Len(rec) /\ Forgets(Daemon, guard[Launcher])
    BY <1>0, <1>a, ProcFacts, NonceRange DEF Forgets, Dismissed, LauncherInv
  <2>2. ~Live(guard[Launcher]) BY <1>0, <2>1 DEF ReturnOK, Remembered
  <2>3. guard[Launcher] # guard[Launcher] \/ pc[Launcher] # "waiting" BY <2>2 DEF Live
  <2> QED BY <1>0, <1>c, <2>2, <2>3 DEF Gentle, WaitInv
<1>1. Others(Daemon) BY <1>0 DEF TypeOK, Others, HandBackForget, Go, fileVars, effects
<1>2. Same(Launcher) BY <1>0, <1>1, OthersSame, ProcFacts
<1>3. Modest(Daemon)
  <2>1. Taken' => Taken BY <1>0, <1>a, <1>2, ProcFacts DEF Taken, Same, PinFailed, RoleOK,
       TargetOK, GuardOK, DaemonInv
  <2>3. /\ DaemonInv' /\ pc'[Daemon] # "unborn"
        /\ Returning' => Returning BY <1>0, <1>a, <1>b, <1>2, ProcFacts DEF DaemonInv, Returning,
       LauncherInv, Same, PinFailed, RoleOK, TargetOK, GuardOK
  <2> QED BY <2>1, <2>3, ProcFacts DEF Modest
<1>4. ReturnOK(Daemon)'
  <2>1. TokenOK(Daemon)' BY <1>0, <1>a, <1>b, <1>c, <1>d, ProcFacts DEF Live, Taken, WaitInv,
       TakenInv, ReturnOK, ReleaseOK, TokenOK, TargetOK, RoleOK, PinFailed,
       FlockOK, BoundOK
  <2>2. ReleaseOK(Daemon)' BY <1>0, <1>a, <1>b, <1>c, <1>d, <1>2, ProcFacts DEF ReturnOK,
       ReleaseOK, ClaimOK, Claims, OwnClaim, TargetOK, RoleOK, PinFailed,
       LauncherInv, WaitInv, Live, Taken, Same, AliveOK
  <2>3. ClaimOK(Daemon)' BY <1>0, <1>a, <1>b, <1>c, <1>d, ProcFacts DEF Live, Taken, WaitInv,
       TakenInv, ReturnOK, ClaimOK, Claims, OwnClaim, Inherited, ReleaseOK,
       TargetOK, RoleOK, GuardOK, DaemonInv, PinFailed, FlockOK,
       LauncherInv, AliveOK, OwnOK
  <2>4. Remembered(Daemon)' BY <1>0, <1>a, <1>b, <1>c, <1>d, <1>2, ProcFacts DEF ReturnOK, WaitInv,
       TakenInv, Remembered, Forgets, Live, Taken, Returning, Dismissed,
       TargetOK, RoleOK, PinFailed, Same
  <2> QED BY <2>1, <2>2, <2>3, <2>4 DEF ReturnOK
<1> QED BY <1>1, <1>3, <1>4, <1>b, <1>d, GentleReturn, ProcFacts

(* The token of the daemon's own claim is removed. *)
LEMMA HandBackTokenReturn ==
  ASSUME Inv, Inv', Back, HandBackToken
  PROVE  Back'
<1>0. TypeOK /\ Before(Daemon) /\ ProcInv(Daemon)' BY BeforeFacts, ProcFacts DEF Inv
<1>a. /\ pc[Daemon] = "hbtoken" /\ pc'[Daemon] = "hbcheck" /\ Stays(Daemon)
      /\ Keeps(Daemon)
      /\ ret'[Daemon] = ret[Daemon] /\ alive' = alive
  BY <1>0, ProcFacts DEF TypeOK, TypedNow, HandBackToken, Go, fileVars,
     effects
<1>b. UNCHANGED <<path, rec, guard>> BY DEF HandBackToken, Go, fileVars, effects
<1>c. /\ active' = active \ {guard[Daemon]}
      /\ withdrawn' = withdrawn \ {guard[Daemon]}
  BY DEF HandBackToken, Go, fileVars, effects, RemoveToken, Withdraw,
     Activate
<1>d. Gentle(Daemon) /\ (path # 0 => rec[path].nonce # guard[Daemon])
  <2>1. guard[Daemon] # 0 =>
          guard[Daemon] \in 1..Len(rec) /\ Forgets(Daemon, guard[Daemon])
    BY <1>0, <1>a, ProcFacts, NonceRange DEF Forgets, Returning
  <2>2. guard[Daemon] # 0 => ~Live(guard[Daemon]) BY <1>0, <2>1 DEF ReturnOK, Remembered
  <2>3. guard[Launcher] # guard[Daemon] \/ pc[Launcher] # "waiting"
    BY <1>0, <1>a, <2>2 DEF Live, LauncherInv
  <2>4. path # 0 => rec[path].nonce # 0 /\ path \in 1..Len(rec) BY NonceRange
  <2>5. path # 0 => rec[path].nonce # guard[Daemon] BY <2>2, <2>4 DEF Live
  <2> QED BY <1>0, <1>c, <2>2, <2>3, <2>5 DEF Gentle, WaitInv
<1>1. Others(Daemon) BY <1>0 DEF TypeOK, Others, HandBackToken, Go, fileVars, effects
<1>2. Same(Launcher) BY <1>0, <1>1, OthersSame, ProcFacts
<1>3. Modest(Daemon)
  <2>1. Taken' => Taken BY <1>0, <1>a, <1>2, ProcFacts DEF Taken, Same, PinFailed, RoleOK,
       TargetOK, GuardOK, DaemonInv
  <2>3. /\ DaemonInv' /\ pc'[Daemon] # "unborn"
        /\ Returning' => Returning BY <1>0, <1>a, <1>b, <1>2, ProcFacts DEF DaemonInv, Returning,
       LauncherInv, Same, PinFailed, RoleOK, TargetOK, GuardOK
  <2> QED BY <2>1, <2>3, ProcFacts DEF Modest
<1>4. ReturnOK(Daemon)'
  <2>1. TokenOK(Daemon)' BY <1>0, <1>a, <1>b, <1>c, <1>d, ProcFacts DEF Live, Taken, WaitInv,
       TakenInv, ReturnOK, ReleaseOK, TokenOK, TargetOK, RoleOK, PinFailed,
       FlockOK, BoundOK
  <2>2. ReleaseOK(Daemon)' BY <1>0, <1>a, <1>b, <1>c, <1>d, <1>2, ProcFacts DEF ReturnOK,
       ReleaseOK, ClaimOK, Claims, OwnClaim, TargetOK, RoleOK, PinFailed,
       LauncherInv, WaitInv, Live, Taken, Same, AliveOK
  <2>3. ClaimOK(Daemon)' BY <1>0, <1>a, <1>b, <1>c, <1>d, ProcFacts DEF Live, Taken, WaitInv,
       TakenInv, ReturnOK, ClaimOK, Claims, OwnClaim, Inherited, ReleaseOK,
       TargetOK, RoleOK, GuardOK, DaemonInv, PinFailed, FlockOK,
       LauncherInv, AliveOK, OwnOK
  <2>4. Remembered(Daemon)' BY <1>0, <1>a, <1>b, <1>c, <1>d, <1>2, ProcFacts DEF ReturnOK, WaitInv,
       TakenInv, Remembered, Forgets, Live, Taken, Returning, Dismissed,
       TargetOK, RoleOK, PinFailed, Same
  <2> QED BY <2>1, <2>2, <2>3, <2>4 DEF ReturnOK
<1> QED BY <1>1, <1>3, <1>4, <1>b, <1>d, GentleReturn, ProcFacts

(* A guard is released: its claim is withdrawn first. *)
LEMMA EndClaimReturn ==
  ASSUME Inv, Inv', Back, NEW p \in Proc, EndClaim(p)
  PROVE  Back'
<1>0. TypeOK /\ Before(p) BY BeforeFacts
<1>a. /\ pc[p] \in {"held", "waiting", "drop"}
      /\ pc[p] = "held" => p # Daemon
      /\ pc'[p] = "relopen" /\ ret'[p] = "done" /\ Stays(p) /\ alive' = alive
      /\ guard'[p] = guard[p] /\ guard[p] # 0
      /\ tgt'[p].pid = p /\ tgt'[p].nonce = guard[p]
  BY <1>0, ProcFacts DEF TypeOK, TypedNow, EndClaim, Go, fileVars, effects,
     Release, Owner, GuardOK
<1>b. UNCHANGED <<path, rec, guard>> BY DEF EndClaim, Go, fileVars, effects, Release, Owner, GuardOK
<1>c. /\ active' = active \ {guard[p]}
      /\ withdrawn' = withdrawn \cup {guard[p]}
  BY DEF EndClaim, Go, fileVars, effects, Release, Owner, GuardOK,
     RemoveToken, Withdraw, Activate
<1>d. Gentle(p)
  <2>1. p # Launcher => guard[p] # guard[Launcher] BY <1>a, ProcFacts, GuardsDiffer
  <2> QED BY <1>0, <1>c, <2>1 DEF Gentle, WaitInv
<1>1. Others(p) BY <1>0 DEF TypeOK, Others, EndClaim, Go, fileVars, effects, Release,
     Owner, GuardOK
<1> QED BY <1>a, <1>b, <1>c, <1>d, <1>1, TokenReturn DEF TokenStep

(* A release by pid withdraws what it found. *)
LEMMA ReleaseWithdrawReturn ==
  ASSUME Inv, Inv', Back, NEW p \in Proc, ReleaseWithdraw(p)
  PROVE  Back'
<1>0. TypeOK /\ Before(p) BY BeforeFacts
<1>a. /\ pc[p] = "relwithdraw" /\ pc'[p] = "relflock" /\ Stays(p) /\ Keeps(p)
      /\ ret'[p] = ret[p] /\ alive' = alive
  BY <1>0, ProcFacts DEF TypeOK, TypedNow, ReleaseWithdraw, Go, fileVars,
     effects
<1>b. UNCHANGED <<path, rec, guard>> BY DEF ReleaseWithdraw, Go, fileVars, effects
<1>c. /\ active' = active \ {rec[fd[p]].nonce}
      /\ withdrawn' = withdrawn \cup {rec[fd[p]].nonce}
  BY DEF ReleaseWithdraw, Go, fileVars, effects, RemoveToken, Withdraw,
     Activate
<1>d. Gentle(p)
  <2>1. pc[Launcher] = "waiting" => rec[fd[p]].nonce # guard[Launcher]
    <3>1. fd[p] \in 1..Len(rec) /\ rec[fd[p]].pid = Daemon
      BY <1>0, <1>a DEF TypedNow, FlockOK, ReturnOK, ReleaseOK, TargetOK
    <3> QED BY <1>0, <3>1 DEF HandInv, Unhanded
  <2> QED BY <1>0, <1>c, <2>1 DEF Gentle, WaitInv
<1>1. Others(p) BY <1>0 DEF TypeOK, Others, ReleaseWithdraw, Go, fileVars, effects
<1> QED BY <1>a, <1>b, <1>c, <1>d, <1>1, TokenReturn DEF TokenStep

(* A release looks whether the lock still names what it locked. *)
LEMMA ReleaseCheckReturn ==
  ASSUME Inv, Inv', Back, NEW p \in Proc, ReleaseCheck(p)
  PROVE  Back'
<1>0. TypeOK /\ Before(p) BY BeforeFacts
<1>a. /\ pc[p] = "relcheck" /\ Stays(p) /\ Keeps(p) /\ ret'[p] = ret[p]
      /\ alive' = alive
      /\ \/ pc'[p] = "relunlink" /\ path = fd[p]
         \/ pc'[p] = "cleanup" /\ path # fd[p]
  BY <1>0, ProcFacts DEF TypeOK, TypedNow, ReleaseCheck, Go, fileVars,
     effects
<1>b. UNCHANGED <<path, rec, guard>> BY DEF ReleaseCheck, Go, fileVars, effects
<1>c. IF tgt[p].nonce = 0
      THEN /\ active' = active \ {rec[fd[p]].nonce}
           /\ withdrawn' = withdrawn \cup {rec[fd[p]].nonce}
      ELSE active' = active /\ withdrawn' = withdrawn
  BY DEF ReleaseCheck, Go, fileVars, effects, RemoveToken, Withdraw,
     Activate
<1>d. Gentle(p)
  <2>1. pc[Launcher] = "waiting" /\ tgt[p].nonce = 0
          => rec[fd[p]].nonce # guard[Launcher]
    <3>1. fd[p] \in 1..Len(rec) BY <1>0, <1>a DEF TypedNow, FlockOK
    <3>2. tgt[p].nonce = 0 => rec[fd[p]].pid = Daemon BY <1>0, <1>a DEF ReturnOK, ReleaseOK, TargetOK
    <3> QED BY <1>0, <3>1, <3>2 DEF HandInv, Unhanded
  <2> QED BY <1>0, <1>c, <2>1 DEF Gentle, WaitInv
<1>1. Others(p) BY <1>0 DEF TypeOK, Others, ReleaseCheck, Go, fileVars, effects
<1> QED BY <1>a, <1>b, <1>c, <1>d, <1>1, TokenReturn DEF TokenStep

(* A contender activates its own claim to pin it. *)
LEMMA StartFenceReturn ==
  ASSUME Inv, Inv', Back, NEW p \in Proc, StartFence(p)
  PROVE  Back'
<1>0. TypeOK /\ Before(p) BY BeforeFacts
<1>a. /\ p \in Contenders /\ pc[p] = "held" /\ pc'[p] = "pinopen" /\ Stays(p)
      /\ guard'[p] = guard[p] /\ guard[p] # 0 /\ ret'[p] = "fence"
      /\ tgt'[p].pid = p /\ tgt'[p].nonce = guard[p] /\ alive' = alive
  BY <1>0, ProcFacts DEF TypeOK, TypedNow, StartFence, Go, fileVars,
     effects, PinOwnClaim, Owner, GuardOK
<1>b. UNCHANGED <<path, rec, guard>>
  BY DEF StartFence, Go, fileVars, effects, PinOwnClaim, Owner, GuardOK
<1>c. /\ active \subseteq active' /\ active' \subseteq active \cup {guard[p]}
      /\ withdrawn' = withdrawn BY DEF StartFence, Go, fileVars, effects, PinOwnClaim, Owner, GuardOK,
     RemoveToken, Withdraw, Activate
<1>d. Gentle(p) BY <1>0, <1>c DEF Gentle, WaitInv
<1>1. Others(p) BY <1>0 DEF TypeOK, Others, StartFence, Go, fileVars, effects,
     PinOwnClaim, Owner, GuardOK
<1> QED BY <1>a, <1>b, <1>c, <1>d, <1>1, TokenReturn DEF TokenStep

(* A daemon pins its own claim to hand it back, or finds its launcher's *)
(* withdrawn. *)
LEMMA HandBackReturn ==
  ASSUME Inv, Inv', Back, HandBack
  PROVE  Back'
<1>0. TypeOK /\ Before(Daemon) /\ ProcInv(Daemon)' BY BeforeFacts, ProcFacts DEF Inv
<1>a. /\ pc[Daemon] = "handback" /\ Stays(Daemon)
      /\ guard'[Daemon] = guard[Daemon] /\ guard[Daemon] # 0
      /\ tgt'[Daemon].pid = Daemon /\ tgt'[Daemon].nonce = guard[Daemon]
      /\ alive' = alive
      /\ \/ pc'[Daemon] = "pinopen" /\ ret'[Daemon] = "hbswap"
         \/ /\ pc'[Daemon] = "relopen" /\ ret'[Daemon] = "hbforget"
            /\ guard[Launcher] \notin active /\ guard[Daemon] \in withdrawn'
  BY <1>0, ProcFacts, SMTT(40) DEF TypeOK, TypedNow, HandBack, Go, fileVars, effects,
     PinOwnClaim, Release, Withdraw, Owner, GuardOK
<1>b. UNCHANGED <<path, rec, guard>>
  BY DEF HandBack, Go, fileVars, effects, PinOwnClaim, Release, Withdraw,
     Owner, GuardOK
<1>c. \/ /\ active \subseteq active' /\ withdrawn' = withdrawn
         /\ active' \subseteq active \cup {guard[Daemon]}
      \/ /\ active' = active \ {guard[Daemon]}
         /\ withdrawn' = withdrawn \cup {guard[Daemon]}
  BY DEF HandBack, Go, fileVars, effects, PinOwnClaim, Release, Withdraw,
     Owner, GuardOK, RemoveToken, Withdraw, Activate
<1>d. Gentle(Daemon)
  <2>1. guard[Daemon] # guard[Launcher] BY <1>a, ProcFacts, GuardsDiffer
  <2> QED BY <1>0, <1>c, <2>1 DEF Gentle, WaitInv
<1>1. Others(Daemon) BY <1>0 DEF TypeOK, Others, HandBack, Go, fileVars, effects, PinOwnClaim,
     Release, Withdraw, Owner, GuardOK
<1>2. Same(Launcher) BY <1>0, <1>1, OthersSame, ProcFacts
<1>3. Modest(Daemon)
  <2>1. Taken' => Taken BY <1>0, <1>a, <1>2, ProcFacts DEF Taken, Same, PinFailed, RoleOK,
       TargetOK, GuardOK, DaemonInv
  <2>3. /\ DaemonInv' /\ pc'[Daemon] # "unborn"
        /\ Returning' => Returning BY <1>0, <1>a, <1>b, <1>2, ProcFacts DEF DaemonInv, Returning,
       LauncherInv, Same, PinFailed, RoleOK, TargetOK, GuardOK
  <2> QED BY <2>1, <2>3, ProcFacts DEF Modest
<1>4. ReturnOK(Daemon)'
  <2>1. TokenOK(Daemon)' BY <1>0, <1>a, <1>b, <1>c, <1>d, ProcFacts DEF Live, Taken, WaitInv,
       TakenInv, ReturnOK, ReleaseOK, TokenOK, TargetOK, RoleOK, PinFailed,
       FlockOK, BoundOK
  <2>2. ReleaseOK(Daemon)' BY <1>0, <1>a, <1>b, <1>c, <1>d, <1>2, ProcFacts DEF ReturnOK,
       ReleaseOK, ClaimOK, Claims, OwnClaim, TargetOK, RoleOK, PinFailed,
       LauncherInv, WaitInv, Live, Taken, Same, AliveOK
  <2>3. ClaimOK(Daemon)' BY <1>0, <1>a, <1>b, <1>c, <1>d, ProcFacts DEF Live, Taken, WaitInv,
       TakenInv, ReturnOK, ClaimOK, Claims, OwnClaim, Inherited, ReleaseOK,
       TargetOK, RoleOK, GuardOK, DaemonInv, PinFailed, FlockOK,
       LauncherInv, AliveOK, OwnOK
  <2>4. Remembered(Daemon)' BY <1>0, <1>a, <1>b, <1>c, <1>d, <1>2, ProcFacts DEF ReturnOK, WaitInv,
       TakenInv, Remembered, Forgets, Live, Taken, Returning, Dismissed,
       TargetOK, RoleOK, PinFailed, Same
  <2> QED BY <2>1, <2>2, <2>3, <2>4 DEF ReturnOK
<1> QED BY <1>1, <1>3, <1>4, <1>b, <1>d, GentleReturn, ProcFacts

(* A step that removes the lock's entry keeps the second invariant if the *)
(* entry is not what the launcher waits with. *)
LEMMA GoneReturn ==
  ASSUME Inv, Inv', Back, NEW p \in Proc, Others(p), Modest(p), ReturnOK(p)',
         path' = 0, UNCHANGED <<rec, active, withdrawn, guard>>,
         path # 0 /\ pc[Launcher] = "waiting" =>
           rec[path] # Owner(Launcher, guard[Launcher])
  PROVE  Back'
<1>0. TypeOK /\ WaitInv /\ path \in 0..Len(rec) /\ Len(rec) \in Nat BY NonceRange DEF Inv, Back
<1>1. p # Launcher => Same(Launcher) BY <1>0, OthersSame, ProcFacts
<1>2. Grows BY <1>0, SameGrows
<1>3. \A n \in 1..Len(rec) : Live(n)' => Live(n) BY <1>1 DEF Live, Modest, Same
<1>b. /\ path' \in {path, 0} /\ rec' = rec /\ guard' = guard
      /\ active' = active /\ withdrawn' = withdrawn OBVIOUS
<1>4. Careful(p) BY <1>2, <1>3, <1>b DEF Careful
<1>5. Orderly(p) BY <1>0, <1>1, <1>b DEF Orderly, Modest, WaitInv
<1> QED BY <1>4, <1>5, OneReturn

(* A step that creates the lock does too. *)
LEMMA NewReturn ==
  ASSUME Inv, Inv', Back, NEW p \in Proc, Others(p), Modest(p), ReturnOK(p)',
         path = 0, Linked(p, Len(rec) + 1),
         UNCHANGED <<active, withdrawn, guard>>
  PROVE  Back'
<1>0. TypeOK /\ WaitInv /\ Len(rec) \in Nat BY NonceRange DEF Inv, Back
<1>1. p # Launcher => Same(Launcher) BY <1>0, OthersSame, ProcFacts
<1>a. /\ path' = Len(rec) + 1 /\ Len(rec') = path'
      /\ rec'[path'].pid = p /\ rec'[path'].nonce = path'
      /\ guard' = guard /\ active' = active /\ withdrawn' = withdrawn BY DEF Linked
<1>3. \A n \in 1..Len(rec) : Live(n)' => Live(n) BY <1>0, <1>1, <1>a DEF Live, Modest, Same
<1>4. Careful(p) BY <1>3, <1>a DEF Careful, Linked
<1>5. Orderly(p) BY <1>0, <1>1, <1>a DEF Orderly, Modest, WaitInv
<1> QED BY <1>4, <1>5, OneReturn

(* A dead owner's entry is removed. *)
LEMMA UnlinkStaleReturn ==
  ASSUME Inv, Inv', Back, NEW p \in Proc, UnlinkStale(p)
  PROVE  Back'
<1>0. TypeOK /\ Before(p) /\ ProcInv(p)' BY BeforeFacts, ProcFacts DEF Inv
<1>a. /\ pc[p] = "unlink" /\ Stays(p) /\ Keeps(p) /\ alive' = alive
      /\ pc'[p] = "replace" \/ (pc'[p] = "cleanup" /\ ret'[p] = "busy")
  BY <1>0, ProcFacts DEF TypeOK, TypedNow, UnlinkStale, Go, fileVars,
     effects, Unlink
<1>b. path' = 0 /\ UNCHANGED <<rec, active, withdrawn, guard>>
  BY <1>0 DEF TypeOK, TypedNow, BoundOK, FlockOK, UnlinkStale, Go,
     fileVars, effects, Unlink
<1>1. Others(p) BY <1>0 DEF TypeOK, Others, UnlinkStale, Go, fileVars, effects, Unlink
<1>2. (p # Launcher => Same(Launcher)) /\ (p # Daemon => Same(Daemon))
  BY <1>0, <1>1, OthersSame, ProcFacts
<1>3. Modest(p)
  <2>1. Taken' => Taken BY <1>0, <1>a, <1>2, ProcFacts DEF Taken, Same, PinFailed, RoleOK,
       TargetOK, GuardOK, DaemonInv
  <2>2. ASSUME p = Launcher
        PROVE  /\ pc'[p] # "waiting" /\ pc[p] # "waiting"
               /\ pc'[p] \in {"hoswap"} \cup PinPC =>
                    pc[p] \in {"hoswap"} \cup PinPC
               /\ Unhanded' => Unhanded BY <1>0, <1>a, <2>2, ProcFacts DEF Unhanded, PinFailed, RoleOK,
       TargetOK, GuardOK
  <2>3. ASSUME p = Daemon
        PROVE  /\ DaemonInv' /\ pc'[p] # "unborn"
               /\ Returning' => Returning
    BY <1>0, <1>a, <1>b, <1>2, <2>3, ProcFacts DEF DaemonInv, Returning,
       LauncherInv, Same, PinFailed, RoleOK, TargetOK, GuardOK
  <2> QED BY <2>1, <2>2, <2>3, ProcFacts DEF Modest
<1>4. ReturnOK(p)'
  <2>1. TokenOK(p)' BY <1>0, <1>a, <1>b DEF ReturnOK, TokenOK
  <2>2. ReleaseOK(p)' BY <1>0, <1>a, <1>b, <1>2, ProcFacts DEF ReturnOK, ReleaseOK, Live, Taken,
       TargetOK, BoundOK, Same
  <2>3. ClaimOK(p)' BY <1>b DEF ClaimOK, Claims
  <2>4. Remembered(p)' BY <1>0, <1>a, <1>b, <1>2, ProcFacts
    DEF ReturnOK, Remembered, Forgets, Live, Taken, Returning, Dismissed,
        TargetOK, RoleOK, Same
  <2> QED BY <2>1, <2>2, <2>3, <2>4 DEF ReturnOK
<1>5. path # 0 /\ pc[Launcher] = "waiting" =>
        rec[path] # Owner(Launcher, guard[Launcher])
  BY <1>0, <1>a, ProcFacts DEF VictimOK, BoundOK, AliveOK, Owner, Back, Inv
<1> QED BY <1>1, <1>3, <1>4, <1>5, <1>b, GoneReturn

(* A withdrawn claim is swept. *)
LEMMA SweepReturn ==
  ASSUME Inv, Inv', Back, NEW p \in Proc, Sweep(p)
  PROVE  Back'
<1>0. TypeOK /\ Before(p) /\ ProcInv(p)' BY BeforeFacts, ProcFacts DEF Inv
<1>a. /\ pc[p] = "sweep" /\ Stays(p) /\ Keeps(p) /\ ret'[p] = ret[p]
      /\ pc'[p] \in {"sweeptoken", "unlock"} /\ alive' = alive
  BY <1>0, ProcFacts DEF TypeOK, TypedNow, Sweep, Go, fileVars, effects,
     Unlink
<1>b. path' = 0 /\ UNCHANGED <<rec, active, withdrawn, guard>>
  BY <1>0 DEF TypeOK, TypedNow, BoundOK, FlockOK, Sweep, Go, fileVars,
     effects, Unlink
<1>1. Others(p) BY <1>0 DEF TypeOK, Others, Sweep, Go, fileVars, effects, Unlink
<1>2. (p # Launcher => Same(Launcher)) /\ (p # Daemon => Same(Daemon))
  BY <1>0, <1>1, OthersSame, ProcFacts
<1>3. Modest(p)
  <2>1. Taken' => Taken BY <1>0, <1>a, <1>2, ProcFacts DEF Taken, Same, PinFailed, RoleOK,
       TargetOK, GuardOK, DaemonInv
  <2>2. ASSUME p = Launcher
        PROVE  /\ pc'[p] # "waiting" /\ pc[p] # "waiting"
               /\ pc'[p] \in {"hoswap"} \cup PinPC =>
                    pc[p] \in {"hoswap"} \cup PinPC
               /\ Unhanded' => Unhanded BY <1>0, <1>a, <2>2, ProcFacts DEF Unhanded, PinFailed, RoleOK,
       TargetOK, GuardOK
  <2>3. ASSUME p = Daemon
        PROVE  /\ DaemonInv' /\ pc'[p] # "unborn"
               /\ Returning' => Returning
    BY <1>0, <1>a, <1>b, <1>2, <2>3, ProcFacts DEF DaemonInv, Returning,
       LauncherInv, Same, PinFailed, RoleOK, TargetOK, GuardOK
  <2> QED BY <2>1, <2>2, <2>3, ProcFacts DEF Modest
<1>4. ReturnOK(p)'
  <2>1. TokenOK(p)' BY <1>0, <1>a, <1>b DEF ReturnOK, TokenOK
  <2>2. ReleaseOK(p)' BY <1>0, <1>a, <1>b, <1>2, ProcFacts DEF ReturnOK, ReleaseOK, Live, Taken,
       TargetOK, BoundOK, Same
  <2>3. ClaimOK(p)' BY <1>b DEF ClaimOK, Claims
  <2>4. Remembered(p)'
    <3>1. \A n \in 1..Len(rec) : Live(n)' => Live(n) BY <1>b, <1>2, <1>3 DEF Live, Modest, Same
    <3>2. ASSUME NEW n \in 1..Len(rec), n = rec[fd[p]].nonce, Live(n)'
          PROVE  FALSE
      <4>1. /\ path = fd[p] /\ path \in 1..Len(rec) /\ rec[path].nonce = n
            /\ ProcInv(Launcher) BY <1>0, <1>a, <3>2, ProcFacts DEF BoundOK, FlockOK, TypedNow, Inv
      <4>2. n = guard[Launcher] /\ (Taken \/ pc[Launcher] = "waiting")
        BY <1>b, <1>2, <1>3, <3>2 DEF Live, Modest, Same
      <4>3. pc[Launcher] = "waiting" /\ n \in active /\ n \notin withdrawn
        BY <1>0, <4>1, <4>2 DEF TakenInv, WaitInv, RecordInv
      <4>4. rec[path].pid = Launcher BY <1>0, <4>1, <4>2, <4>3, ProcFacts
        DEF RecordInv, GuardOK, Owner, HandInv, Unhanded
      <4> QED BY <1>0, <1>a, <4>1, <4>3, <4>4 DEF ReturnOK, TokenOK, AliveOK
    <3>3. ASSUME NEW n \in 1..Len(rec), Forgets(p, n)', n # rec[fd[p]].nonce
          PROVE  Forgets(p, n) BY <1>0, <1>a, <1>b, <3>3, ProcFacts
      DEF Forgets, Returning, Dismissed, TargetOK, RoleOK
    <3> QED BY <1>0, <1>b, <3>1, <3>2, <3>3 DEF ReturnOK, Remembered
  <2> QED BY <2>1, <2>2, <2>3, <2>4 DEF ReturnOK
<1>5. path # 0 /\ pc[Launcher] = "waiting" =>
        rec[path] # Owner(Launcher, guard[Launcher])
  <2>1. AliveOK(Launcher) BY ProcFacts DEF Inv
  <2> QED BY <1>0, <1>a, <2>1
          DEF ReturnOK, TokenOK, BoundOK, AliveOK, Owner, WaitInv, RecordInv
<1> QED BY <1>1, <1>3, <1>4, <1>5, <1>b, GoneReturn

(* A released claim is removed. *)
LEMMA ReleaseUnlinkReturn ==
  ASSUME Inv, Inv', Back, NEW p \in Proc, ReleaseUnlink(p)
  PROVE  Back'
<1>0. TypeOK /\ Before(p) /\ ProcInv(p)' BY BeforeFacts, ProcFacts DEF Inv
<1>a. /\ pc[p] = "relunlink" /\ Stays(p) /\ Keeps(p) /\ ret'[p] = ret[p]
      /\ pc'[p] \in {"reltoken", "cleanup"} /\ alive' = alive
  BY <1>0, ProcFacts DEF TypeOK, TypedNow, ReleaseUnlink, Go, fileVars,
     effects, Unlink
<1>b. path' = 0 /\ UNCHANGED <<rec, active, withdrawn, guard>>
  BY <1>0 DEF TypeOK, TypedNow, BoundOK, FlockOK, ReleaseUnlink, Go,
     fileVars, effects, Unlink
<1>1. Others(p) BY <1>0 DEF TypeOK, Others, ReleaseUnlink, Go, fileVars, effects, Unlink
<1>2. (p # Launcher => Same(Launcher)) /\ (p # Daemon => Same(Daemon))
  BY <1>0, <1>1, OthersSame, ProcFacts
<1>3. Modest(p)
  <2>1. Taken' => Taken BY <1>0, <1>a, <1>2, ProcFacts DEF Taken, Same, PinFailed, RoleOK,
       TargetOK, GuardOK, DaemonInv
  <2>2. ASSUME p = Launcher
        PROVE  /\ pc'[p] # "waiting" /\ pc[p] # "waiting"
               /\ pc'[p] \in {"hoswap"} \cup PinPC =>
                    pc[p] \in {"hoswap"} \cup PinPC
               /\ Unhanded' => Unhanded BY <1>0, <1>a, <2>2, ProcFacts DEF Unhanded, PinFailed, RoleOK,
       TargetOK, GuardOK
  <2>3. ASSUME p = Daemon
        PROVE  /\ DaemonInv' /\ pc'[p] # "unborn"
               /\ Returning' => Returning
    BY <1>0, <1>a, <1>b, <1>2, <2>3, ProcFacts DEF DaemonInv, Returning,
       LauncherInv, Same, PinFailed, RoleOK, TargetOK, GuardOK
  <2> QED BY <2>1, <2>2, <2>3, ProcFacts DEF Modest
<1>4. ReturnOK(p)'
  <2>1. TokenOK(p)' BY <1>0, <1>a, <1>b DEF ReturnOK, TokenOK
  <2>2. ReleaseOK(p)' BY <1>0, <1>a, <1>b, <1>2, ProcFacts DEF ReturnOK, ReleaseOK, Live, Taken,
       TargetOK, BoundOK, Same
  <2>3. ClaimOK(p)' BY <1>b DEF ClaimOK, Claims
  <2>4. Remembered(p)'
    <3>1. \A n \in 1..Len(rec) : Live(n)' => Live(n) BY <1>b, <1>2, <1>3 DEF Live, Modest, Same
    <3>2. ASSUME NEW n \in 1..Len(rec), n = rec[fd[p]].nonce, Live(n)'
          PROVE  FALSE
      <4>1. /\ path = fd[p] /\ path \in 1..Len(rec) /\ rec[path].nonce = n
            /\ ProcInv(Launcher) BY <1>0, <1>a, <3>2, ProcFacts DEF BoundOK, FlockOK, TypedNow, Inv
      <4>2. n = guard[Launcher] /\ (Taken \/ pc[Launcher] = "waiting")
        BY <1>b, <1>2, <1>3, <3>2 DEF Live, Modest, Same
      <4>3. pc[Launcher] = "waiting" /\ n \in active /\ n \notin withdrawn
        BY <1>0, <4>1, <4>2 DEF TakenInv, WaitInv, RecordInv
      <4>4. rec[path].pid = Launcher BY <1>0, <4>1, <4>2, <4>3, ProcFacts
        DEF RecordInv, GuardOK, Owner, HandInv, Unhanded
      <4> QED BY <1>0, <1>a, <4>1, <4>3, <4>4 DEF ReturnOK, TokenOK, AliveOK
    <3>3. ASSUME NEW n \in 1..Len(rec), Forgets(p, n)', n # rec[fd[p]].nonce
          PROVE  Forgets(p, n) BY <1>0, <1>a, <1>b, <3>3, ProcFacts
      DEF Forgets, Returning, Dismissed, TargetOK, RoleOK
    <3> QED BY <1>0, <1>b, <3>1, <3>2, <3>3 DEF ReturnOK, Remembered
  <2> QED BY <2>1, <2>2, <2>3, <2>4 DEF ReturnOK
<1>5. path # 0 /\ pc[Launcher] = "waiting" =>
        rec[path] # Owner(Launcher, guard[Launcher])
  <2>1. AliveOK(Launcher) BY ProcFacts DEF Inv
  <2> QED BY <1>0, <1>a, <2>1
          DEF ReturnOK, TokenOK, BoundOK, AliveOK, Owner, WaitInv, RecordInv
<1> QED BY <1>1, <1>3, <1>4, <1>5, <1>b, GoneReturn

(* The lock is created or found in the way. *)
LEMMA AcquireReturn ==
  ASSUME Inv, Inv', Back, NEW p \in Proc, Acquire(p)
  PROVE  Back'
<1>0. TypeOK /\ Before(p) /\ ProcInv(p)' BY BeforeFacts, ProcFacts DEF Inv
<1>a. /\ pc[p] \in {"idle", "busy"} /\ Stays(p) /\ Keeps(p) /\ alive' = alive
      /\ pc'[p] = "open" \/ pc'[p] = "read"
      /\ path # 0 => pc'[p] = "open"
      /\ path = 0 => pc'[p] = "read"
  BY <1>0, ProcFacts DEF TypeOK, TypedNow, Acquire, Go, fileVars, effects,
     Unlink
<1>b. /\ UNCHANGED <<active, withdrawn, guard>>
      /\ \/ path = 0 /\ Linked(p, Len(rec) + 1)
         \/ path' = path /\ rec' = rec
  BY <1>0, LinkFacts, SMTT(40) DEF TypeOK, TypedNow, Fresh, Acquire, Go, fileVars,
     effects, Unlink
<1>1. Others(p) BY <1>0 DEF TypeOK, Others, Acquire, Go, fileVars, effects, Unlink
<1>2. (p # Launcher => Same(Launcher)) /\ (p # Daemon => Same(Daemon))
  BY <1>0, <1>1, OthersSame, ProcFacts
<1>3. Modest(p)
  <2>1. Taken' => Taken BY <1>0, <1>a, <1>2, ProcFacts DEF Taken, Same, PinFailed, RoleOK,
       TargetOK, GuardOK, DaemonInv
  <2>2. ASSUME p = Launcher
        PROVE  /\ pc'[p] # "waiting" /\ pc[p] # "waiting"
               /\ pc'[p] \in {"hoswap"} \cup PinPC =>
                    pc[p] \in {"hoswap"} \cup PinPC
               /\ Unhanded' => Unhanded BY <1>0, <1>a, <2>2, ProcFacts DEF Unhanded, PinFailed, RoleOK,
       TargetOK, GuardOK
  <2>3. ASSUME p = Daemon
        PROVE  /\ DaemonInv' /\ pc'[p] # "unborn"
               /\ Returning' => Returning
    BY <1>0, <1>a, <1>b, <1>2, <2>3, ProcFacts DEF DaemonInv, Returning,
       LauncherInv, Same, PinFailed, RoleOK, TargetOK, GuardOK
  <2> QED BY <2>1, <2>2, <2>3, ProcFacts DEF Modest
<1>4. ReturnOK(p)'
  <2>1. TokenOK(p)' BY <1>a DEF TokenOK
  <2>2. ReleaseOK(p)' BY <1>a DEF ReleaseOK
  <2>3. ClaimOK(p)' BY <1>0, <1>a, <1>b, ProcFacts
    DEF ReturnOK, ClaimOK, Claims, OwnClaim, Inherited, Linked
  <2>4. Remembered(p)' BY <1>0, <1>a, ProcFacts
    DEF Remembered, Forgets, Returning, Dismissed, RoleOK
  <2> QED BY <2>1, <2>2, <2>3, <2>4 DEF ReturnOK
<1>5. CASE path = 0 /\ Linked(p, Len(rec) + 1) BY <1>1, <1>3, <1>4, <1>5, <1>b, NewReturn
<1>6. CASE path' = path /\ rec' = rec BY <1>1, <1>3, <1>4, <1>6, <1>b, StillReturn
<1> QED BY <1>b, <1>5, <1>6

(* The lock is created at the second try or not. *)
LEMMA CreateAgainReturn ==
  ASSUME Inv, Inv', Back, NEW p \in Proc, CreateAgain(p)
  PROVE  Back'
<1>0. TypeOK /\ Before(p) /\ ProcInv(p)' BY BeforeFacts, ProcFacts DEF Inv
<1>a. /\ pc[p] = "again" /\ Stays(p) /\ Keeps(p) /\ alive' = alive
      /\ pc'[p] = "busy" \/ pc'[p] = "read"
      /\ path # 0 => pc'[p] = "busy"
      /\ path = 0 => pc'[p] = "read" BY <1>0, ProcFacts DEF TypeOK, TypedNow, CreateAgain, Go, fileVars,
     effects, Unlink
<1>b. /\ UNCHANGED <<active, withdrawn, guard>>
      /\ \/ path = 0 /\ Linked(p, Len(rec) + 1)
         \/ path' = path /\ rec' = rec BY SMTT(60), <1>0, LinkFacts DEF TypeOK, TypedNow, Fresh, CreateAgain, Go,
     fileVars, effects, Unlink
<1>1. Others(p) BY <1>0 DEF TypeOK, Others, CreateAgain, Go, fileVars, effects, Unlink
<1>2. (p # Launcher => Same(Launcher)) /\ (p # Daemon => Same(Daemon))
  BY <1>0, <1>1, OthersSame, ProcFacts
<1>3. Modest(p)
  <2>1. Taken' => Taken BY <1>0, <1>a, <1>2, ProcFacts DEF Taken, Same, PinFailed, RoleOK,
       TargetOK, GuardOK, DaemonInv
  <2>2. ASSUME p = Launcher
        PROVE  /\ pc'[p] # "waiting" /\ pc[p] # "waiting"
               /\ pc'[p] \in {"hoswap"} \cup PinPC =>
                    pc[p] \in {"hoswap"} \cup PinPC
               /\ Unhanded' => Unhanded BY <1>0, <1>a, <2>2, ProcFacts DEF Unhanded, PinFailed, RoleOK,
       TargetOK, GuardOK
  <2>3. ASSUME p = Daemon
        PROVE  /\ DaemonInv' /\ pc'[p] # "unborn"
               /\ Returning' => Returning
    BY <1>0, <1>a, <1>b, <1>2, <2>3, ProcFacts DEF DaemonInv, Returning,
       LauncherInv, Same, PinFailed, RoleOK, TargetOK, GuardOK
  <2> QED BY <2>1, <2>2, <2>3, ProcFacts DEF Modest
<1>4. ReturnOK(p)'
  <2>1. TokenOK(p)' BY <1>a DEF TokenOK
  <2>2. ReleaseOK(p)' BY <1>a DEF ReleaseOK
  <2>3. ClaimOK(p)' BY <1>0, <1>a, <1>b, ProcFacts
    DEF ReturnOK, ClaimOK, Claims, OwnClaim, Inherited, Linked
  <2>4. Remembered(p)' BY <1>0, <1>a, ProcFacts
    DEF Remembered, Forgets, Returning, Dismissed, RoleOK
  <2> QED BY <2>1, <2>2, <2>3, <2>4 DEF ReturnOK
<1>5. CASE path = 0 /\ Linked(p, Len(rec) + 1) BY <1>1, <1>3, <1>4, <1>5, <1>b, NewReturn
<1>6. CASE path' = path /\ rec' = rec BY <1>1, <1>3, <1>4, <1>6, <1>b, StillReturn
<1> QED BY <1>b, <1>5, <1>6

(* A thief creates the lock or is too late. *)
LEMMA ReplaceReturn ==
  ASSUME Inv, Inv', Back, NEW p \in Proc, Replace(p)
  PROVE  Back'
<1>0. TypeOK /\ Before(p) /\ ProcInv(p)' BY BeforeFacts, ProcFacts DEF Inv
<1>a. /\ pc[p] = "replace" /\ Stays(p) /\ Keeps(p) /\ alive' = alive
      /\ pc'[p] = "cleanup" /\ ret'[p] \in {"read", "busy"}
      /\ path # 0 => ret'[p] = "busy"
      /\ path = 0 => ret'[p] = "read"
  BY <1>0, ProcFacts DEF TypeOK, TypedNow, Replace, Go, fileVars, effects,
     Unlink
<1>b. /\ UNCHANGED <<active, withdrawn, guard>>
      /\ \/ path = 0 /\ Linked(p, Len(rec) + 1)
         \/ path' = path /\ rec' = rec
  BY SMTT(60), <1>0, LinkFacts DEF TypeOK, TypedNow, Fresh, Replace, Go, fileVars,
     effects, Unlink
<1>1. Others(p) BY <1>0 DEF TypeOK, Others, Replace, Go, fileVars, effects, Unlink
<1>2. (p # Launcher => Same(Launcher)) /\ (p # Daemon => Same(Daemon))
  BY <1>0, <1>1, OthersSame, ProcFacts
<1>3. Modest(p)
  <2>1. Taken' => Taken BY <1>0, <1>a, <1>2, ProcFacts DEF Taken, Same, PinFailed, RoleOK,
       TargetOK, GuardOK, DaemonInv
  <2>2. ASSUME p = Launcher
        PROVE  /\ pc'[p] # "waiting" /\ pc[p] # "waiting"
               /\ pc'[p] \in {"hoswap"} \cup PinPC =>
                    pc[p] \in {"hoswap"} \cup PinPC
               /\ Unhanded' => Unhanded BY <1>0, <1>a, <2>2, ProcFacts DEF Unhanded, PinFailed, RoleOK,
       TargetOK, GuardOK
  <2>3. ASSUME p = Daemon
        PROVE  /\ DaemonInv' /\ pc'[p] # "unborn"
               /\ Returning' => Returning
    BY <1>0, <1>a, <1>b, <1>2, <2>3, ProcFacts DEF DaemonInv, Returning,
       LauncherInv, Same, PinFailed, RoleOK, TargetOK, GuardOK
  <2> QED BY <2>1, <2>2, <2>3, ProcFacts DEF Modest
<1>4. ReturnOK(p)'
  <2>1. TokenOK(p)' BY <1>a DEF TokenOK
  <2>2. ReleaseOK(p)' BY <1>a DEF ReleaseOK
  <2>3. ClaimOK(p)' BY <1>0, <1>a, <1>b, ProcFacts
    DEF ReturnOK, ClaimOK, Claims, OwnClaim, Inherited, Linked
  <2>4. Remembered(p)' BY <1>0, <1>a, ProcFacts
    DEF Remembered, Forgets, Returning, Dismissed, RoleOK
  <2> QED BY <2>1, <2>2, <2>3, <2>4 DEF ReturnOK
<1>5. CASE path = 0 /\ Linked(p, Len(rec) + 1) BY <1>1, <1>3, <1>4, <1>5, <1>b, NewReturn
<1>6. CASE path' = path /\ rec' = rec BY <1>1, <1>3, <1>4, <1>6, <1>b, StillReturn
<1> QED BY <1>b, <1>5, <1>6

(* The guard's nonce is read back. *)
LEMMA ReadGuardReturn ==
  ASSUME Inv, Inv', Back, NEW p \in Proc, ReadGuard(p)
  PROVE  Back'
<1>0. TypeOK /\ Before(p) /\ ProcInv(p)' BY BeforeFacts, ProcFacts DEF Inv
<1>a. /\ pc[p] = "read" /\ Stays(p) /\ tgt'[p] = tgt[p] /\ ret'[p] = ret[p]
      /\ pc'[p] = "held" /\ guard'[p] = path /\ alive' = alive
      /\ path \in 1..Len(rec) /\ rec[path].pid = p /\ rec[path].nonce = path
  BY SMTT(60), <1>0, ProcFacts DEF TypeOK, TypedNow, ReadGuard, Go, fileVars, effects,
     OwnOK
<1>b. UNCHANGED <<path, rec, active, withdrawn>> BY DEF ReadGuard, Go, fileVars, effects
<1>1. Others(p) BY <1>0 DEF TypeOK, Others, ReadGuard, Go, fileVars, effects
<1>2. (p # Launcher => Same(Launcher)) /\ (p # Daemon => Same(Daemon))
  BY <1>0, <1>1, OthersSame, ProcFacts
<1>3. ReturnOK(p)'
  <2>1. TokenOK(p)' BY <1>a DEF TokenOK
  <2>2. ReleaseOK(p)' BY <1>a DEF ReleaseOK
  <2>3. ClaimOK(p)' BY <1>a, <1>b DEF ClaimOK, Claims, OwnClaim
  <2>4. Remembered(p)' BY <1>a, ProcFacts DEF Remembered, Forgets, Returning, Dismissed
  <2> QED BY <2>1, <2>2, <2>3, <2>4 DEF ReturnOK
<1>4. Taken' => Taken /\ p # Launcher BY <1>0, <1>a, <1>2, ProcFacts DEF Taken, Same, LauncherInv
<1>5. Careful(p)
  <2>1. Grows BY <1>0, <1>b, SameGrows
  <2>2. \A n \in 1..Len(rec) : Live(n)' => Live(n) BY <1>a, <1>b, <1>2, <1>4 DEF Live, Same
  <2>3. guard'[Launcher] = guard[Launcher] \/ p = Launcher BY <1>2 DEF Same
  <2>4. /\ path' \in {path, 0} /\ rec' = rec
        /\ active' = active /\ withdrawn' = withdrawn BY <1>b
  <2> QED BY <1>a, <2>1, <2>2, <2>3, <2>4 DEF Careful
<1>6. Orderly(p)
  <2>1. p = Launcher => HandInv' BY <1>0, <1>a, <1>b, ProcFacts DEF HandInv, LauncherInv, RecordInv
  <2>2. p = Daemon => DaemonInv' BY <1>0, <1>a, <1>2, ProcFacts DEF DaemonInv, Same, LauncherInv
  <2>3. p = Daemon => ~Returning' BY <1>a DEF Returning
  <2>4. pc[Launcher] = "waiting" => guard[Launcher] \in active' BY <1>0, <1>b DEF WaitInv
  <2> QED BY <1>0, <1>a, <1>b, <1>4, <2>1, <2>2, <2>3, <2>4
          DEF Orderly, TypedNow
<1> QED BY <1>1, <1>3, <1>5, <1>6, OneReturn

(* The daemon makes the claim its own. *)
LEMMA TakeClaimReturn ==
  ASSUME Inv, Inv', Back, TakeClaim
  PROVE  Back'
<1>0. /\ TypeOK /\ Before(Daemon) /\ ProcInv(Daemon)' /\ ProcInv(Launcher)
      /\ ReturnOK(Launcher) /\ Daemon \in Proc /\ Launcher # Daemon
      /\ Len(rec) \in Nat BY BeforeFacts, ProcFacts, NonceRange DEF Inv, Back
<1>a. /\ pc[Daemon] = "take" /\ pc'[Daemon] = "unlock" /\ Stays(Daemon)
      /\ tgt'[Daemon] = tgt[Daemon] /\ ret'[Daemon] = "serving"
      /\ guard'[Daemon] = Len(rec) + 1
      /\ path = fd[Daemon] /\ path \in 1..Len(rec) /\ alive' = alive
  BY <1>0 DEF TypeOK, TypedNow, TakeClaim, Go, fileVars, effects, BoundOK,
     FlockOK, Fresh
<1>b. UNCHANGED <<active, withdrawn>> /\ Linked(Daemon, Len(rec) + 1)
  BY <1>0, <1>a, LinkFacts DEF TakeClaim, Fresh
<1>1. Others(Daemon) BY <1>0 DEF TypeOK, Others, TakeClaim, Go, fileVars, effects
<1>2. Same(Launcher) BY <1>0, <1>1, OthersSame, ProcFacts
<1>3. /\ rec[path].pid = Launcher /\ rec[path].nonce = guard[Launcher]
      /\ guard[Launcher] \in 1..Len(rec) BY <1>0, <1>a, NonceRange, ProcFacts
  DEF TargetOK, DaemonInv, LauncherInv
<1>c. /\ path' = Len(rec) + 1 /\ Len(rec') = path'
      /\ rec'[path'].pid = Daemon /\ rec'[path'].nonce = path'
      /\ active' = active /\ withdrawn' = withdrawn
      /\ guard'[Launcher] = guard[Launcher] /\ pc'[Launcher] = pc[Launcher]
  BY <1>b, <1>2 DEF Linked, Same
<1>4. ReturnOK(Daemon)'
  <2>1. TokenOK(Daemon)' BY <1>a DEF TokenOK
  <2>2. ReleaseOK(Daemon)' BY <1>a DEF ReleaseOK
  <2>3. ClaimOK(Daemon)' BY <1>a, <1>c DEF ClaimOK, Claims, OwnClaim
  <2>4. Remembered(Daemon)' BY <1>a DEF Remembered, Forgets, Returning, Dismissed
  <2> QED BY <2>1, <2>2, <2>3, <2>4 DEF ReturnOK
<1>5. Careful(Daemon)
  <2>1. \A n \in 1..Len(rec) : Live(n)' => Live(n) BY <1>0, <1>a, <1>c, <1>3 DEF Live
  <2> QED BY <1>b, <1>c, <2>1 DEF Careful, Linked
<1>6. TakenInv'
  <2>1. \/ Launcher \notin alive \/ guard[Launcher] \in withdrawn
        \/ pc[Launcher] = "waiting" BY <1>0, <1>a, <1>3
    DEF ReturnOK, ClaimOK, Claims, OwnClaim, Inherited, LauncherInv
  <2> QED BY <1>0, <1>a, <1>c, <1>3, <2>1 DEF TakenInv
<1>7. Orderly(Daemon)
  <2>1. DaemonInv' BY <1>0, <1>a, <1>c, <1>2 DEF DaemonInv, Same, LauncherInv
  <2>2. ~Returning' BY <1>a DEF Returning
  <2>3. pc[Launcher] = "waiting" => guard[Launcher] \in active' BY <1>0, <1>c DEF WaitInv
  <2> QED BY <1>0, <1>a, <1>c, <1>6, <2>1, <2>2, <2>3 DEF Orderly
<1> QED BY <1>0, <1>1, <1>4, <1>5, <1>7, OneReturn

(* The launcher hands its claim over to a gated daemon. *)
LEMMA HandOverReturn ==
  ASSUME Inv, Inv', Back, HandOver
  PROVE  Back'
<1>0. /\ TypeOK /\ Before(Launcher) /\ ProcInv(Launcher)' /\ ProcInv(Daemon)
      /\ Launcher \in Proc /\ Daemon \in Proc /\ Launcher # Daemon
      /\ Len(rec) \in Nat BY BeforeFacts, ProcFacts, NonceRange DEF Inv
<1>a. /\ pc[Launcher] = "hoswap" /\ pc'[Launcher] = "unpin"
      /\ Stays(Launcher) /\ Keeps(Launcher) /\ ret'[Launcher] = "handed"
      /\ path = fd[Launcher] /\ path \in 1..Len(rec) /\ alive' = alive
      /\ guard[Launcher] = rec[path].nonce
      /\ guard[Launcher] \in 1..Len(rec)
  BY <1>0, NonceRange DEF TypeOK, TypedNow, HandOver, Go, fileVars, effects,
     BoundOK, FlockOK, OwnOK, GuardOK
<1>b. /\ UNCHANGED <<active, withdrawn, guard>>
      /\ Linked(Daemon, guard[Launcher]) BY <1>0, <1>a, LinkFacts DEF HandOver, TypedNow
<1>1. Others(Launcher) BY <1>0 DEF TypeOK, Others, HandOver, Go, fileVars, effects
<1>2. Same(Daemon) BY <1>0, <1>1, OthersSame
<1>3. pc[Daemon] \in {"gated", "dead"} /\ ~Taken BY <1>0, <1>a DEF LauncherInv, DaemonInv, Taken
<1>c. /\ path' = Len(rec) + 1 /\ Len(rec') = path'
      /\ rec'[path'].pid = Daemon /\ rec'[path'].nonce = guard[Launcher]
      /\ active' = active /\ withdrawn' = withdrawn /\ guard' = guard
      /\ pc'[Daemon] = pc[Daemon] /\ ret'[Daemon] = ret[Daemon] BY <1>b, <1>2 DEF Linked, Same
<1>4. ReturnOK(Launcher)'
  <2>1. TokenOK(Launcher)' BY <1>0, <1>a, <1>c DEF TokenOK
  <2>2. ReleaseOK(Launcher)' BY <1>a DEF ReleaseOK
  <2>3. ClaimOK(Launcher)' BY <1>0, <1>c DEF ClaimOK, Claims
  <2>4. Remembered(Launcher)' BY <1>0, <1>a DEF Remembered, Forgets
  <2> QED BY <2>1, <2>2, <2>3, <2>4 DEF ReturnOK
<1>5. Careful(Launcher)
  <2>1. \A n \in 1..Len(rec) : Live(n)' => Live(n) BY <1>0, <1>a, <1>c, <1>3 DEF Live, Taken
  <2>2. ClaimOK(Daemon)' BY <1>0, <1>a, <1>c, <1>3 DEF ClaimOK, Claims, Inherited, AliveOK
  <2> QED BY <1>0, <1>b, <1>c, <2>1, <2>2 DEF Careful, Linked
<1>6. Orderly(Launcher)
  <2>1. TakenInv' BY <1>3, <1>c DEF TakenInv, Taken
  <2>2. ~Unhanded' BY <1>a DEF Unhanded
  <2>3. WaitInv' BY <1>a DEF WaitInv
  <2> QED BY <1>0, <1>a, <1>c, <2>1, <2>2, <2>3 DEF Orderly
<1> QED BY <1>0, <1>1, <1>4, <1>5, <1>6, OneReturn

(* The daemon swaps the launcher's claim back. *)
LEMMA HandBackSwapReturn ==
  ASSUME Inv, Inv', Back, HandBackSwap
  PROVE  Back'
<1>0. /\ TypeOK /\ Before(Daemon) /\ ProcInv(Daemon)' /\ ProcInv(Launcher)
      /\ Launcher \in Proc /\ Daemon \in Proc /\ Launcher # Daemon
      /\ Len(rec) \in Nat BY BeforeFacts, ProcFacts, NonceRange DEF Inv
<1>a. /\ pc[Daemon] = "hbswap" /\ pc'[Daemon] = "unpin"
      /\ Stays(Daemon) /\ Keeps(Daemon) /\ ret'[Daemon] = "hbtoken"
      /\ path = fd[Daemon] /\ path \in 1..Len(rec) /\ alive' = alive
      /\ guard[Daemon] = rec[path].nonce /\ guard[Daemon] # 0
      /\ guard[Launcher] \in 1..Len(rec)
  BY <1>0, NonceRange DEF TypeOK, TypedNow, HandBackSwap, Go, fileVars,
     effects, BoundOK, FlockOK, OwnOK, GuardOK, LauncherInv
<1>b. /\ UNCHANGED <<active, withdrawn, guard>>
      /\ Linked(Launcher, guard[Launcher]) BY <1>0, <1>a, LinkFacts DEF HandBackSwap, TypedNow
<1>1. Others(Daemon) BY <1>0 DEF TypeOK, Others, HandBackSwap, Go, fileVars, effects
<1>2. Same(Launcher) BY <1>0, <1>1, OthersSame
<1>3. Taken /\ guard[Daemon] # guard[Launcher] BY <1>0, <1>a, GuardsDiffer DEF Taken
<1>c. /\ path' = Len(rec) + 1 /\ Len(rec') = path'
      /\ rec'[path'].pid = Launcher /\ rec'[path'].nonce = guard[Launcher]
      /\ rec'[path'] = Owner(Launcher, guard[Launcher])
      /\ active' = active /\ withdrawn' = withdrawn /\ guard' = guard
      /\ pc'[Launcher] = pc[Launcher] BY <1>b, <1>2 DEF Linked, Same
<1>4. ReturnOK(Daemon)'
  <2>1. TokenOK(Daemon)' BY <1>0, <1>a, <1>c DEF TokenOK
  <2>2. ReleaseOK(Daemon)' BY <1>a DEF ReleaseOK
  <2>3. ClaimOK(Daemon)' BY <1>0, <1>c DEF ClaimOK, Claims
  <2>4. Remembered(Daemon)' BY <1>a, <1>c, <1>3 DEF Remembered, Forgets, Live, Dismissed
  <2> QED BY <2>1, <2>2, <2>3, <2>4 DEF ReturnOK
<1>5. Careful(Daemon)
  <2>1. \A n \in 1..Len(rec) : Live(n)' => Live(n) BY <1>0, <1>a, <1>c, <1>3 DEF Live
  <2>2. ClaimOK(Launcher)' BY <1>0, <1>a, <1>c, <1>3 DEF ClaimOK, Claims, OwnClaim, TakenInv
  <2> QED BY <1>0, <1>b, <1>c, <2>1, <2>2 DEF Careful, Linked
<1>6. Orderly(Daemon)
  <2>1. TakenInv' BY <1>a DEF TakenInv, Taken
  <2>2. DaemonInv' BY <1>0, <1>a, <1>c, <1>2 DEF DaemonInv, Same, LauncherInv
  <2>3. WaitInv' BY <1>0, <1>c DEF WaitInv
  <2> QED BY <1>0, <1>a, <1>c, <2>1, <2>2, <2>3 DEF Orderly
<1> QED BY <1>0, <1>1, <1>4, <1>5, <1>6, OneReturn

(* A thief removes the token of a dead owner's claim.  The nonce is the *)
(* lock's, and whoever else may care for it is dead. *)
LEMMA ForgetTokenReturn ==
  ASSUME Inv, Inv', Back, NEW p \in Proc, ForgetToken(p)
  PROVE  Back'
<1>0. /\ TypeOK /\ Before(p) /\ Launcher \in Proc /\ Daemon \in Proc
      /\ Launcher # Daemon /\ ProcInv(Launcher) /\ ProcInv(Daemon) BY BeforeFacts, ProcFacts DEF Inv
<1>a. /\ pc[p] = "forget" /\ pc'[p] = "unlink" /\ Stays(p) /\ Keeps(p)
      /\ ret'[p] = ret[p] /\ alive' = alive
      /\ path = fd[p] /\ path \in 1..Len(rec) /\ rec[path].pid \notin alive
  BY <1>0 DEF TypeOK, TypedNow, ForgetToken, Go, fileVars, effects, BoundOK,
     FlockOK, VictimOK
<1>b. UNCHANGED <<path, rec, guard, alive>> BY DEF ForgetToken
<1>c. /\ active' = active \ {rec[path].nonce}
      /\ withdrawn' = withdrawn \ {rec[path].nonce} BY <1>a DEF ForgetToken, RemoveToken
<1>1. Others(p) BY <1>0 DEF TypeOK, Others, ForgetToken, Go, fileVars, effects
<1>2. \A q \in Proc \ {p} : Same(q) BY <1>0, <1>1, OthersSame
<1>3. /\ Taken' = Taken /\ Returning' = Returning /\ Dismissed' = Dismissed
      /\ Unhanded' = Unhanded
      /\ (pc'[Launcher] = "waiting") = (pc[Launcher] = "waiting")
  BY <1>0, <1>a, <1>2 DEF Taken, Returning, Dismissed, Unhanded, Same
<1>4. pc[Launcher] \in {"waiting"} \cup ReleasePC =>
        rec[path].nonce # guard[Launcher] \/ rec[path].pid = Launcher
  BY <1>0, <1>a DEF RecordInv, GuardOK, Owner, HandInv, Unhanded, LauncherInv
<1>5. ASSUME NEW q \in Proc PROVE ReturnOK(q)'
  <2>0. ProcInv(q) /\ ReturnOK(q) /\ PairInv(p, q) /\ TypedNow(q) BY <1>0, TypesBefore DEF Inv, Back
  <2>1. q = p \/ Same(q) BY <1>2
  <2>2. TokenOK(q)' BY <1>0, <1>a, <1>b, <1>c, <2>0, <2>1
    DEF ReturnOK, TokenOK, Same, PairInv, FlockOK, BoundOK
  <2>3. ReleaseOK(q)'
    <3>1. SUFFICES ASSUME q # p, pc[q] \in ReleasePC
                   PROVE  ReleaseOK(q)' BY <1>a, <2>1 DEF ReleaseOK, Same
    <3>2. ASSUME tgt[q].nonce # 0, tgt[q].nonce = rec[path].nonce
          PROVE  tgt[q].pid \notin alive
      <4>1. tgt[q].nonce = guard[tgt[q].pid] /\ tgt[q].pid \in Proc
        BY <2>0, <3>1, <3>2 DEF ReturnOK, ReleaseOK, TypedNow
      <4>2. \A x \in Proc : guard[x] # 0 => rec[guard[x]].pid = x
        <5>1. TAKE x \in Proc
        <5>2. GuardOK(x) BY DEF Inv
        <5> QED BY <5>2 DEF GuardOK, Owner
      <4>3. CASE rec[path].nonce = path BY <1>a, <3>2, <4>1, <4>2, <4>3
      <4>4. CASE rec[path].nonce # path
        <5>1. rec[path].nonce = guard[Launcher] /\ guard[Launcher] # 0
              /\ rec[path].pid \in {Launcher, Daemon} BY <1>0, <1>a, <4>4 DEF RecordInv
        <5>2. tgt[q].pid = Launcher BY <1>0, <3>2, <4>1, <5>1, GuardsDiffer
        <5>3. q \in {Launcher, Daemon} BY <2>0, <3>1, <5>2 DEF TargetOK
        <5>4. CASE rec[path].pid = Launcher BY <1>a, <5>2, <5>4
        <5>5. CASE rec[path].pid = Daemon BY <1>0, <1>a, <1>4, <3>1, <5>1, <5>3, <5>5 DEF AliveOK
        <5> QED BY <5>1, <5>4, <5>5
      <4> QED BY <4>3, <4>4
    <3>3. Live(tgt[q].nonce)' => Live(tgt[q].nonce) BY <1>0, <1>b, <1>3, <2>1, <3>1 DEF Live, Same
    <3> QED BY <1>b, <1>c, <2>0, <2>1, <3>1, <3>2, <3>3
            DEF ReturnOK, ReleaseOK, Same
  <2>4. ClaimOK(q)' BY <1>a, <1>b DEF ClaimOK, Claims
  <2>5. Remembered(q)'
    <3>1. \A n \in 1..Len(rec) : Forgets(q, n)' => Forgets(q, n)
      BY <1>a, <1>b, <1>3, <2>1 DEF Forgets, Same
    <3>2. \A n \in 1..Len(rec) : Live(n)' => Live(n) BY <1>b, <1>3 DEF Live
    <3> QED BY <1>b, <2>0, <3>1, <3>2 DEF ReturnOK, Remembered
  <2> QED BY <2>2, <2>3, <2>4, <2>5 DEF ReturnOK
<1>6. TakenInv' BY <1>0, <1>a, <1>b, <1>c, <1>3 DEF TakenInv
<1>7. DaemonInv' BY <1>0, <1>a, <1>b, <1>2 DEF DaemonInv, Same, RoleOK, LauncherInv
<1>8. HandInv' BY <1>0, <1>b, <1>3 DEF HandInv
<1>9. WaitInv'
  <2>1. pc[Launcher] = "waiting" => rec[path].nonce # guard[Launcher] BY <1>0, <1>a, <1>4 DEF AliveOK
  <2> QED BY <1>0, <1>b, <1>c, <1>2, <1>3, <2>1 DEF WaitInv, Same
<1> QED BY <1>5, <1>6, <1>7, <1>8, <1>9 DEF Back

(* The launcher delegates its claim and starts the daemon. *)
LEMMA SpawnDaemonReturn ==
  ASSUME Inv, Inv', Back, SpawnDaemon
  PROVE  Back'
<1>0. /\ TypeOK /\ Before(Launcher) /\ Before(Daemon)
      /\ Launcher \in Proc /\ Daemon \in Proc /\ Launcher # Daemon BY BeforeFacts, ProcFacts
<1>a. /\ pc[Launcher] = "held" /\ pc[Daemon] = "unborn"
      /\ pc'[Launcher] = "waiting" /\ pc'[Daemon] = "pinopen"
      /\ ret'[Daemon] = "publish"
      /\ tgt'[Daemon].pid = Launcher /\ tgt'[Daemon].nonce = guard[Launcher]
  BY <1>0 DEF TypeOK, SpawnDaemon, Owner
<1>b. /\ path' = path /\ rec' = rec /\ guard' = guard /\ alive' = alive
      /\ withdrawn' = withdrawn /\ active \subseteq active'
      /\ guard[Launcher] \notin withdrawn => guard[Launcher] \in active' BY DEF SpawnDaemon, Activate
<1>1. /\ path # 0 /\ rec[path] = Owner(Launcher, guard[Launcher])
      /\ rec[path].pid = Launcher /\ rec[path].nonce = guard[Launcher]
      /\ guard[Launcher] \notin withdrawn
  <2>1. path # 0 /\ rec[path] = Owner(Launcher, guard[Launcher])
    BY <1>0, <1>a, HolderFacts DEF HolderOwnsLock
  <2> QED BY <1>0, <1>a, <2>1 DEF OwnOK, Owner
<1>2. Careful(Launcher)
  <2>1. Grows BY <1>0, <1>b, SameGrows
  <2>2. \A n \in 1..Len(rec) : Live(n)' => Live(n) BY <1>a, <1>b, <1>1 DEF Live, Taken
  <2> QED BY <1>b, <2>1, <2>2 DEF Careful
<1>3. ASSUME NEW q \in Proc PROVE ReturnOK(q)'
  <2>1. CASE q \notin {Launcher, Daemon}
    <3>1. Same(q) BY <1>0, <2>1 DEF TypeOK, SpawnDaemon, Same
    <3> QED BY <1>0, <1>2, <1>b, <2>1, <3>1, OtherReturn
  <2>2. CASE q \in {Launcher, Daemon} BY <1>0, <1>a, <1>b, <1>1, <2>2
    DEF ReturnOK, TokenOK, ReleaseOK, ClaimOK, Claims, OwnClaim, Remembered,
        Forgets, Returning, Dismissed
  <2> QED BY <2>1, <2>2
<1>4. TakenInv' /\ DaemonInv' BY <1>0, <1>a, <1>b DEF TakenInv, Taken, DaemonInv
<1>5. HandInv' BY <1>0, <1>a, <1>b DEF HandInv, Unhanded
<1>6. WaitInv' BY <1>b, <1>1 DEF WaitInv
<1> QED BY <1>3, <1>4, <1>5, <1>6 DEF Back

(* The launcher pins its claim to hand it over to a gated daemon. *)
LEMMA SpawnGatedReturn ==
  ASSUME Inv, Inv', Back, SpawnGated
  PROVE  Back'
<1>0. /\ TypeOK /\ Before(Launcher) /\ Before(Daemon)
      /\ Launcher \in Proc /\ Daemon \in Proc /\ Launcher # Daemon BY BeforeFacts, ProcFacts
<1>a. /\ pc[Launcher] = "held" /\ pc[Daemon] = "unborn"
      /\ pc'[Launcher] = "pinopen" /\ pc'[Daemon] = "gated"
      /\ ret'[Launcher] = "hoswap" BY <1>0 DEF TypeOK, SpawnGated, PinOwnClaim
<1>b. /\ path' = path /\ rec' = rec /\ guard' = guard /\ alive' = alive
      /\ withdrawn' = withdrawn /\ active \subseteq active' BY DEF SpawnGated, PinOwnClaim, Activate
<1>1. /\ path # 0 /\ rec[path].pid = Launcher
      /\ rec[path].nonce = guard[Launcher] BY <1>0, <1>a DEF OwnOK
<1>2. Careful(Launcher)
  <2>1. Grows BY <1>0, <1>b, SameGrows
  <2>2. \A n \in 1..Len(rec) : Live(n)' => Live(n) BY <1>a, <1>b, <1>1 DEF Live, Taken
  <2> QED BY <1>b, <2>1, <2>2 DEF Careful
<1>3. ASSUME NEW q \in Proc PROVE ReturnOK(q)'
  <2>1. CASE q \notin {Launcher, Daemon}
    <3>1. Same(q) BY <1>0, <2>1 DEF TypeOK, SpawnGated, PinOwnClaim, Same
    <3> QED BY <1>0, <1>2, <1>b, <2>1, <3>1, OtherReturn
  <2>2. CASE q \in {Launcher, Daemon} BY <1>0, <1>a, <1>b, <1>1, <2>2
    DEF ReturnOK, TokenOK, ReleaseOK, ClaimOK, Claims, OwnClaim, Remembered,
        Forgets, Returning, Dismissed
  <2> QED BY <2>1, <2>2
<1>4. TakenInv' /\ DaemonInv' BY <1>0, <1>a, <1>b DEF TakenInv, Taken, DaemonInv
<1>5. HandInv' BY <1>0, <1>a, <1>b DEF HandInv, Unhanded
<1>6. WaitInv' BY <1>a DEF WaitInv
<1> QED BY <1>3, <1>4, <1>5, <1>6 DEF Back

(* The gate opens. *)
LEMMA OpenGateReturn ==
  ASSUME Inv, Inv', Back, OpenGate
  PROVE  Back'
<1>0. /\ TypeOK /\ Before(Launcher) /\ Before(Daemon)
      /\ Launcher \in Proc /\ Daemon \in Proc /\ Launcher # Daemon BY BeforeFacts, ProcFacts
<1>a. /\ pc[Launcher] = "handed" /\ pc[Daemon] = "gated"
      /\ pc'[Launcher] = "done" /\ pc'[Daemon] = "pinopen"
      /\ ret'[Daemon] = "publish" /\ tgt'[Daemon].pid = Daemon BY <1>0 DEF TypeOK, OpenGate, Owner
<1>b. /\ path' = path /\ rec' = rec /\ guard' = guard /\ alive' = alive
      /\ withdrawn' = withdrawn /\ active' = active BY DEF OpenGate, fileVars
<1>2. Careful(Launcher)
  <2>1. Grows BY <1>0, <1>b, SameGrows
  <2>2. \A n \in 1..Len(rec) : Live(n)' => Live(n) BY <1>a, <1>b DEF Live, Taken
  <2> QED BY <1>b, <2>1, <2>2 DEF Careful
<1>3. ASSUME NEW q \in Proc PROVE ReturnOK(q)'
  <2>1. CASE q \notin {Launcher, Daemon}
    <3>1. Same(q) BY <1>0, <2>1 DEF TypeOK, OpenGate, Same
    <3> QED BY <1>0, <1>2, <1>b, <2>1, <3>1, OtherReturn
  <2>2. CASE q \in {Launcher, Daemon} BY <1>0, <1>a, <1>b, <2>2
    DEF ReturnOK, TokenOK, ReleaseOK, ClaimOK, Claims, OwnClaim, Inherited,
        Remembered, Forgets, Returning, Dismissed
  <2> QED BY <2>1, <2>2
<1>4. TakenInv' /\ DaemonInv' BY <1>0, <1>a, <1>b DEF TakenInv, Taken, DaemonInv
<1>5. HandInv' BY <1>0, <1>a, <1>b DEF HandInv, Unhanded
<1>6. WaitInv' BY <1>a DEF WaitInv
<1> QED BY <1>3, <1>4, <1>5, <1>6 DEF Back

----------------------------------------------------------------------------
(* The second invariant is inductive, given the first. *)

(* It holds initially: there is no claim yet. *)
LEMMA InitBack == Init => Back
<1> SUFFICES ASSUME Init PROVE Back OBVIOUS
<1>0. /\ rec = <<>> /\ Len(rec) = 0 /\ path = 0
      /\ pc[Launcher] = "idle" /\ pc[Daemon] = "unborn" /\ guard[Daemon] = 0
      /\ \A p \in Proc : pc[p] \in {"idle", "unborn"} BY ProcFacts DEF Init
<1>1. ASSUME NEW p \in Proc PROVE ReturnOK(p)
  BY <1>0 DEF ReturnOK, Remembered, TokenOK, ReleaseOK, ClaimOK, Claims
<1>2. TakenInv /\ DaemonInv /\ HandInv /\ WaitInv
  BY <1>0 DEF TakenInv, Taken, DaemonInv, HandInv, WaitInv
<1> QED BY <1>1, <1>2 DEF Back

(* Every action keeps it. *)
LEMMA StepBack == Inv /\ Inv' /\ Back /\ [Next]_vars => Back'
<1> SUFFICES ASSUME Inv, Inv', Back, [Next]_vars PROVE Back' OBVIOUS
<1>1. ASSUME NEW p \in Proc, LockStep(p) PROVE Back'
  BY <1>1, AcquireReturn, OpenStaleReturn, CreateAgainReturn,
     LockStaleReturn, JudgeReturn, ForgetTokenReturn, UnlinkStaleReturn,
     ReplaceReturn, ReadGuardReturn, CleanupReturn, SweepReturn,
     SweepTokenReturn, UnlockReturn, EndClaimReturn, ReleaseOpenReturn,
     ReleaseWithdrawReturn, ReleaseFlockReturn, ReleaseCheckReturn,
     ReleaseUnlinkReturn, ReleaseTokenReturn, PinOpenReturn, PinFlockReturn,
     PinCheckReturn, UnpinReturn, StartFenceReturn, EndFenceReturn
  DEF LockStep
<1>2. ASSUME NEW p \in Proc, Die(p) PROVE Back' BY <1>2, DieReturn
<1>3. CASE LauncherStep BY <1>3, SpawnDaemonReturn, SpawnGatedReturn, HandOverReturn,
     OpenGateReturn
  DEF LauncherStep
<1>4. CASE DaemonStep BY <1>4, GateClosedReturn, CheckPublicationReturn, PublishSessionReturn,
     TakeClaimReturn, ForkChildReturn, HandBackReturn, HandBackForgetReturn,
     HandBackSwapReturn, HandBackTokenReturn, HandBackCheckReturn,
     ReleaseOwnedReturn, GiveUpReturn, AdmitForkReturn, ForkHeldReturn
  DEF DaemonStep
<1>5. CASE UNCHANGED vars
  <2> USE <1>5 DEF vars, fileVars, procVars, effects
  <2>1. \A p \in Proc : ReturnOK(p)' BY DEF Back, ReturnOK, Remembered, Forgets, Live, Taken, Returning,
       Dismissed, TokenOK, ReleaseOK, ClaimOK, Claims, OwnClaim, Inherited
  <2>2. TakenInv' /\ DaemonInv' /\ HandInv' /\ WaitInv'
    BY DEF Back, TakenInv, Taken, DaemonInv, HandInv, Unhanded, WaitInv,
       Returning
  <2> QED BY <2>1, <2>2 DEF Back
<1> QED BY <1>1, <1>2, <1>3, <1>4, <1>5 DEF Next

(* Tokens, claims and releases stay in step, whoever runs or dies. *)
THEOREM Returns == Spec => [](Inv /\ Back)
BY InitBack, StepBack, Invariance, PTL DEF Spec

(* The second invariant says where a claim goes. *)
LEMMA ReturnFacts == Inv /\ Back => ClaimsComeBack
<1> SUFFICES ASSUME Inv, Back PROVE ClaimsComeBack OBVIOUS
<1>1. LauncherKeepsName BY DEF Back, WaitInv, Returning, LauncherKeepsName
<1>2. LeftoverIsWithdrawn
  <2>1. SUFFICES ASSUME path # 0, pc[rec[path].pid] = "done"
                 PROVE  rec[path].nonce \in withdrawn BY DEF LeftoverIsWithdrawn
  <2>2. TypeOK /\ path \in 1..Len(rec) BY SMTT(60), <2>1 DEF Inv, TypeOK
  <2>3. PICK q \in Proc : q = rec[path].pid BY <2>2, RecordTypes
  <2>4. AliveOK(q) /\ ClaimOK(q) BY DEF Inv, Back, ReturnOK
  <2> QED BY <2>1, <2>3, <2>4
          DEF AliveOK, ClaimOK, Claims, OwnClaim, Inherited
<1> QED BY <1>1, <1>2 DEF ClaimsComeBack

(* A claim has one way back.  A launcher that waits for its daemon finds *)
(* its own claim under the lock's name (delegate, hand_back), and what a *)
(* returned release left there is withdrawn, so that the next holder of *)
(* the advisory lock sweeps it (WithdrawnClaimCleanup). *)
THEOREM ClaimsReturn == Spec => []ClaimsComeBack
BY ReturnFacts, Returns, PTL

(* A step that takes a live claim away is one of its owner or its daemon. *)
LEMMA LiveFacts ==
  Inv /\ Back /\ [Next]_vars =>
    [path # 0 /\ path' # path
       /\ rec[path].pid \in alive /\ rec[path].nonce \notin withdrawn
     => \/ pc[rec[path].pid] \in {"hoswap", "hbswap"}
        \/ rec[path].pid = Launcher /\ pc[Daemon] = "take"]_vars
<1> SUFFICES ASSUME Inv, Back, Next, path # 0, path' # path,
                    rec[path].pid \in alive, rec[path].nonce \notin withdrawn
             PROVE  \/ pc[rec[path].pid] \in {"hoswap", "hbswap"}
                    \/ rec[path].pid = Launcher /\ pc[Daemon] = "take" BY DEF vars
<1>2. ASSUME NEW p \in Proc, LockStep(p) \/ Die(p)
      PROVE  pc[p] \in {"unlink", "sweep", "relunlink"}
  BY <1>2 DEF LockStep, Die, Acquire, OpenStale, CreateAgain, LockStale,
     TryFlock, Judge, ForgetToken, UnlinkStale, Replace, ReadGuard, Cleanup,
     Sweep, SweepToken, Unlock, EndClaim, Release, ReleaseOpen,
     ReleaseWithdraw, ReleaseFlock, ReleaseCheck, ReleaseUnlink,
     ReleaseToken, PinOpen, PinFlock, PinCheck, Unpin, StartFence,
     PinOwnClaim, EndFence, fileVars
<1>3. ASSUME NEW p \in Proc PROVE pc[p] \notin {"unlink", "sweep", "relunlink"}
  <2>1. ProcInv(p) /\ ReturnOK(p) BY DEF Inv, Back
  <2> QED BY <2>1 DEF ReturnOK, TokenOK, BoundOK, VictimOK
<1>4. ASSUME LauncherStep
      PROVE  pc[Launcher] = "hoswap" /\ rec[path].pid = Launcher
  <2>1. OwnOK(Launcher) BY ProcFacts DEF Inv
  <2>2. pc[Launcher] = "hoswap" BY <1>4 DEF LauncherStep, SpawnDaemon, SpawnGated, PinOwnClaim, HandOver,
       OpenGate, fileVars
  <2> QED BY <2>1, <2>2 DEF OwnOK
<1>5. ASSUME DaemonStep
      PROVE  \/ pc[Daemon] = "hbswap" /\ rec[path].pid = Daemon
             \/ pc[Daemon] = "take" /\ rec[path].pid = Launcher
  <2>1. ProcInv(Daemon) /\ DaemonInv BY ProcFacts DEF Inv, Back
  <2>2. pc[Daemon] \in {"hbswap", "take"}
    BY <1>5 DEF DaemonStep, GateClosed, CheckPublication, PublishSession,
       TakeClaim, ForkChild, HandBack, Release, PinOwnClaim, HandBackForget,
       HandBackSwap, HandBackToken, HandBackCheck, ReleaseOwned, GiveUp,
       AdmitFork, ForkHeld, fileVars
  <2> QED BY <2>1, <2>2 DEF OwnOK, TargetOK, BoundOK, DaemonInv
<1> QED BY <1>2, <1>3, <1>4, <1>5 DEF Next

(* The claim of a live owner that has not withdrawn is never stolen: only *)
(* the owner (hand_over, hand_back) and the daemon it delegated to *)
(* (into_daemon_claim) replace its entry. *)
THEOREM LiveClaims == Spec => LiveClaimIsRespected
BY LiveFacts, Returns, PTL DEF Spec, LiveClaimIsRespected

====
