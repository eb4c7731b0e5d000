--------------------------- MODULE CreationClaim ---------------------------
(***************************************************************************)
(* The creation lock <name>.lock of pty-core/src/registry/lock.rs, one     *)
(* action per system call that another process can observe.                *)
(*                                                                         *)
(* The lock is a directory entry that names an inode with the owner's pid  *)
(* and a nonce.  An advisory lock (flock) on the inode serializes whoever  *)
(* wants to replace or remove the entry, and is never waited for.  A       *)
(* token file per nonce says whether the owner's claim may be used by a    *)
(* process it delegated to, or was withdrawn.                              *)
(*                                                                         *)
(* A launcher takes the lock, delegates it to the daemon it starts (or     *)
(* hands it over to a gated one) and releases it.  The daemon pins the     *)
(* claim, publishes its session, makes the claim its own while it forks,   *)
(* and hands it back.  Contenders take the lock to change the session's    *)
(* metadata or to install a revocation fence.  Any process may die.        *)
(***************************************************************************)
EXTENDS Integers, Sequences, FiniteSets, TLC

CONSTANTS
  Launcher,    \* the process that starts the session
  Daemon,      \* the process it starts
  Contenders,  \* other processes that take the lock
  MaxDeaths    \* bound: how many processes die without returning

Proc == {Launcher, Daemon} \cup Contenders

ASSUME ProcAssumption ==
  /\ Launcher # Daemon
  /\ {Launcher, Daemon} \cap Contenders = {}
  /\ IsFiniteSet(Contenders)
  /\ MaxDeaths \in Nat

VARIABLES
  path,       \* the inode the lock's directory entry names, or 0
  rec,        \* the owner record of every inode made so far
  active,     \* nonces whose token reads 1
  withdrawn,  \* nonces whose token reads 0
  alive,      \* the processes that have not died
  pc,         \* where each process is
  fd,         \* the inode it has open, or 0
  flocked,    \* whether it has the advisory lock on that inode
  guard,      \* the nonce of the claim it took, or 0
  tgt,        \* the owner its pin or its release expects
  ret,        \* where its current procedure returns to
  fenced,     \* a revocation of this publication is installed
  published,  \* the session's publication has begun
  forked      \* its child was forked

fileVars == <<path, rec, active, withdrawn>>
procVars == <<pc, fd, flocked, guard, tgt, ret>>
effects == <<fenced, published, forked>>
vars == <<fileVars, alive, procVars, effects>>

Owner(p, n) == [pid |-> p, nonce |-> n]
None == Owner(Launcher, 0)

Labels == {"idle", "busy", "open", "again", "flock", "judge", "forget",
           "unlink", "replace", "read", "held", "cleanup", "sweep",
           "sweeptoken", "unlock", "drop", "relopen", "relwithdraw", "relflock",
           "relcheck", "relunlink", "reltoken", "pinopen", "pinflock",
           "pincheck", "fence", "unpin", "waiting", "hoswap", "handed",
           "unborn", "gated", "publish", "effect", "take", "serving",
           "handback", "hbswap", "hbtoken", "hbcheck", "hbforget",
           "owned", "retired", "admitted", "done", "dead"}

Init ==
  /\ path = 0 /\ rec = <<>> /\ active = {} /\ withdrawn = {}
  /\ alive = Proc
  /\ pc = [p \in Proc |-> IF p = Daemon THEN "unborn" ELSE "idle"]
  /\ fd = [p \in Proc |-> 0]
  /\ flocked = [p \in Proc |-> FALSE]
  /\ guard = [p \in Proc |-> 0]
  /\ tgt = [p \in Proc |-> None]
  /\ ret = [p \in Proc |-> "done"]
  /\ fenced = FALSE /\ published = FALSE /\ forked = FALSE

Go(p, label) == pc' = [pc EXCEPT ![p] = label]
Fresh == Len(rec) + 1

(* Mutant: the name appears before its owner record is written. *)
LinkEmpty(r) == path' = Fresh /\ UNCHANGED rec

(* A complete record appears under the lock's name: the hard link of *)
(* try_create and the rename of replace_owner_record. *)
Link(r) == path' = Fresh /\ rec' = Append(rec, r)

Unlink == path' = 0 /\ UNCHANGED rec

FlockFree(i) == \A q \in Proc : ~(flocked[q] /\ fd[q] = i)

(* Tokens.  A token is created once and only goes from 1 to 0; it *)
(* disappears with its claim. *)
RemoveToken(n) == active' = active \ {n} /\ withdrawn' = withdrawn \ {n}
Withdraw(n) == active' = active \ {n} /\ withdrawn' = withdrawn \cup {n}
Activate(n) ==
  /\ active' = IF n \in withdrawn THEN active ELSE active \cup {n}
  /\ UNCHANGED withdrawn

----------------------------------------------------------------------------
(* try_acquire_file_lock *)

(* try_create: no-replace.  A refused attempt is made again. *)
Acquire(p) ==
  /\ pc[p] \in {"idle", "busy"}
  /\ \/ path = 0 /\ Link(Owner(p, Fresh)) /\ Go(p, "read")
     \/ path # 0 /\ Go(p, "open") /\ UNCHANGED <<path, rec>>
  /\ UNCHANGED <<active, withdrawn, alive, fd, flocked, guard, tgt, ret, effects>>

OpenStale(p) ==
  /\ pc[p] = "open"
  /\ fd' = [fd EXCEPT ![p] = path]
  /\ Go(p, IF path = 0 THEN "again" ELSE "flock")
  /\ UNCHANGED <<fileVars, alive, flocked, guard, tgt, ret, effects>>

(* The entry was gone when it was opened: one more try_create. *)
CreateAgain(p) ==
  /\ pc[p] = "again"
  /\ \/ path = 0 /\ Link(Owner(p, Fresh)) /\ Go(p, "read")
     \/ path # 0 /\ Go(p, "busy") /\ UNCHANGED <<path, rec>>
  /\ UNCHANGED <<active, withdrawn, alive, fd, flocked, guard, tgt, ret, effects>>

(* flock without waiting: where to go on with it, and where without. *)
TryFlock(p, yes, no) ==
  /\ \/ /\ FlockFree(fd[p])
        /\ flocked' = [flocked EXCEPT ![p] = TRUE]
        /\ Go(p, yes) /\ UNCHANGED fd
     \/ /\ ~FlockFree(fd[p])
        /\ fd' = [fd EXCEPT ![p] = 0]
        /\ Go(p, no) /\ UNCHANGED flocked
  /\ UNCHANGED <<fileVars, alive, guard, tgt, ret, effects>>

LockStale(p) == pc[p] = "flock" /\ TryFlock(p, "judge", "busy")

(* Mutant: the dead owner's inode need not be the one the name leads to. *)
JudgeOpened(p) ==
  /\ pc[p] = "judge"
  /\ IF rec[fd[p]].pid \in alive
     THEN Go(p, "cleanup") /\ ret' = [ret EXCEPT ![p] = "busy"]
     ELSE Go(p, "forget") /\ UNCHANGED ret
  /\ UNCHANGED <<fileVars, alive, fd, flocked, guard, tgt, effects>>

(* Mutant: whoever gets the advisory lock takes the owner for dead. *)
JudgeAlwaysStale(p) ==
  /\ pc[p] = "judge"
  /\ Go(p, IF path = fd[p] THEN "forget" ELSE "cleanup")
  /\ ret' = [ret EXCEPT ![p] = "busy"]
  /\ UNCHANGED <<fileVars, alive, fd, flocked, guard, tgt, effects>>

(* Mutant: the claim of a dead owner is waited for like a live one's. *)
JudgeNeverStale(p) ==
  /\ pc[p] = "judge"
  /\ \/ path = 0 /\ Go(p, "replace") /\ UNCHANGED ret
     \/ path # 0 /\ Go(p, "cleanup") /\ ret' = [ret EXCEPT ![p] = "busy"]
  /\ UNCHANGED <<fileVars, alive, fd, flocked, guard, tgt, effects>>

(* steal_locked_inode: only the entry that was opened, and only from a *)
(* dead owner. *)
Judge(p) ==
  /\ pc[p] = "judge"
  /\ \/ path = 0 /\ Go(p, "replace") /\ UNCHANGED ret
     \/ /\ path # 0 /\ (path # fd[p] \/ rec[fd[p]].pid \in alive)
        /\ Go(p, "cleanup") /\ ret' = [ret EXCEPT ![p] = "busy"]
     \/ /\ path = fd[p] /\ rec[fd[p]].pid \notin alive
        /\ Go(p, "forget") /\ UNCHANGED ret
  /\ UNCHANGED <<fileVars, alive, fd, flocked, guard, tgt, effects>>

ForgetToken(p) ==
  /\ pc[p] = "forget"
  /\ RemoveToken(IF path = 0 THEN 0 ELSE rec[path].nonce)
  /\ Go(p, "unlink")
  /\ UNCHANGED <<path, rec, alive, fd, flocked, guard, tgt, ret, effects>>

UnlinkStale(p) ==
  /\ pc[p] = "unlink"
  /\ \/ path # 0 /\ Unlink /\ Go(p, "replace") /\ UNCHANGED ret
     \/ /\ path = 0 /\ UNCHANGED <<path, rec>>
        /\ Go(p, "cleanup") /\ ret' = [ret EXCEPT ![p] = "busy"]
  /\ UNCHANGED <<active, withdrawn, alive, fd, flocked, guard, tgt, effects>>

Replace(p) ==
  /\ pc[p] = "replace"
  /\ \/ /\ path = 0 /\ Link(Owner(p, Fresh))
        /\ ret' = [ret EXCEPT ![p] = "read"]
     \/ /\ path # 0 /\ UNCHANGED <<path, rec>>
        /\ ret' = [ret EXCEPT ![p] = "busy"]
  /\ Go(p, "cleanup")
  /\ UNCHANGED <<active, withdrawn, alive, fd, flocked, guard, tgt, effects>>

(* The guard's nonce is read back through the lock's name. *)
ReadGuard(p) ==
  /\ pc[p] = "read"
  /\ \/ /\ path # 0 /\ Go(p, "held")
        /\ guard' = [guard EXCEPT ![p] = rec[path].nonce]
     \/ path = 0 /\ Go(p, "busy") /\ UNCHANGED guard
  /\ UNCHANGED <<fileVars, alive, fd, flocked, tgt, ret, effects>>

----------------------------------------------------------------------------
(* WithdrawnClaimCleanup::drop and InodeLock::drop: every holder of the *)
(* advisory lock removes a withdrawn claim before it unlocks. *)

(* Mutant: a rejected attempt unlocks and leaves a withdrawn claim. *)
CleanupSkipped(p) ==
  /\ pc[p] = "cleanup" /\ Go(p, "unlock")
  /\ UNCHANGED <<fileVars, alive, fd, flocked, guard, tgt, ret, effects>>

Cleanup(p) ==
  /\ pc[p] = "cleanup"
  /\ Go(p, IF path = fd[p] /\ rec[fd[p]].nonce \in withdrawn
           THEN "sweep" ELSE "unlock")
  /\ UNCHANGED <<fileVars, alive, fd, flocked, guard, tgt, ret, effects>>

Sweep(p) ==
  /\ pc[p] = "sweep"
  /\ Unlink
  /\ Go(p, IF path = 0 THEN "unlock" ELSE "sweeptoken")
  /\ UNCHANGED <<active, withdrawn, alive, fd, flocked, guard, tgt, ret, effects>>

SweepToken(p) ==
  /\ pc[p] = "sweeptoken"
  /\ RemoveToken(rec[fd[p]].nonce)
  /\ Go(p, "unlock")
  /\ UNCHANGED <<path, rec, alive, fd, flocked, guard, tgt, ret, effects>>

Unlock(p) ==
  /\ pc[p] = "unlock"
  /\ flocked' = [flocked EXCEPT ![p] = FALSE]
  /\ fd' = [fd EXCEPT ![p] = 0]
  /\ Go(p, ret[p])
  /\ UNCHANGED <<fileVars, alive, guard, tgt, ret, effects>>

----------------------------------------------------------------------------
(* LockGuard::release and release_file_lock_checked_nonce.  A target with *)
(* nonce 0 is a release by pid alone (release_file_lock_owned_by). *)

Matches(r, t) == r.pid = t.pid /\ t.nonce \in {0, r.nonce}

(* Mutant: the claim is not withdrawn before its removal is tried. *)
ReleaseUnannounced(p, back) ==
  /\ tgt' = [tgt EXCEPT ![p] = Owner(p, guard[p])]
  /\ ret' = [ret EXCEPT ![p] = back]
  /\ Go(p, "relopen")
  /\ UNCHANGED <<fileVars, alive, fd, flocked, guard, effects>>

(* Release or drop of the guard: its delegation is withdrawn first. *)
Release(p, back) ==
  /\ Withdraw(guard[p])
  /\ tgt' = [tgt EXCEPT ![p] = Owner(p, guard[p])]
  /\ ret' = [ret EXCEPT ![p] = back]
  /\ Go(p, "relopen")
  /\ UNCHANGED <<path, rec, alive, fd, flocked, guard, effects>>

(* A guard's critical section ends, or its holder's pin failed. *)
EndClaim(p) ==
  /\ pc[p] \in {"held", "waiting", "drop"}
  /\ pc[p] = "held" => p # Daemon
  /\ Release(p, "done")

ReleaseOpen(p) ==
  /\ pc[p] = "relopen"
  /\ IF path # 0 /\ Matches(rec[path], tgt[p])
     THEN /\ fd' = [fd EXCEPT ![p] = path]
          /\ Go(p, IF tgt[p].nonce = 0 THEN "relwithdraw" ELSE "relflock")
     ELSE Go(p, ret[p]) /\ UNCHANGED fd
  /\ UNCHANGED <<fileVars, alive, flocked, guard, tgt, ret, effects>>

ReleaseWithdraw(p) ==
  /\ pc[p] = "relwithdraw"
  /\ Withdraw(rec[fd[p]].nonce)
  /\ Go(p, "relflock")
  /\ UNCHANGED <<path, rec, alive, fd, flocked, guard, tgt, ret, effects>>

(* The creation lock's release never waits: whoever has the advisory lock *)
(* is left to finish. *)
ReleaseFlock(p) == pc[p] = "relflock" /\ TryFlock(p, "relcheck", ret[p])

ReleaseCheck(p) ==
  /\ pc[p] = "relcheck"
  /\ IF tgt[p].nonce = 0 THEN Withdraw(rec[fd[p]].nonce)
     ELSE UNCHANGED <<active, withdrawn>>
  /\ Go(p, IF path = fd[p] THEN "relunlink" ELSE "cleanup")
  /\ UNCHANGED <<path, rec, alive, fd, flocked, guard, tgt, ret, effects>>

ReleaseUnlink(p) ==
  /\ pc[p] = "relunlink"
  /\ Unlink
  /\ Go(p, IF path = 0 THEN "cleanup" ELSE "reltoken")
  /\ UNCHANGED <<active, withdrawn, alive, fd, flocked, guard, tgt, ret, effects>>

ReleaseToken(p) ==
  /\ pc[p] = "reltoken"
  /\ RemoveToken(rec[fd[p]].nonce)
  /\ Go(p, "cleanup")
  /\ UNCHANGED <<path, rec, alive, fd, flocked, guard, tgt, ret, effects>>

----------------------------------------------------------------------------
(* pin_claim and PublicationLock::drop *)

(* A failed pin: a guard that was to be pinned is dropped by its caller, a *)
(* delegate without one gives up, and an operation's daemon, whose pid is *)
(* in the record, retires and releases by pid. *)
PinFailed(p) ==
  IF guard[p] # 0 THEN "drop" ELSE IF tgt[p].pid = p THEN "retired" ELSE "done"

PinOpen(p) ==
  /\ pc[p] = "pinopen"
  /\ fd' = [fd EXCEPT ![p] = path]
  /\ Go(p, IF path = 0 THEN PinFailed(p) ELSE "pinflock")
  /\ UNCHANGED <<fileVars, alive, flocked, guard, tgt, ret, effects>>

(* Mutant: a validated claim is used without its advisory lock. *)
PinUnlocked(p) ==
  /\ pc[p] = "pinflock" /\ Go(p, "pincheck")
  /\ UNCHANGED <<fileVars, alive, fd, flocked, guard, tgt, ret, effects>>

PinFlock(p) == pc[p] = "pinflock" /\ TryFlock(p, "pincheck", PinFailed(p))

(* The entry still names the opened inode, its record the expected owner, *)
(* who lives and has not withdrawn. *)
PinValid(p) ==
  /\ path = fd[p] /\ rec[fd[p]] = tgt[p]
  /\ tgt[p].pid \in alive /\ tgt[p].nonce \in active

PinCheck(p) ==
  /\ pc[p] = "pincheck"
  /\ \/ PinValid(p) /\ Go(p, ret[p]) /\ UNCHANGED ret
     \/ /\ ~PinValid(p)
        /\ Go(p, "cleanup") /\ ret' = [ret EXCEPT ![p] = PinFailed(p)]
  /\ UNCHANGED <<fileVars, alive, fd, flocked, guard, tgt, effects>>

(* Mutant: dropping the pin always removes the claim. *)
UnpinRemoves(p) ==
  /\ pc[p] = "unpin" /\ Go(p, IF path = fd[p] THEN "sweep" ELSE "unlock")
  /\ UNCHANGED <<fileVars, alive, fd, flocked, guard, tgt, ret, effects>>

(* The pin is dropped: a claim withdrawn meanwhile is removed. *)
Unpin(p) ==
  /\ pc[p] = "unpin"
  /\ Go(p, IF tgt[p].nonce \notin active /\ path = fd[p]
           THEN "sweep" ELSE "unlock")
  /\ UNCHANGED <<fileVars, alive, fd, flocked, guard, tgt, ret, effects>>

----------------------------------------------------------------------------
(* A contender may pin its own claim to install a revocation fence. *)

PinOwnClaim(p, back) ==
  /\ Activate(guard[p])
  /\ tgt' = [tgt EXCEPT ![p] = Owner(p, guard[p])]
  /\ ret' = [ret EXCEPT ![p] = back]
  /\ UNCHANGED <<path, rec, alive, fd, flocked, guard, effects>>

StartFence(c) ==
  /\ c \in Contenders /\ pc[c] = "held"
  /\ PinOwnClaim(c, "fence") /\ Go(c, "pinopen")

(* revocation::install under the pin, or its refusal. *)
EndFence(c) ==
  /\ pc[c] = "fence"
  /\ fenced' \in {fenced, TRUE}
  /\ Go(c, "unpin") /\ ret' = [ret EXCEPT ![c] = "drop"]
  /\ UNCHANGED <<fileVars, alive, fd, flocked, guard, tgt, published, forked>>

----------------------------------------------------------------------------
(* The launcher *)

(* delegate, then the daemon is started with the claim's nonce. *)
SpawnDaemon ==
  /\ pc[Launcher] = "held" /\ pc[Daemon] = "unborn"
  /\ Activate(guard[Launcher])
  /\ pc' = [pc EXCEPT ![Launcher] = "waiting", ![Daemon] = "pinopen"]
  /\ tgt' = [tgt EXCEPT ![Daemon] = Owner(Launcher, guard[Launcher])]
  /\ ret' = [ret EXCEPT ![Daemon] = "publish"]
  /\ UNCHANGED <<path, rec, alive, fd, flocked, guard, effects>>

(* An operation's daemon is started behind a gate; the claim is handed *)
(* over to it before the gate opens. *)
SpawnGated ==
  /\ pc[Launcher] = "held" /\ pc[Daemon] = "unborn"
  /\ PinOwnClaim(Launcher, "hoswap")
  /\ pc' = [pc EXCEPT ![Launcher] = "pinopen", ![Daemon] = "gated"]

HandOver ==
  /\ pc[Launcher] = "hoswap"
  /\ Link(Owner(Daemon, guard[Launcher]))
  /\ Go(Launcher, "unpin") /\ ret' = [ret EXCEPT ![Launcher] = "handed"]
  /\ UNCHANGED <<active, withdrawn, alive, fd, flocked, guard, tgt, effects>>

OpenGate ==
  /\ pc[Launcher] = "handed" /\ pc[Daemon] = "gated"
  /\ pc' = [pc EXCEPT ![Launcher] = "done", ![Daemon] = "pinopen"]
  /\ tgt' = [tgt EXCEPT ![Daemon] = Owner(Daemon, guard[Launcher])]
  /\ ret' = [ret EXCEPT ![Daemon] = "publish"]
  /\ UNCHANGED <<fileVars, alive, fd, flocked, guard, effects>>

(* The launcher abandoned its gated daemon or died: the gate reads end of *)
(* file and the daemon exits. *)
GateClosed ==
  /\ pc[Daemon] = "gated" /\ pc[Launcher] \in {"done", "dead"}
  /\ Go(Daemon, "dead") /\ alive' = alive \ {Daemon}
  /\ UNCHANGED <<fileVars, fd, flocked, guard, tgt, ret, effects>>

----------------------------------------------------------------------------
(* The daemon *)

ByOperation == tgt[Daemon].pid = Daemon

(* prepare_publication under the pin: a revoked publication is refused, *)
(* as is one of a name in use. *)
CheckPublication ==
  /\ pc[Daemon] = "publish"
  /\ \/ ~fenced /\ Go(Daemon, "effect") /\ UNCHANGED ret
     \/ /\ Go(Daemon, "unpin")
        /\ ret' = [ret EXCEPT ![Daemon] =
                     IF ByOperation THEN "retired" ELSE "done"]
  /\ UNCHANGED <<fileVars, alive, fd, flocked, guard, tgt, effects>>

(* publish_session.  An ordinary daemon then makes the claim its own, an *)
(* operation's daemon unpins and releases it; or an effect failed. *)
PublishSession ==
  /\ pc[Daemon] = "effect"
  /\ published' = TRUE
  /\ \/ ~ByOperation /\ Go(Daemon, "take") /\ UNCHANGED ret
     \/ /\ ~ByOperation /\ Go(Daemon, "unpin")
        /\ ret' = [ret EXCEPT ![Daemon] = "done"]
     \/ /\ ByOperation /\ Go(Daemon, "unpin")
        /\ \E next \in {"owned", "retired"} :
             ret' = [ret EXCEPT ![Daemon] = next]
  /\ UNCHANGED <<fileVars, alive, fd, flocked, guard, tgt, fenced, forked>>

(* into_daemon_claim: a new owner record and nonce, and the pin ends. *)
TakeClaim ==
  /\ pc[Daemon] = "take"
  /\ \/ /\ path = fd[Daemon]
        /\ Link(Owner(Daemon, Fresh))
        /\ guard' = [guard EXCEPT ![Daemon] = Fresh]
        /\ Go(Daemon, "unlock") /\ ret' = [ret EXCEPT ![Daemon] = "serving"]
     \/ /\ path # fd[Daemon] /\ UNCHANGED <<path, rec, guard>>
        /\ Go(Daemon, "unpin") /\ ret' = [ret EXCEPT ![Daemon] = "done"]
  /\ UNCHANGED <<active, withdrawn, alive, fd, flocked, tgt, effects>>

(* The child's fork succeeded, with a launcher to return the claim to or *)
(* without one, or failed. *)
ForkChild ==
  /\ pc[Daemon] = "serving"
  /\ \/ /\ forked' = TRUE
        /\ Go(Daemon, IF Launcher \in alive THEN "handback" ELSE "drop")
     \/ Go(Daemon, "drop") /\ UNCHANGED forked
  /\ UNCHANGED <<fileVars, alive, fd, flocked, guard, tgt, ret, fenced, published>>

(* Mutant: the claim is swapped back without a pin on the daemon's inode. *)
HandBackUnpinned ==
  /\ pc[Daemon] = "handback"
  /\ \/ /\ guard[Launcher] \in active
        /\ PinOwnClaim(Daemon, "hbswap") /\ Go(Daemon, "hbswap")
     \/ guard[Launcher] \notin active /\ Release(Daemon, "hbforget")

(* hand_back: a withdrawn claim is not restored, its token is removed. *)
HandBack ==
  /\ pc[Daemon] = "handback"
  /\ \/ /\ guard[Launcher] \in active
        /\ PinOwnClaim(Daemon, "hbswap") /\ Go(Daemon, "pinopen")
     \/ guard[Launcher] \notin active /\ Release(Daemon, "hbforget")

HandBackForget ==
  /\ pc[Daemon] = "hbforget"
  /\ RemoveToken(guard[Launcher])
  /\ Go(Daemon, "done")
  /\ UNCHANGED <<path, rec, alive, fd, flocked, guard, tgt, ret, effects>>

HandBackSwap ==
  /\ pc[Daemon] = "hbswap"
  /\ Link(Owner(Launcher, guard[Launcher]))
  /\ Go(Daemon, "unpin") /\ ret' = [ret EXCEPT ![Daemon] = "hbtoken"]
  /\ UNCHANGED <<active, withdrawn, alive, fd, flocked, guard, tgt, effects>>

HandBackToken ==
  /\ pc[Daemon] = "hbtoken"
  /\ RemoveToken(guard[Daemon])
  /\ Go(Daemon, "hbcheck")
  /\ UNCHANGED <<path, rec, alive, fd, flocked, guard, tgt, ret, effects>>

(* The launcher may have withdrawn while the rename was in flight. *)
HandBackCheck ==
  /\ pc[Daemon] = "hbcheck"
  /\ \/ guard[Launcher] \in active /\ Go(Daemon, "done")
        /\ UNCHANGED <<tgt, ret>>
     \/ /\ guard[Launcher] \notin active /\ Go(Daemon, "relopen")
        /\ tgt' = [tgt EXCEPT ![Daemon] = Owner(Launcher, guard[Launcher])]
        /\ ret' = [ret EXCEPT ![Daemon] = "done"]
  /\ UNCHANGED <<fileVars, alive, fd, flocked, guard, effects>>

(* release_file_lock_owned_by: an operation's daemon releases by its pid, *)
(* and takes the lock again to fork its child unless it retires. *)
ReleaseOwned ==
  /\ pc[Daemon] \in {"owned", "retired"}
  /\ tgt' = [tgt EXCEPT ![Daemon] = Owner(Daemon, 0)]
  /\ ret' = [ret EXCEPT ![Daemon] =
               IF pc[Daemon] = "owned" THEN "idle" ELSE "done"]
  /\ Go(Daemon, "relopen")
  /\ UNCHANGED <<fileVars, alive, fd, flocked, guard, effects>>

(* wait_for_metadata_lock: refused until its deadline. *)
GiveUp ==
  /\ pc[Daemon] = "busy" /\ Go(Daemon, "done")
  /\ UNCHANGED <<fileVars, alive, fd, flocked, guard, tgt, ret, effects>>

(* Mutant: the fence was checked at publication and is not checked again. *)
AdmitForkUnchecked ==
  /\ pc[Daemon] = "held" /\ Go(Daemon, "admitted")
  /\ UNCHANGED <<fileVars, alive, fd, flocked, guard, tgt, ret, effects>>

(* The fork is admitted again under the daemon's own claim. *)
AdmitFork ==
  /\ pc[Daemon] = "held"
  /\ \/ ~fenced /\ Go(Daemon, "admitted")
     \/ Go(Daemon, "drop")
  /\ UNCHANGED <<fileVars, alive, fd, flocked, guard, tgt, ret, effects>>

ForkHeld ==
  /\ pc[Daemon] = "admitted"
  /\ forked' \in {forked, TRUE}
  /\ Go(Daemon, "drop")
  /\ UNCHANGED <<fileVars, alive, fd, flocked, guard, tgt, ret, fenced, published>>

----------------------------------------------------------------------------
(* The kernel closes a dead process's descriptors, which ends its advisory *)
(* lock; the files it made stay. *)
Die(p) ==
  /\ p \in alive /\ pc[p] \notin {"unborn", "dead"}
  /\ Cardinality(Proc \ alive) < MaxDeaths
  /\ alive' = alive \ {p}
  /\ Go(p, "dead")
  /\ fd' = [fd EXCEPT ![p] = 0]
  /\ flocked' = [flocked EXCEPT ![p] = FALSE]
  /\ UNCHANGED <<fileVars, guard, tgt, ret, effects>>

LockStep(p) ==
  \/ Acquire(p) \/ OpenStale(p) \/ CreateAgain(p) \/ LockStale(p)
  \/ Judge(p) \/ ForgetToken(p) \/ UnlinkStale(p) \/ Replace(p)
  \/ ReadGuard(p)
  \/ Cleanup(p) \/ Sweep(p) \/ SweepToken(p) \/ Unlock(p)
  \/ EndClaim(p) \/ ReleaseOpen(p) \/ ReleaseWithdraw(p)
  \/ ReleaseFlock(p) \/ ReleaseCheck(p) \/ ReleaseUnlink(p)
  \/ ReleaseToken(p)
  \/ PinOpen(p) \/ PinFlock(p) \/ PinCheck(p) \/ Unpin(p)
  \/ StartFence(p) \/ EndFence(p)

LauncherStep == SpawnDaemon \/ SpawnGated \/ HandOver \/ OpenGate

DaemonStep ==
  \/ GateClosed \/ CheckPublication \/ PublishSession \/ TakeClaim
  \/ ForkChild \/ HandBack \/ HandBackForget \/ HandBackSwap
  \/ HandBackToken \/ HandBackCheck \/ ReleaseOwned \/ GiveUp
  \/ AdmitFork \/ ForkHeld

Next ==
  \/ \E p \in Proc : LockStep(p) \/ Die(p)
  \/ LauncherStep \/ DaemonStep

Spec == Init /\ [][Next]_vars

(* A live process keeps running: each critical section ends and a refused *)
(* contender polls again (wait_for_metadata_lock). *)
Fairness ==
  /\ \A p \in Contenders : WF_vars(LockStep(p))
  /\ WF_vars(LockStep(Launcher) \/ LauncherStep)
  /\ WF_vars(LockStep(Daemon) \/ DaemonStep)

FairSpec == Spec /\ Fairness
----------------------------------------------------------------------------
(* Every variable has its type. *)
TypeOK ==
  /\ rec \in Seq([pid : Proc, nonce : Nat])
  /\ path \in 0..Len(rec)
  /\ active \subseteq Nat /\ withdrawn \subseteq Nat
  /\ alive \subseteq Proc
  /\ pc \in [Proc -> Labels] /\ ret \in [Proc -> Labels]
  /\ fd \in [Proc -> 0..Len(rec)]
  /\ flocked \in [Proc -> BOOLEAN]
  /\ guard \in [Proc -> Nat]
  /\ tgt \in [Proc -> [pid : Proc, nonce : Nat]]
  /\ fenced \in BOOLEAN /\ published \in BOOLEAN /\ forked \in BOOLEAN

(* In its critical section as the owner named in the lock. *)
Holding(p) ==
  pc[p] \in {"held", "fence", "hoswap", "serving", "handback", "hbswap",
             "admitted"}

(* While a process works under its claim, the lock's name leads to its own *)
(* record: nobody replaced or removed the claim of a live holder, and the *)
(* nonce it read back is its own.  Two processes are therefore never in *)
(* their critical sections together. *)
HolderOwnsLock ==
  \A p \in Proc : Holding(p) =>
    path # 0 /\ rec[path] = Owner(p, guard[p])

(* What a daemon publishes under a pin stays exclusive until it unpins, *)
(* even if its launcher dies or releases in the meantime: the name still *)
(* leads to the pinned inode and no contender holds the lock. *)
PublicationIsExclusive ==
  pc[Daemon] \in {"publish", "effect", "take"} =>
    /\ path = fd[Daemon]
    /\ \A c \in Contenders : ~Holding(c)

(* A launcher that waits for its daemon keeps contenders out until it *)
(* releases: before its daemon made the claim its own, and again once the *)
(* daemon has swapped it back, the lock names the launcher. *)
LauncherKeepsName ==
  /\ pc[Launcher] = "waiting"
  /\ guard[Daemon] = 0 \/ pc[Daemon] \in {"hbtoken", "hbcheck"}
  => path # 0 /\ rec[path] = Owner(Launcher, guard[Launcher])

(* A claim that outlived its guard can always be removed: when the live *)
(* process the lock names has returned from its release, its claim is *)
(* marked withdrawn, so the next process to flock it sweeps it.  It is *)
(* never a live pid that nobody can steal from and nobody will release. *)
LeftoverIsWithdrawn ==
  path # 0 /\ pc[rec[path].pid] = "done" => rec[path].nonce \in withdrawn

(* A claim has one way back: to the launcher while its daemon does not own *)
(* it, and to the next contender once nobody will release it. *)
ClaimsComeBack == LauncherKeepsName /\ LeftoverIsWithdrawn

(* Whoever replaces or removes the lock's entry has the advisory lock on *)
(* the inode it named: a delayed stealer or releaser never removes a newer *)
(* claim. *)
EntryChangesUnderFlock ==
  [][path # 0 /\ path' # path =>
       \E p \in Proc : flocked[p] /\ fd[p] = path]_vars

(* The entry of a live owner that has not withdrawn is only replaced by *)
(* the owner or by the daemon it delegated to, never by a stealer. *)
LiveClaimIsRespected ==
  [][path # 0 /\ path' # path
       /\ rec[path].pid \in alive /\ rec[path].nonce \notin withdrawn
     => \/ pc[rec[path].pid] \in {"hoswap", "hbswap"}
        \/ rec[path].pid = Launcher /\ pc[Daemon] = "take"]_vars

(* Once a revocation is installed, the session it revokes is not published *)
(* and its child not forked any more: fence, publication and fork are *)
(* decided under the same claim, whoever dies in between. *)
RevocationIsFinal == [][fenced => UNCHANGED <<published, forked>>]_vars

GotIn(c) == pc[c] \in {"done", "dead"}

(* Refused contenders that keep polling get the lock in the end: a dead *)
(* owner is stolen from and a claim left behind by a release is swept. *)
ContendersGetIn ==
  \A c \in Contenders : <>GotIn(c)

(* "Every advisory-lock holder, including rejected validation attempts, *)
(* must finish cancellation before unlocking" (lock.rs): when every *)
(* release has returned and no process is inside the protocol, the lock *)
(* does not name a live process. *)
ReleaseLeavesNothing ==
  (\A p \in Proc : pc[p] \in {"idle", "busy", "done", "unborn", "dead"})
    => path = 0 \/ rec[path].pid \notin alive

(* For model checking: contenders are interchangeable. *)
Symmetry == Permutations(Contenders)
=============================================================================
