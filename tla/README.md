# pty: a TLA+ verification of its sessions, locks and operations

pty runs programs in pseudo-terminals that outlive the command that started
them. Each session has a daemon, a row of files in a registry directory, and
clients that attach over a socket. What is hard about it is not the terminal:
it is that many processes, each of which may be killed at any moment, agree
through files, locks, signals and sockets on what exists, who owns it and what
may still happen, and that the machine hands out pids and inodes again.

Source paths below are relative to `src/crates/`.

## 1. Inventory

| Part | State it keeps | Operations | What is hard | What makes it correct |
|---|---|---|---|---|
| Operation record (`pty-core/src/operation/record.rs`) | one JSON record per operation, an flock | create, compare-and-swap, exclusive and shared lock | a write that fails after its rename; a writer that died | one writer; a record that always passes `check`; final records stay |
| Operation launcher (`pty/src/cli/run_operation.rs`, `pty-lifecycle/src/launch.rs`) | session locks, its copy of the record, the daemon's gate | claim, check, fork, hand over, open the gate | two launchers; death between any two steps | at most one daemon; nothing happens behind a closed gate |
| Operation daemon (`pty/src/daemon/operation.rs`) | actor (stage, tickets, deferred transfer), worker, control thread, queues between them | decide, publish, fork, hold, transfer, retire | a retirement racing a publication or a fork; a cancel racing the decision; an exit racing the transfer | effects only with a committed ticket; every request answered; the command only after the transfer |
| Held child (`pty/src/daemon/held.rs`) | a gate shared with the daemon | prepare, acknowledge, wait, exec or leave | the daemon dies first | it never runs unreleased and never waits for ever |
| Retire and settle (`pty-core/src/operation/settle.rs`, `retire.rs`) | what they read, in sequence | take authority, kill, unwind, finish; four reads and an answer | evidence read at different moments; a name reused meanwhile | "no further effects" is true for good; other sessions are left alone |
| Registry locks, revocation (`pty-core/src/registry/lock.rs`, `revocation.rs`) | one file per lock naming its owner, token files, fences | create, check, steal, pin, hand over, hand back, release | a delayed stealer, a dead owner, a late release | mutual exclusion; a dead owner blocks nobody; a fence is final |
| Plain launch (`pty-lifecycle/src/launch.rs`, `pty/src/cli`) | a daemon per name, readiness, a deadline | run, attach -r, restart, up, down | commands racing for a name, a launch given up while the daemon publishes | one session per name; a failed launch leaves no daemon |
| Client input (`pty/src/daemon/input_budget.rs`, `lifecycle.rs`) | a byte counter, two queues | hold, forward, write, release | lost wakeups, oversize packets, clients leaving | bounded memory, no loss, no reordering, no starvation |
| Attached clients (`pty/src/daemon/clients.rs`, `geometry.rs`) | role, generation, size, pending cuts, outbound bytes | attach, peek, resize, cut, broadcast, reject | a cut left over from an earlier attach; slow clients | one SCREEN, then all data; the least size; bounded memory |
| Daemon's record, startup lease, close (`pty/src/daemon/lifecycle.rs`, `pty-lifecycle/src/startup.rs`) | metadata, sidecar, lease, exit | write with retries, freeze at the deadline, settle, close with a backstop | busy locks, a newer daemon under the name | the record follows the daemon; the first terminal value stands |
| Metadata changes (`pty-core/src/registry/mutate.rs`) | record, event lock, creation lock | patch, tag, rename, compare-and-set | two locks, waits, deaths between record and event | the events are the changes but for a dead writer's, no lost change |
| Event log and follower (`pty-core/src/events/`) | log file, writer queue, offset and snapshot | append, retain, scan, wait | truncation and regrowth between scans; inode reuse | what was read is delivered; the exit is delivered |
| Pty substrate (`pty-spawn/src/substrate.rs`, `exact.rs`) | actor, reader, reaper, writer, bounded queues, fence | output, resize, signal, input, exit | a signal after the reap; output after the exit | the stream is whole; a signal reaches the own child or nobody |
| Registry rows and listings (`pty-core/src/registry/keyed.rs`, `list.rs`) | row, pid, socket, tags; a cache | observe twice, scan strict or tolerant | files change between two reads | an answer was true at one instant |
| Stop, signal, rm, evidence (`pty-client/src/`) | an observation, a frozen tree | verify, signal, wait, verify, clean | pid reuse, a wait without locks | only what was observed is signalled or removed |
| gc and retention (`pty-lifecycle/src/gc.rs`, `retention.rs`) | a pass over all rows | orphans, abandoned, flapping, sweep | the world moves during the pass | steady, foretold by the dry run, keeps what is kept |
| Process table and tree (`pty-core/src/proctable.rs`, `process_tree.rs`) | one read of the machine | read, look up, freeze, end | rows read one after another; growth while freezing | absent means gone; the frozen tree is complete |
| Socket ownership (`pty/src/daemon/ownership.rs`) | three table reads, two looks | prove | forks and descriptor passing in between | a proof was true at one instant |
| Clients at the user's end (`pty-client/src/attach.rs`, `peek.rs`, `send.rs`, ...; `pty/src/handle.rs`) | connection, attempt, cached frame | reconnect, detach, query, wait | late and cut answers, answers of another daemon | answers are the asked daemon's; views are current |
| Wire protocol (`pty-core/src/protocol.rs`) | a partial frame | encode, feed | cuts anywhere, wrong lengths | frames come out as they went in |
| Terminal (`pty-terminal/src/`) | modes, two screens, replies, pages | write, reset, serialize, page | sequences cut by reads, limits | a late client sees what an early one sees |
| Keys and TUI (`pty-core/src/keys.rs`, `input.rs`, `pty-tui/src/`, `pty/src/interactive/`) | widget states, the picker's loop | a function of a key; pick and attach | the list changes under the cursor | the choice stays the chosen session |
| Command line (`pty/src/cli/`) | words | parse, dispatch, nesting check | | each word list does one thing or is refused |
| Test harnesses (`pty-conformance`, `tests/`) | | | | not part of the program |

How they interact: a launcher and its daemon share the operation record, the
operation lock, the creation lock and a gate pipe. The daemon's threads share
queues and atomics. Daemon and child share a gate socket, later the pty.
`retire`, `settle`, `stop`, `gc` and the listings see the others only through
files, locks and the process table. Clients reach the daemon through one socket
each, and everybody reads the event log.

`PROJECT.json` lists 40 hazards, each at its line, with the properties that
cover it.

## 2. Modules

| Module | Models |
|---|---|
| `LaunchContract`, `LaunchOperation` | what an owner is promised (abstract); the record, its `check`, and all processes around it |
| `OperationActor` | the operation's daemon, thread by thread |
| `CreationClaim` | `<name>.lock`, tokens, delegation, fence, system call by system call |
| `PlainLaunch` | the commands that start a daemon without an operation |
| `ClientInput`, `SessionClients`, `SessionRecord`, `MetadataPatch`, `EventLog`, `PtySubstrate` | a session while it is served |
| `RegistryFiles`, `KeyedObservation`, `RegistryScan` | a name's files, and the two ways to read them without a lock |
| `SessionControl`, `CollectPass`, `FreezeTree` | stop, signal, rm, gc and retention against a moving world; whole gc passes; the freeze of a tree |
| `ProcessTable`, `TableRead`, `SettleScan`, `SocketOwnership` | what is learnt of processes, and the proofs that rest on it |
| `AttachClient`, `PeerQuery`, `TerminalHandle` | the user's end of a connection |
| `WireProtocol`, `KeyInput`, `TerminalActor`, `ScreenReplay` | bytes and what they mean; the screen a late client gets, and paging through its history |
| `Widgets`, `WidgetUse`, `Picker`, `CommandLine` | the user interface |
| `MC*` | small instances and compositions |
| `*Proofs` | inductive invariants and theorems (section 5) |

Each module's head comment says what its state stands for; each action is what
one process or thread does between two points at which another could see the
difference or at which it could die, and is named after the function it models.
`PROJECT.json`'s map gives the lines. A range of source lines is named once:
helpers that share the lines of an operation are not listed again.

Operators whose comment begins with *Mutant* are deliberate mistakes: each is
a plausible bug in the definition that follows it, no specification uses it,
and putting it in place of that definition makes a property fail. They are the
evidence that the properties can fail.

### LaunchOperation

One operation from the reservation to its end. `rec`, `oplock`, `faults` are the
record, the exclusive operation lock and failed writes; `WriteCas` is
`write_cas_as`: refused unless the record on disk is the expected one and the
next one passes `check`; a fault reports an error either before the rename
("lost") or after it ("landed"). `launcher[l]`, `lrec[l]` follow `launch` from top
to bottom. `creation`, `row` are the creation lock's owner and the session's row.
`daemon` .. `recorded` are the daemon and its actor, `effect` its one ticketed
effect; `Abandon` is what every failed write leads to. `child`, `gate`, `acked`,
`execs` are the held child. `rpc` .. `retires` is `pty operation retire`; `spc`,
`srec`, `sok`, `closed` is `settle`, its four reads being four actions.
`OtherSession` is any other command that takes the creation lock and gives the
name to another session. `Crash` kills any launcher, the daemon or a retire
between any two steps. Pid reuse is left out here: the code compares start
tokens and boot ids precisely so that an identity is the process
(`SessionControl` and `PtySubstrate` have pid reuse).

### OperationActor

The same daemon from its open gate to the end of the process, thread by thread.
A thread's step is what it does between two receives; queues are sequences:
`socket` what the owner sent and nobody read, `inbox` the actor's events, `cmds`
the worker's, `msgs` the serving loop's. `doing` splits the handlers that take
several steps other threads can see. Debug builds can stop at test barriers and
read events there; the model is the release build.

### CreationClaim

`LaunchOperation` takes and drops the creation lock in one step. `CreationClaim`
is why it may: `path`, `rec` are the inode the lock's entry names (0 when there is
none) and the owner record of every inode so far, a nonce being the number of
the inode it was drawn for; `active`, `withdrawn` the nonces whose token file
reads 1 or 0; `fd`, `flocked` what each process has open and locked; `pc`, `ret`,
`tgt`, `guard` where it is, where its procedure returns to, whom its pin or
release expects, and its guard's nonce. Left out: the event lock (the same file
protocol, but its release waits), contenders of the older Node implementation
and their records without a nonce (`lock.rs:389`), errors other than "exists" and
"not found", and pid reuse: the owner record has a pid and no start token, so a
reused pid makes a dead owner look alive and its claim wait.

### The composite modules

`MCSession`, `MCRegistry`, `MCCommands`, `MCTerminal` and the two liveness
modules put several components into one specification. A behaviour is about one
component, chosen in `Init` by the variable `part`; the variables of the others
are 0 and stay so. The components of one module meet through files whose states
each module already moves by itself (another command holds the lock, a newer
daemon takes the name, a launcher rewrites the row), so that nothing is lost by
looking at them one at a time, and the state spaces add up instead of
multiplying. Each of their properties is a conjunction over the parts of
properties defined in the components' own modules; each conjunct has been seen
to fail under a mutant of its own.

## 3. Runs

| Run | Question | Distinct states |
|---|---|---|
| `launch_operation` | Do two launchers, the daemon, two retires and any settle keep the contract through two deaths and two failing writes? | 1,831,205 |
| `operation_actor` | Do the daemon's threads keep to it in every interleaving? | 1,058,177 |
| `creation_claim` | Does the lock exclude, through steals, hand-overs, hand-backs and deaths? | 3,534,796 |
| `session` | Is a served session right: input, clients, record, metadata, pty, events? | 4,605,379 |
| `registry` | Is what other commands conclude and remove right: gc, keyed observation, listing, stop/rm, freeze, ownership, settle, process table? | 4,181,250 |
| `commands` | Are the user's commands right: launches, attach, queries, handle, picker, words? | 5,301,293 |
| `terminal` | Are bytes understood: keys, scanner, frames, screens, replay, history, widgets? | 1,350,360 |
| `operation_liveness` | Does a withdrawal end, and is nobody stranded? | 649,881 |
| `session_liveness` | Are exits told, and do waits end? | 515,615 |
| `actor_kill`, `actor_not_held`, `claim_leftover` | three sentences of the repository that the code does not keep (section 4) | |

**Bounds.** They are the constants of the `.cfg` files and of the `INSTANCE`
lines of the composite modules, one named bound per counter. `launch_operation`:
two launchers, since the second is refused at the claim; two retire requests, so
that an incomplete retirement is taken up by another; two crashes, so that a
recovery after a crash can itself crash; two faults, so that a write and the
write that reacts to it both fail. `operation_actor`: two owner frames before the
end of file are the least that allow a second transfer, a cancel after a transfer
or a stale incarnation after a good one. `creation_claim`: two contenders, so that
a thief and a successor meet a delayed process; two deaths, so that a thief can
die as well; retries and inodes are not bounded. `session`: a budget of three bytes
with packets of one to five, so that a packet fits, fills and exceeds it; two
clients of different sizes, one of them slow, against an outbound budget of three;
two writers of metadata, one foreign writer and one clock that ends both waits; a
log of two lines that is cut to one and grows again between two scans, with two
inodes that return; two requests of clients about the startup value or the tags, of
whatever expected value; two pieces of output against a queue of three. `registry`: three
pids and four start tokens, so that a daemon, its child and a stranger meet and a
pid is used again; two sessions and as many passes as it takes to flap and recover.
`commands`: two users for every pair of commands; two connections with a reconnect
between them; three generations of a daemon; two names and one change of the list
during two keys. `terminal`: every input of up to three characters or five scanner
bytes over an alphabet with one member of each class; number widths of a few
hundred so that the limits are met; every pair of screen writes; four rows of
history with two readers. `session_liveness`: three requests of clients, which is
what it takes to notice a deadline, take it back and disarm it; a packet larger than
the budget and the one behind it.

**Deadlock.** `launch_operation` checks for it. The others say
`CHECK_DEADLOCK FALSE`: a daemon that has ended, a command that has answered and
processes that have all released a lock really do stop.

**Fairness.** Weak fairness only, of each thread or process that can take a step by
itself, in the part that is looked at: the operating system schedules it and
nothing in the code waits with a lock that the model does not show. Timers that
are armed fire. Nothing is assumed of owners, users, signals, deaths, other
sessions, or anyone calling `retire` or `settle`; what another command holds it
gives back (its critical sections end). In `ClientInput` a write to the child
ends: a child that never reads again and never exits holds its own input back for
ever, by design. In `CreationClaim` a refused contender polls for ever, which is
`wait_for_metadata_lock` without its deadline; the daemon may still give up.

## 4. Where the code and its words differ

**Shown by a violated run.**

1. `actor_kill`. A SIGTERM that arrives while the actor is between the start
   of `commit_transfer` and the end of `finish_transfer` goes into the actor's
   queue, which is dropped when the actor ends. The session goes on as if
   nobody had asked. The comment at `pty/src/daemon/operation.rs:369` and
   ADR 0017 both say that somebody acts on it. The tests place their kill at a
   barrier, where a debug build reads events that a release build does not.
2. `actor_not_held`. `write_cas_as` reports an error when the directory's
   fsync fails after the rename. `commit_transfer` answers every failed commit
   with `not-held`, so an owner may be told its transfer lost although the
   record names it as committed. (The command does not run: the actor abandons,
   and the child is never released.)
3. `claim_leftover`. A holder of the advisory lock reads the token before the
   owner withdraws it and unlocks after the owner's nonblocking flock was
   refused: neither removes the claim, and every call has returned. The lock
   then names a live process that no longer holds it, which the comment at
   `pty-core/src/registry/lock.rs:247` means to exclude. The token stays
   withdrawn, so the next contender sweeps the claim, but is itself refused.

**Met while modelling**, stated as definitions of the modules, each false of the
component's specification; no run is spent on them:

| Definition | What the words say, and what the code does |
|---|---|
| `ScreenReplay!ReplayKeepsRows` | missing rows are padded so that a client has as many rows; a buffer with history whose rows have no text comes back shorter (`pty-terminal/src/serialize.rs:409`) |
| `TerminalActor!ReplayRestoresModes` | a replay restores the tracked modes; a mode that was on when the alternate screen was entered and was turned off in it is on again for a late client |
| `TerminalActor!NormalReplayIsCurrent` | the kept replay of the normal screen is there only while the alternate one is shown; the reset call leaves the alternate screen and keeps it |
| `CollectPass!ClearedIsRetried` | clearing `strategy.status` lets a flapping session be tried again; it is marked again first when the failures are still recent (`pty-lifecycle/src/gc.rs:559`, `pty/src/cli/gc.rs:178`) |
| `SessionControl!KeepHoldsAgainstSweep` | the keep tag holds a finished session against gc's sweep; a tag set after the judgement does not |
| `SessionControl!StopTouchesObservedOnly` | a stop changes only the record it observed; its removal of the strategy tag goes by name and can meet a successor's record |
| `SessionControl!VerifiedMeansGone` | verified means that the processes of the snapshot went; one whose row was refused to the table the aftermath read counts as exited and lives (`pty-client/src/stop.rs:305`) |
| `SessionControl!RetryIsKept` | "The next gc tick must be able to retry" a permanent session whose launch failed (`pty-lifecycle/src/gc.rs:748`); the error of the write-back is ignored, and then nothing is left to retry |
| `SessionControl!SweepSparesPermanent` | each removal of the sweep proves its case again (`pty-lifecycle/src/gc.rs:375`); a session made permanent after the look is removed |
| `SessionControl!VerifiedMeansEmpty` | a verified stop leaves nothing of its snapshot; not when the table could not be read for the snapshot |
| `EventLog!RegrowthIsNoticed` | a changed consumed prefix restarts the follower; not when the rewritten log agrees on what is compared |
| `EventLog!WaiterIsAnswered` | a session that ended for good does not keep a waiting command; it does when its row went before the follower saw it |
| `MetadataPatch!PublicationKeepsItsBudget` | a publication keeps its bounded wait for the event lock; a tag writer holds the event lock while it waits for the creation lock, and the publication's wait runs out |
| `PlainLaunch!UpReusesSlot` | `up` starts the session whose slot it cleaned up; it then finds the name taken in the listing it read before the cleanup, and starts nothing |
| `PeerQuery!MissedSaysWhy` | "missed" says the pattern was printed before the wait; it may have been printed during it |
| `AttachClient!CtrlCStops` | Ctrl-C stops reconnecting; the terminal is raw, so it is a byte that goes nowhere, and the client connects again |
| `WidgetUse!DisposersRemoveOwn` | a disposer removes what it registered; also a batch that replaced it, or a command of the same name |
| `MetadataPatch!ExactlyOneEvent` | "append exactly one event when something changed" (`pty-core/src/registry/mutate.rs:454`); none when the append fails, which is ignored (`:580`), or the writer dies before it |
| `PtySubstrate!NothingIsLost` | "Bytes the child wrote before it exited are forwarded until the PTY closes" (`pty-spawn/src/substrate.rs:11`); the ends counted while a live child has its terminal closed are believed as soon as it exits, so one that opened it again can lose its last bytes |
| `SocketOwnership!NotOwnedIsProved` | a caller that must see every descendant asks for a complete table (`pty-core/src/proctable.rs:463`); `tree_snapshot` asks only for a readable one, and the same row refused to both tables makes an owned socket "not owned" |
| `Picker!StdinIsLent` | a paused app has stopped reading stdin (`pty-tui/src/app.rs:274`); a reader past its check takes one more read from the session |
| `TerminalActor!GraphicsOutliveReset` | a terminal reset preserves the graphics (`docs/vrs/01-images/requirements.md:38`); a RIS of the child leaves no storage until the owner's next call (`pty-terminal/src/actor.rs:576`) |
| `TableRead!AbsenceIsAFact` | "not present" is a fact; a refused row leaves a readable table in which a live process is not present (`pty-core/src/proctable.rs:58`) |

Two more follow from what the code accepts and are part of the properties. A
lifecycle request may expect any value, also a terminal one
(`pty/src/daemon/lifecycle.rs:1303`): after the deadline, requests that set
`starting` and then `ready` take the timer of the announced shutdown away, so that
the daemon serves on over a stopped child (`SessionRecord!Undone`), and a terminal
value that was taken back is not written again. And `pty send` encodes ctrl+i and
ctrl+m as the bytes of tab and return, which both parsers read as those keys
(`pty-core/src/keys.rs:204`; `Stands` of `KeyInput`).

## 5. Proofs

Each component that is proved about has one inductive invariant or two, and they
are proved for every value of the constants: any number of launchers, requests,
contenders, users, daemons, pids, processes, clients, readers, attempts, deaths,
failing writes, inodes and retries. The runs check the same invariants'
consequences on small instances; the invariants themselves were checked with TLC
before they were proved.

| Theorem | States | About |
|---|---|---|
| `LaunchOperationProofs!TypeCorrect`, `CommandAfterTransfer`, `SingleWriter` | `TypeOK`, `CommandOnlyAfterTransfer`, `WriterOwnsRecord` | invariants |
| `LaunchOperationProofs!Final` | `DecisionsAreFinal` | action property |
| `LaunchOperationProofs!Implements` | `KeepsContract` | refinement of `LaunchContract` |
| `LaunchOperationProofs!TruthfulEndings` | `EndingsAreTruthful` | invariant, second layer |
| `LaunchOperationProofs!ForeignRows` | `ForeignRowsUntouched` | action property |
| `CreationClaimProofs!TypeCorrect`, `MutualExclusion`, `PublicationExclusive` | `TypeOK`, `HolderOwnsLock`, `PublicationIsExclusive` | invariants |
| `CreationClaimProofs!FenceHolds`, `EntryProtected` | `RevocationIsFinal`, `EntryChangesUnderFlock` | action properties |
| `CreationClaimProofs!ClaimsReturn` | `ClaimsComeBack` | invariant, second layer |
| `CreationClaimProofs!LiveClaims` | `LiveClaimIsRespected` | action property, second layer |
| `OperationActorProofs!TypeCorrect`, `EffectsFollow`, `CountedOnce` | `TypeOK`, `EffectsFollowRecord`, `MessagesCountOnce` | invariants |
| `CommandsProofs!ExclusiveLaunches` | `LaunchesAreExclusive` | invariant |
| `CommandsProofs!RecordsKept` | `LiveDaemonsKeepRecords` | action property |
| `CommandsProofs!CurrentViews` | `ViewsAreCurrent` | invariant |
| `SessionProofs!RecordTrue`, `Delivered`, `InputKept` | `RecordIsTrue`, `EventsAreDelivered`, `InputIsKept` | invariants |
| `SessionProofs!OwnChild`, from `SubstrateProofs` | `ChildIsOwn` | invariant |
| `SessionProofs!OrderlyEnds` | `EndsAreOrderly` | action property |
| `TerminalProofs!WholeHistory` | `HistoryIsWhole` | invariant |
| `RegistryProofs!OwnTreesOnly` | `OnlyOwnTreeIsKilled` | invariant |
| `RegistryProofs!StrangersSpared`, `FrozenWhole` | its first and last part | invariants |
| `RegistryProofs!RowsKept` | `RowsSurvive` | action property |

### The launch operation

From `OperationAssumption` (the names used for locks are not names of launchers
or requests) alone.

**The first layer** is `Inv` (theorem `Invariance`). None of the properties is
inductive alone: that the command runs only after the transfer needs that a
released gate means a committed record, which needs that the actor's copy is the
record while it holds the lock, which needs that the lock's holder and the
processes' program counters agree. So `Inv` is

- `LockInv`: who holds the operation lock is exactly who is in a state that
  holds it, and a settle in progress has the record as it is;
- `LaunchInv`, `FreshInv`: one daemon, which has done nothing until it opened
  the operation;
- `ActorInv`, `RecoveryInv`: what the copy of the record says at each stage;
- `ChildInv`: gate, child and exec count;
- `OutcomeInv`: a settlement was given only for a final record;
- and `TypeOK`, `Check(rec)`, `WriterOwnsRecord`.

Each process has a lemma that its steps keep `Inv` and are steps the contract
allows (`ContractStep`); `NextInv` puts them together.

**The second layer** is `EndInv`, for what endings claim about the world. A
settlement says that no process is left; it is given from four reads taken at
different moments. What makes it true for good is that after the record's lock
was free and its daemon gone no daemon of the operation can appear, which needs
that the record names its producer from before the producer can act. `EndInv` is

- `ProducerInv`: a daemon that runs is named by the record, and a launcher that
  has yet to record its daemon meets a record without one;
- `PublishedInv`, `ForkedInv`: nothing is published or forked before the launch
  was decided; a live child is known to the actor or on its way to it, and its
  gate does not stay open after the daemon;
- `RetiringInv`, `RecoveringInv`: what each stage of the two unwindings has
  already made sure of;
- `SettledInv`: what settle saw is still so when it answers;
- `VerifiedMeansUnwound`.

### The creation lock

From `ProcAssumption` (launcher, daemon and contenders are different processes)
alone.

**The first layer.** `HolderOwnsLock` is not inductive: that nobody removes a
holder's entry needs that whoever is about to unlink has the advisory lock on
that very inode (`BoundOK`), that its victim is dead, its own or withdrawn
(`VictimOK`, `TargetOK`, `PairInv`), and that a working owner's nonce is
withdrawn by nobody else, which needs that nonces of different guards differ
(`RecordInv`) although the launcher's comes back with the hand-back
(`LauncherInv`). `Inv` (theorem `Invariance`) is

- `ProcInv(p)`, about one process: whether it lives, what it has locked and
  whether the name leads there, who may be where, its guard, the target of its
  pin or release, what it owns, and its victim;
- `PairInv(p, q)`: one advisory lock per inode, and a sweeper sweeps nobody's;
- `RecordInv`, `LauncherInv`, `FenceInv`: nonces, the launcher's one claim,
  and that nothing is admitted under a fence.

All actions but three are steps of one process, and `OneProc` is the argument
they share: a step that is *considerate* (it changes the entry only where
there was none or under the advisory lock of an entry no other process owns,
and withdraws nobody else's nonce) keeps what is said of the others, and one
that is *entitled* (it comes to lock, own or sweep only what was free) keeps
what is said of pairs. Each action's lemma states what the step does to its
process, and then these two and its own part; steps that leave entry and tokens
alone, and steps that touch one token, share theirs (`QuietStep`, `QuietDaemon`,
`TokenStep`). `TwoProcs` does the same for
the three steps in which launcher and daemon move together.

**The second layer** is `Back` (theorem `Returns`): who will bring a claim back.
A claim whose release has returned must be marked withdrawn; but the mark is a
token file, and several processes remove tokens: a sweeper, a releaser, and the
daemon after its hand-back. So `Back` says, for each process `p` (`ReturnOK(p)`),

- `Remembered(p)`: a token that `p` is about to remove is of a nonce the lock
  does not name any more;
- `TokenOK(p)`: what is pinned has a token, and what is about to be unlinked is
  withdrawn or its owner dead;
- `ReleaseOK(p)`: while `p` releases, the nonce is its target's guard, and it is
  withdrawn already if the lock still names it;
- `ClaimOK(p)`: if the lock names `p`, `p` is alive and the claim is not
  withdrawn, then `p` has just made it, or its guard has yet to release it, or
  `p` is a daemon that has it from its launcher and will;

and, of the pair that hands a claim over, what a daemon that took the claim knows
of its launcher (`TakenInv`), what it was started with (`DaemonInv`), that nobody
has the launcher's nonce before it was handed over (`HandInv`), and that a waiting
launcher's claim is usable and is the lock unless its daemon has it (`WaitInv`).
`OneReturn` is to this layer what `OneProc` is to the first: a step that is
*careful* with entry and tokens and *orderly* about what it owes keeps what is
said of the other processes.

### The threads of an operation's daemon

From `ActorAssumption` (`None` is no request, stale requests are requests, the
bounds are numbers) alone. The bounds are any numbers, so the owner may send
anything any number of times. Fairness is not used.

None of the three properties is inductive. `Inv` (theorem `Invariance`) is a
stack of layers, and each layer's step lemma uses only the ones named with it:

- `Base` = `Types` and `EndInv`: what each queue holds, and that the actor ends
  together with its channel and its events;
- `RecordInv` (with `Base`): what record and copy say at each stage, that the
  gate is released only in the last step of a transfer that is on disk;
- `SyncInv` (with `RecordInv`): there is one sync; a withdrawal that was there
  when it was served is before it in the events (`Overtaken`), or the actor
  ended without launching;
- `TicketInv` (with `RecordInv`): a ticket's effect is in one place, ordered,
  with the worker, or reported and not read (`PublishInv`, `ForkInv`,
  `RequestInv`); the worker acts only under a committed ticket (`GrantInv`); the
  actor knows a child, or its fork is in flight (`ChildInv`); and at a verified
  retirement no ticket is committed (`VerifiedInv`). This is why a retirement
  that waits for committed tickets cannot miss a child;
- `FrameInv` (with `RecordInv`): `transferred` is the last frame, names the
  request on disk, and follows `ready`;
- `CountInv`: the places that hold a request (unread input, events, the deferred
  transfer, the one committing, answers) are together at most as many as it was
  asked (`Owed(id) <= asked[id]`). That answers alone are at most as many is not
  inductive: a request accepted while held is answered much later, by a
  different handler;
- `ExitInv`: a reported exit is handled, or in the serving loop's queue, or
  deferred and, if the session is transferred, the message that releases it is
  still to be read.

Seventeen handlers and steps of the actor are reduced to what they do
(`ActorCases`: pass, cancel, launch, conclude, retire, order the fork, record
the child, hold, accept, and the steps of a transfer), so that a layer has one
case for each effect and not one for each branch. The counting lemmas
(`CountConcat`, `CountTail`, `CountPrefix`, ...) give the number of a sequence's
places that name a request from finite-set cardinality, without induction over
the sequence.

### The commands that start and stop a session

From `LaunchAssumption` (there is a daemon) alone; nothing is assumed of the set
of users, of what they run or of the images their daemons have. The theorems are
about `MCCommands`, so about the same specification the run `commands` checks:
`LaunchPart` is `LaunchInv` while the part that moves is the launch.

That two daemons never serve the name at once is not inductive: a daemon about
to write its record must know that none serves, which it looked up some steps
earlier. `LaunchInv` (theorem `LaunchInvariance`) is

- `LaunchTypes`;
- `PinInv`: the daemons between `prepare_publication` and the child's start are
  exactly the one that has the claim pinned, and a recorded one has the row;
- `ServeInv`: a daemon that serves and was not told to stop has the row, and
  then nobody publishes; so whoever pins the claim has found no such daemon;
- `CheckInv(u)`: a command that looks under the locks has the claim, which
  nobody has pinned, and the daemon it remembers from before the locks is dead;
- `LentInv(u)`: a claim is lent only to the daemon of a command past its start,
  so a command that waits for the claim cannot be overtaken by its own daemon.

`UserKeeps` and `DaemonKeeps` are the two arguments the steps share. A command's
step keeps `LaunchInv` if it moves only itself, does no more to daemons than tell
one to stop, and removes the row only when nobody serves or publishes; a daemon's
step, if it changes only itself, and takes pin and row only in its own turn.

### The commands that end and remove, and the freeze of a tree

From `MachineAssumption` (pids are numbers above 1, and there is one; a recorded
boot identity is the machine's or, in a legacy record, absent). The theorems are
about `MCRegistry`, so about the specification the run `registry` checks;
`RegistryPart` (theorem `RegistryInvariance`) is `ControlInv` while the commands
move and `FreezeInv` while the freeze does.

**The commands.** That only the session's own processes are signalled is not
inductive: what is signalled was looked up, pinned and checked in earlier steps,
and pids are handed out again between any two of them. `ControlInv` is

- `ProcsOK`: tokens are never used twice, and a process has init or a process of
  its own session for a parent, so a walk from a daemon stays in its session
  (`SessionTree`, from the walk being the least closed set);
- `RowOK`, `ObsOK`: a record names one process for good (`Recorded`): whoever
  has the pid *and* the token is of the record's generation. So a check that says
  match proves more than the pid, and one that says gone or mismatch of the
  recorded pid stays true (`IdentityFacts`, `TimeFacts`);
- `TreeOK`: what a stop remembers and has pinned was of its session;
- `HitOK`: whatever was signalled, was; and nothing is before the first look;
- `RmOK`: an `rm` that is about to remove has seen the daemon it observed lost,
  which no later launch of the same generation can undo;
- `SpawnOK`: while a permanent session is started again its name is empty, so
  putting the record back overwrites nobody;
- `VerifiedOK`: what the aftermath does not find has gone, or its row was missing
  from the table read (`unseen`): a pid that the table does not show counts as
  exited. Any read of any command may miss rows;
- `LookOK`: what gc is to sweep or to give up was not permanent or kept, or was
  permanent and idle, when it looked. For `RowsKept`: gc does not look again.

`WorldKeeps` is for the steps of the machine, the users and time (a process of
the new table was in the old one or is newer than any record), `QuietKeeps` for
the steps of a command, `LookKeeps` for its looks at the row.

**The freeze.** A frozen tree is reported after two tables in a row that showed
the same processes stopped; each table is read row by row while the tree forks
and exits. Why the second one is enough: a stopped process stays (`Halted`), so a
row that shows one is still right (`RowsInv`); the processes of the first such
table (`Known`) have no children any more that the second read does not have, has
dropped and said so, or has yet to reach (`ChildrenInv`); so when it is complete
and shows the same processes, their set is closed under children, and the walk,
which is the least such set, is inside it. `VerdictInv` keeps that until the
termination starts.

### The attached client and the terminal handle

Also about `MCCommands`, from no assumption at all: `AttachPart` and `HandlePart`
(theorem `ViewInvariance`) are `AttachInv` and `HandleInv` while that part moves.

**The client.** That what is shown has no gap, no repetition and starts with a
screen says nothing of what is still under way, so it is not inductive.
`AttachInv` is about the wire of the current connection as a continuation of what
was shown: the screen comes first and once (`ScreenFirst`); each piece of output
follows the piece before it on the wire, or what was shown last (`InOrderFrom`);
while the daemon serves, the last of both is the session's last (`WireWhole`); a
half frame is the last of its connection, and malformed bytes are a bad peer's
(`WireEnds`). `TailKeeps` is the step of the reader, which moves one frame from
the wire to what was shown.

**The handle.** Its actor reads one channel into which callers, the current
attempt's reader and the readers of earlier attempts all send. `HandleInv` is

- `Fits(core, st)`: core and shared state agree: a ready handle shows its own
  attempt's screen, a cached snapshot of the current revision is the screen, an
  open read belongs to a stream in paste mode;
- `Replied`, `Observed`: a snapshot's reply on its way is of an earlier revision
  or is the screen; with an observer the frame is current, or the actor is dirty,
  or the observer's own wake-up is still in the channel;
- `Owned`: frames are of this attempt or an earlier one, and only this attempt's
  stream is open;
- `ScreenInv`: the daemon's screen is the first frame of its attempt, in the
  channel or on the wire, and meets a terminal with no read open. Without it a
  second screen could clear the paste mode under an open read;
- `OrderInv`: the requests in the channel come before those on the wire, in the
  order asked, and after every request that is open or answered: so a request is
  opened or refused once;
- `ToldInv`, `AnswerInv`: a caller's answer names a read that was opened, and if
  that read is the open one, its request; answers are distinct.

A step is an append of a message that is no frame (`AppendPlain`), a stutter of
the line (`LineStays`), the actor's `Tail` (`TailLine`), an append to the wire
(`WireAppend`), or a move from wire to channel (`ReadLine`); `Handles` is reduced
to what it does to the open read (`HandlesFacts`: lets it be, refuses as busy,
opens, answers).

### The served session

From `SessionAssumption`: there are inodes and 0 is none of them; the log keeps no
more lines than it may have, and looks at it at least once in a while; a stream
has room for one event at least (`MIN_ATTACHMENT_CAPACITY`, `substrate.rs:51`); no
writer has the number of the daemon's or the foreign writer; and
`InputAssumption`, `ClientsAssumption`. The theorems are about `MCSession`.
`SessionPart` (theorem `SessionInvariance`) has the invariant of each component
while that one moves:

- `RecordInv`: what the record says of clients and changes is what the daemon
  wrote last, or a retry is armed (`StampFacts`, `ChangeFacts`); the exit is on
  record from the last save on (`ExitFacts`); a terminal startup value on
  record is the daemon's idea of it (`LeaseFacts`), and only a client's request
  rewrites one (`RecordAsked`); only a deadline stops the tree, and
  only while something will end it (`StopFacts`); another daemon's files come
  with its record (`NameFacts`). It is a predicate of one state value, so that
  the actions, which compute their next state and commit it, are proved as
  functions: `RecordGood(s)` gives `RecordGood(t)` and `RecordKept(s, t)`;
- `PatchInv`: who is between the two locks has them, and the events told
  are the published changes in order, without those whose writer died or could not
  append (`lost`) and without the change of the one writer that has written and not
  yet told (`PatchTold`, `ToldTo`);
- `EventsInv`: the log's numbers ascend (`LogFacts`), a daemon that is over has
  nothing left to write (`WriterFacts`), the follower's snapshot stands where
  lines it delivered end (`ReadFacts`), a wait that is over has seen what it
  waited for (`WaitFacts`). What a batch leaves of the log after appends and
  truncations is the value of a fold; the fold's lemmas are proved by induction on
  the number of its steps;
- `InputInv`: the budget is the sum of the bytes held, one holder or within the
  limit; and for each client what the child got, what the writer has, what is
  queued and what is held together are what the client sent, in order (`SentAll`);
- `SubstrateInv` (`SubstrateProofs`): below.

The prover's library states induction with an operator parameter, which its
backends cannot instantiate. `LeastNat` and `InductNat` state it with a *set*
instead (a set of naturals that has 0 and successors has them all; derived from
the well-foundedness of `<`), and a set is an ordinary term. That is how sums over
finite sets and folds over sequences are reasoned about here.

**The substrate.** `SignalInv`: the reaper marks the child reaped before its pid is
free, under the lock a signal is sent under (`Fenced`), and a recovery signals only
through a descriptor that it pinned before it looked (`Pinned`); so `hit` never has
another process. `OutputInv`: there is a number `h` of bytes handled such that each
stream has the bytes from its attachment to `h` in its queue and in what was read
of it, contiguous (`Runs`), followed by at most one close; and at the close `h`
reaches what was written before the first end since the last byte read, unless that
was on its way for longer than the reader's retries (`due`). That a queue stays
within its room is not inductive either, since the reader asks for room before it
reads. What is: with `reserved` the room asked for and `reading` one while a read
is under way, `queued + 2 * reserved + 2 * reading <= 2 * Capacity + closed + over`,
where a queue's size is given by the prefix sums of its events' costs (`Costs`).

### Paging through history

About `MCTerminal`, from `HistoryAssumption` (a page limit is a natural number).
`HistoryInv` says that serials are handed out once, so that readers' cursors
differ (`CursorsDiffer`); and that the boundary a reading reader's cursor names
stands on the row the reader has read down to, and owes exactly the rows from there
to where the reader began (`ReaderInv`). So a page is never short or long, however
boundaries expire, rows are evicted, and readers come in between.

### What proving changed in the model

TLA+'s `CASE` is a choice: where two of its guards hold, either arm may be meant.
Seven operators that the proofs are about translated a chain of early returns into
a `CASE` with guards that overlap (`Signalled` of `PtySubstrate`; `Accepts` and `Disconnected` of
`AttachClient`; `Publish`, `Refuses`, its mutant and `WritePaste` of
`TerminalHandle`). TLC takes the first arm, which was what was meant, but nothing
could be proved of it; they are `IF ... ELSE` now.
## 6. Only model-checked, and why

- Liveness (`operation_liveness`, `session_liveness`): it needs fairness and
  ENABLED, which are out of this prover's reach.
- What recursive definitions compute for every input (frames, keys, scanner,
  replays, widgets, wrapping, parsing): `BytesAreUnderstood`, `ReplayIsFaithful`,
  `WidgetsAreRight` and the words of `ChoicesAreKept`. Each would need an
  induction of its own over the input, as the folds of `EventLog` have one in
  `SessionProofs`; `terminal` and `commands` check them over bounded inputs.
- `ClientsAreServed`, `AnswersAreOwn`, the picker's half of `ChoicesAreKept`,
  `CollectionIsSteady` and `ObservationsAreTrue`: model-checked only. Each part is
  a specification of its own and can be proved about in the same way.
- `OperationActor`'s two disagreements with its documents are what the runs `actor_kill`
  and `actor_not_held` find, and so nothing to prove.

## 7. Not modelled

The syntax of envelopes, frames and records beyond what a property is about;
timestamps and evidence values; the debug build's barriers; the event lock's own
file protocol and the pid-only claims of the older implementation; the ssh
transport behind a remote session; styles, borders and help texts; libghostty,
which is external and modelled by what the code reads back from it; and the test
harnesses.

## 8. Plan

1. Proofs of the parts that are only model-checked: the clients' cuts and outbound
   bytes (`ClientsAreServed`), the streams of `PeerQuery`, keyed observation, with
   the instant at which an observation was true as a history variable.
2. The event lock and legacy claims, from the actions of `CreationClaim`.
