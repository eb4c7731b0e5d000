--------------------------- MODULE SessionProofs ---------------------------
(***************************************************************************)
(* Proofs about a session's daemon: its record, the changes other commands *)
(* make to it, the event log with its readers and the input of its         *)
(* clients; with SubstrateProofs, of the session's run as a whole.         *)
(***************************************************************************)
EXTENDS SubstrateProofs, WellFoundedInduction, FiniteSetTheorems, SequenceTheorems, TLAPS

----------------------------------------------------------------------------
(* The record of a daemon: the inductive invariant, as a predicate of one *)
(* state s of the daemon and its files. *)

Gens == {"us", "none", "other"}
RTags == {"none", "starting", "ready"} \cup R!Terminal
Phases == {"serving", "sockets", "waiting", "settling", "reaping", "ended"}
DaemonType ==
  [phase : Phases, status : BOOLEAN, eof : BOOLEAN, drain : BOOLEAN,
   exited : BOOLEAN, exitRetry : BOOLEAN, grace : BOOLEAN, shut : BOOLEAN,
   external : BOOLEAN, activity : BOOLEAN, out : Int,
   lease : {"none", "untimed", "timed"}, timer : BOOLEAN, late : BOOLEAN,
   disarmed : BOOLEAN, terminal : {"none"} \cup R!Terminal, pending : BOOLEAN,
   tree : {"none", "complete", "partial"}, frozen : BOOLEAN, backstop : BOOLEAN,
   skipped : BOOLEAN, cgen : Int, stamp : Int, retry : BOOLEAN, lost : BOOLEAN,
   ephemeral : BOOLEAN, wanted : BOOLEAN]
RowType == [gen : Gens, cgen : Int, attach : Int, exit : BOOLEAN, out : Int, tag : RTags]
StateType ==
  [m : DaemonType, child : {"up", "stopped", "gone"}, row : RowType,
   side : [gen : Gens, stamp : Int], files : Gens, lock : BOOLEAN,
   count : [change : Nat, lock : Nat, cas : Nat, attach : Nat]]

(* What the record says of the clients is what the daemon last wrote, or *)
(* waits to be written. *)
StampFacts(s) ==
  s.row.gen = "us" =>
    IF s.m.stamp = 0 THEN s.row.attach = s.count.attach ELSE s.m.stamp = s.count.attach
ChangeFacts(s) ==
  s.row.gen = "us" /\ ~s.m.retry /\ ~s.m.lost => s.row.cgen = s.m.cgen /\ s.m.stamp = 0

(* The exit is on record from the last save of close() on. *)
ExitFacts(s) ==
  s.row.gen = "us" /\ s.m.phase \in {"reaping", "ended"} /\ s.m.exited /\ ~s.m.skipped
    => s.row.exit /\ s.row.out = s.m.out

(* The lease: what the record says is terminal is what the daemon knows to *)
(* be, and a lease that left "starting" is disarmed. *)
LeaseFacts(s) ==
  /\ s.m.terminal # "none" => s.m.disarmed /\ s.m.lease # "none"
  /\ s.row.gen = "us" =>
       /\ s.m.lease = "none" => s.row.tag = "none"
       /\ s.m.lease # "none" => s.row.tag # "none"
       /\ s.m.lease # "none" /\ s.row.tag # "starting" => s.m.disarmed
       /\ s.row.tag \in R!Terminal => s.m.terminal = s.row.tag

(* Only a deadline stops the child, and only while it serves or has just *)
(* been told to shut down; a child whose end was reported is gone. *)
StopFacts(s) ==
  /\ s.child = "stopped" =>
       /\ s.m.frozen /\ s.m.late /\ s.m.lease = "timed"
       /\ s.m.phase \in {"serving", "sockets"} /\ (s.m.phase = "sockets" => s.m.shut)
       /\ s.m.terminal # "none" \/ ~s.m.disarmed \/ s.m.shut
  /\ s.m.status \/ s.m.eof \/ s.m.drain \/ s.m.exited => s.child = "gone"

(* A sidecar or a socket of another daemon is there with its record. *)
NameFacts(s) == s.side.gen = "other" \/ s.files = "other" => s.row.gen = "other"

RecordGood(s) ==
  /\ s \in StateType
  /\ StampFacts(s) /\ ChangeFacts(s) /\ ExitFacts(s) /\ LeaseFacts(s) /\ StopFacts(s) /\ NameFacts(s)

(* What a step from s to t leaves alone. *)
RecordKept(s, t) ==
  /\ s.row.gen = "other" => t.row = s.row
  /\ s.side.gen = "other" => t.side = s.side
  /\ s.files = "other" => t.files = s.files
  /\ s.row.gen = "us" /\ t.row.gen = "us" /\ s.row.tag \in R!Terminal => t.row.tag = s.row.tag

(* A step that may rewrite a terminal value: a client's request. *)
RecordAsked(s, t) ==
  /\ s.row.gen = "us" /\ s.side.gen # "other" /\ s.files # "other"
  /\ s.m.phase = "serving" /\ ~s.m.shut /\ ~s.m.exited /\ t.count = s.count

Expectable == {"starting", "ready"} \cup R!Terminal
Settable == {"starting", "ready", "client"}

RecordInv == RecordGood(R!State)

LEMMA StateFields ==
  /\ R!State.m = m /\ R!State.child = child /\ R!State.row = row /\ R!State.side = side
  /\ R!State.files = files /\ R!State.lock = lock /\ R!State.count = count
BY DEF R!State

LEMMA RecordBegins == R!RecordInit => RecordInv
<1> SUFFICES ASSUME R!RecordInit PROVE RecordInv OBVIOUS
<1> DEFINE s == R!State
<1>1. /\ m \in DaemonType /\ m.timer \in BOOLEAN /\ m.terminal = "none" /\ m.stamp = 0 /\ m.cgen = 0
      /\ ~m.retry /\ ~m.lost /\ m.phase = "serving"
      /\ ~(m.status \/ m.eof \/ m.drain \/ m.exited) /\ ~m.disarmed
  BY DEF R!RecordInit, DaemonType, Phases, R!Terminal
<1>2. /\ child = "up" /\ side = [gen |-> "none", stamp |-> 0] /\ files = "us" /\ lock = FALSE
      /\ row \in RowType /\ row.gen = "us" /\ row.cgen = 0 /\ row.attach = 0
      /\ row.tag = IF m.lease = "none" THEN "none" ELSE "starting"
      /\ count = [change |-> 0, lock |-> 0, cas |-> 0, attach |-> 0]
  BY <1>1 DEF R!RecordInit, RowType, Gens, RTags, R!Terminal
<1>3. s \in StateType BY <1>1, <1>2 DEF StateType, R!State, Gens, RowType
<1> QED BY <1>1, <1>2, <1>3, StateFields
  DEF RecordInv, RecordGood, StampFacts, ChangeFacts, ExitFacts, LeaseFacts, StopFacts, NameFacts, R!Terminal

(* The daemon's fields the invariant is about, and two states of the daemon *)
(* that agree on them except on some. *)
Watched == {"retry", "lost", "cgen", "stamp", "phase", "exited", "skipped", "out", "terminal",
            "disarmed", "lease", "frozen", "late", "shut", "status", "eof", "drain"}
Same(a, b, but) == \A x \in Watched \ but : a[x] = b[x]
SameFiles(s, t) == /\ t.row = s.row /\ t.side = s.side /\ t.files = s.files /\ t.lock = s.lock
                   /\ t.count = s.count

(* A step that commits t. *)
LEMMA CommitIs == ASSUME NEW t \in StateType, R!Commit(t) PROVE R!State' = t /\ count' = t.count
BY DEF R!State, R!Commit, StateType

LEMMA CommitKeeps ==
  ASSUME NEW t \in StateType, R!Commit(t), RecordGood(t), RecordKept(R!State, t)
  PROVE  RecordInv' /\ RecordKept(R!State, R!State')
BY CommitIs DEF RecordInv

LEMMA ExternalKillKeeps ==
  ASSUME RecordInv, R!ExternalKill PROVE RecordInv' /\ RecordKept(R!State, R!State')
<1> DEFINE s == R!State
           t == [s EXCEPT !.m.external = TRUE, !.m.shut = TRUE]
<1>1. RecordGood(s) /\ s \in StateType BY DEF RecordInv, RecordGood
<1> HIDE DEF s
<1>2. /\ t \in StateType /\ SameFiles(s, t) /\ t.child = s.child
      /\ t.m.shut /\ Same(t.m, s.m, {"shut"}) BY ZenonT(60), <1>1 DEF StateType, DaemonType, SameFiles, Same, Watched
<1> HIDE DEF t
<1>3. RecordGood(t) /\ RecordKept(s, t)
  BY <1>1, <1>2 DEF RecordGood, RecordKept, StampFacts, ChangeFacts, ExitFacts, LeaseFacts, StopFacts, NameFacts,
     SameFiles, Same, Watched
<1>4. R!Commit(t) BY DEF R!ExternalKill, s, t
<1> QED BY <1>2, <1>3, <1>4, CommitKeeps DEF s

(* What a write of the terminal value does: nothing, or it is the first one *)
(* and goes into the record, or it finds the name taken and disarms. *)
Settled(s, t, c) ==
  /\ t \in StateType /\ t.child = s.child /\ t.side = s.side /\ t.files = s.files
  /\ t.lock = s.lock /\ t.count = s.count
  /\ \/ t = s
     \/ t.row = s.row /\ s.row.gen = "other" /\ t.m.disarmed /\ Same(t.m, s.m, {"disarmed"})
     \/ /\ s.m.lease # "none" /\ s.m.terminal = "none" /\ t.m.terminal = c /\ t.m.disarmed
        /\ s.row.gen = "us" /\ t.row = [s.row EXCEPT !.tag = c]
        /\ Same(t.m, s.m, {"terminal", "disarmed"})

LEMMA SettleDoes ==
  ASSUME NEW s \in StateType, NEW c \in R!Terminal, NEW force \in BOOLEAN
  PROVE  Settled(s, R!SettleStartupLifecycle(s, c, force), c)
<1> DEFINE t == [s EXCEPT !.row.tag = c, !.m.terminal = c, !.m.disarmed = TRUE, !.m.timer = FALSE]
           u == [s EXCEPT !.m.disarmed = TRUE, !.m.timer = FALSE]
<1>1. ASSUME s.m.lease # "none", s.m.terminal = "none", s.row.gen = "us" PROVE Settled(s, t, c)
  <2>1. /\ t \in StateType /\ t.child = s.child /\ t.side = s.side /\ t.files = s.files
        /\ t.lock = s.lock /\ t.count = s.count BY ZenonT(60) DEF StateType, DaemonType, RowType, RTags
  <2>2. t.row = [s.row EXCEPT !.tag = c] /\ t.m.terminal = c /\ t.m.disarmed BY DEF StateType, DaemonType
  <2>3. Same(t.m, s.m, {"terminal", "disarmed"}) BY ZenonT(60) DEF StateType, DaemonType, Same, Watched
  <2> QED BY <1>1, <2>1, <2>2, <2>3 DEF Settled
<1>2. ASSUME s.row.gen = "other" PROVE Settled(s, u, c)
  <2>1. /\ u \in StateType /\ u.child = s.child /\ u.side = s.side /\ u.files = s.files
        /\ u.lock = s.lock /\ u.count = s.count /\ u.row = s.row /\ u.m.disarmed
    BY ZenonT(60) DEF StateType, DaemonType
  <2>2. Same(u.m, s.m, {"disarmed"}) BY ZenonT(60) DEF StateType, DaemonType, Same, Watched
  <2> QED BY <1>2, <2>1, <2>2 DEF Settled
<1>3. Settled(s, s, c) BY DEF Settled
<1>4. s.row.gen \in {"us", "none", "other"} BY DEF StateType, RowType, Gens
<1>5. R!Status(s) = "ok" => s.row.gen = "us" BY <1>4 DEF R!Status
<1>6. R!Status(s) = "mismatch" => s.row.gen = "other" BY <1>4 DEF R!Status
<1>7. CASE R!SettleStartupLifecycle(s, c, force) = s BY <1>3, <1>7
<1>8. CASE R!SettleStartupLifecycle(s, c, force) # s
  <2>1. s.m.lease # "none" /\ s.m.terminal = "none" BY <1>8 DEF R!SettleStartupLifecycle
  <2>2. R!SettleStartupLifecycle(s, c, force) = IF R!Status(s) = "ok" THEN t
          ELSE IF R!Status(s) = "mismatch" THEN u ELSE s BY <1>8 DEF R!SettleStartupLifecycle
  <2> QED BY <2>1, <2>2, <1>1, <1>2, <1>3, <1>5, <1>6
<1> QED BY <1>7, <1>8

(* A write of the client facts lands, or waits, or is given up. *)
WroteClients(s, t) ==
  /\ t \in StateType /\ t.child = s.child /\ t.side = s.side /\ t.files = s.files
  /\ t.lock = s.lock /\ t.count = s.count /\ Same(t.m, s.m, {"stamp", "retry", "lost"})
  /\ \/ t.row = s.row /\ t.m.stamp = s.m.stamp /\ (t.m.retry \/ t.m.lost)
     \/ t.row = s.row /\ s.row.gen # "us"
     \/ /\ s.row.gen = "us" /\ t.m.stamp = 0 /\ ~t.m.retry /\ ~t.m.lost
        /\ t.row = [s.row EXCEPT !.cgen = s.m.cgen,
                                 !.attach = IF s.m.stamp = 0 THEN @ ELSE s.m.stamp]

LEMMA WriteDoes ==
  ASSUME NEW s \in StateType, NEW late \in BOOLEAN
  PROVE  WroteClients(s, R!WriteClientGeneration(s, late))
<1>0. s.m \in DaemonType /\ s.row \in RowType BY DEF StateType
<1> DEFINE p == s.m.retry /\ late
           m0 == [s.m EXCEPT !.retry = TRUE, !.lost = FALSE]
           m1 == [s.m EXCEPT !.retry = FALSE, !.lost = TRUE]
           m2 == [s.m EXCEPT !.stamp = 0, !.retry = FALSE, !.lost = FALSE]
           row1 == [s.row EXCEPT !.cgen = s.m.cgen,
                                 !.attach = IF s.m.stamp = 0 THEN @ ELSE s.m.stamp]
           wait == [s EXCEPT !.m = m0]
           gone1 == [s EXCEPT !.m = m1]
           done == [s EXCEPT !.m = m2]
           over == [s EXCEPT !.m = m2, !.row = row1]
<1>1. m0 \in DaemonType /\ m1 \in DaemonType BY ZenonT(60), <1>0 DEF DaemonType
<1>2. m2 \in DaemonType
  <2> DEFINE x == [s.m EXCEPT !.stamp = 0]
  <2>1. x \in DaemonType BY <1>0 DEF DaemonType
  <2>2. m2 = [x EXCEPT !.retry = FALSE, !.lost = FALSE] BY <1>0 DEF DaemonType
  <2> HIDE DEF x, m2
  <2> QED BY ZenonT(60), <2>1, <2>2 DEF DaemonType
<1>3. row1 \in RowType BY <1>0 DEF DaemonType, RowType
<1>a. /\ m0.stamp = s.m.stamp /\ m0.retry /\ Same(m0, s.m, {"stamp", "retry", "lost"})
      /\ m1.stamp = s.m.stamp /\ m1.lost /\ Same(m1, s.m, {"stamp", "retry", "lost"})
  BY ZenonT(60), <1>0 DEF DaemonType, Same, Watched
<1>b. m2.stamp = 0 /\ ~m2.retry /\ ~m2.lost /\ Same(m2, s.m, {"stamp", "retry", "lost"})
  BY <1>0 DEF DaemonType, Same, Watched
<1> HIDE DEF m0, m1, m2, row1
<1>c. WroteClients(s, wait)
  <2>1. /\ wait \in StateType /\ wait.child = s.child /\ wait.side = s.side /\ wait.files = s.files
        /\ wait.lock = s.lock /\ wait.count = s.count /\ wait.row = s.row /\ wait.m = m0
    BY <1>1 DEF StateType
  <2> QED BY <2>1, <1>a DEF WroteClients
<1>d. WroteClients(s, gone1)
  <2>1. /\ gone1 \in StateType /\ gone1.child = s.child /\ gone1.side = s.side /\ gone1.files = s.files
        /\ gone1.lock = s.lock /\ gone1.count = s.count /\ gone1.row = s.row /\ gone1.m = m1
    BY <1>1 DEF StateType
  <2> QED BY <2>1, <1>a DEF WroteClients
<1>e. ASSUME s.row.gen # "us" PROVE WroteClients(s, done)
  <2>1. /\ done \in StateType /\ done.child = s.child /\ done.side = s.side /\ done.files = s.files
        /\ done.lock = s.lock /\ done.count = s.count /\ done.row = s.row /\ done.m = m2
    BY <1>2 DEF StateType
  <2> QED BY <1>e, <1>b, <2>1 DEF WroteClients
<1>f. ASSUME s.row.gen = "us" PROVE WroteClients(s, over)
  <2>1. /\ over \in StateType /\ over.child = s.child /\ over.side = s.side /\ over.files = s.files
        /\ over.lock = s.lock /\ over.count = s.count /\ over.row = row1 /\ over.m = m2
    BY <1>2, <1>3 DEF StateType
  <2> QED BY <1>f, <1>b, <2>1 DEF WroteClients, row1
<1>4. s.row.gen \in {"us", "none", "other"} BY DEF StateType, RowType, Gens
<1>5. R!Status(s) = "ok" <=> s.row.gen = "us" /\ ~s.lock BY <1>4 DEF R!Status, StateType
<1>6. R!Status(s) = "busy" <=> s.lock BY <1>4 DEF R!Status, StateType
<1>7. s.lock => R!WriteClientGeneration(s, late) \in {wait, gone1}
  <2>1. SUFFICES ASSUME s.lock PROVE R!WriteClientGeneration(s, late) \in {wait, gone1} OBVIOUS
  <2>2. R!WriteClientGeneration(s, late) = [s EXCEPT !.m.retry = ~(@ /\ late), !.m.lost = s.m.retry /\ late]
    BY <1>6, <2>1 DEF R!WriteClientGeneration
  <2>3. CASE p
    <3>1. (~p) = FALSE /\ p = TRUE BY <2>3
    <3>2. R!WriteClientGeneration(s, late) = [s EXCEPT !.m.retry = FALSE, !.m.lost = TRUE] BY <2>2, <3>1
    <3> QED BY <3>2 DEF m1, StateType
  <2>4. CASE ~p
    <3>1. (~p) = TRUE /\ p = FALSE BY <2>4
    <3>2. R!WriteClientGeneration(s, late) = [s EXCEPT !.m.retry = TRUE, !.m.lost = FALSE] BY <2>2, <3>1
    <3> QED BY <3>2 DEF m0, StateType
  <2> QED BY <2>3, <2>4
<1>8. ~s.lock /\ s.row.gen = "us" => R!WriteClientGeneration(s, late) = over
  <2> SUFFICES ASSUME ~s.lock, s.row.gen = "us" PROVE R!WriteClientGeneration(s, late) = over OBVIOUS
  <2>1. R!WriteClientGeneration(s, late)
          = [s EXCEPT !.row = row1, !.m.stamp = 0, !.m.retry = FALSE, !.m.lost = FALSE]
    <3>1. R!Status(s) = "ok" /\ R!Status(s) # "busy" BY <1>5, <1>6
    <3>2. R!ClientRow(s) = row1 BY <3>1 DEF R!ClientRow, row1
    <3> QED BY <3>1, <3>2 DEF R!WriteClientGeneration
  <2> QED BY <2>1 DEF StateType, m2
<1>9. ~s.lock /\ s.row.gen # "us" => R!WriteClientGeneration(s, late) = done
  BY <1>5, <1>6 DEF R!WriteClientGeneration, R!ClientRow, StateType, m2
<1> QED BY <1>c, <1>d, <1>e, <1>f, <1>7, <1>8, <1>9 DEF StateType

(* Whatever it meets, it leaves the record true of the daemon. *)
LEMMA ClientWriteKeeps ==
  ASSUME NEW s \in StateType, NEW t, WroteClients(s, t),
         StampFacts(s), ExitFacts(s), LeaseFacts(s), StopFacts(s), NameFacts(s)
  PROVE  RecordGood(t) /\ RecordKept(s, t)
<1>1. t \in StateType BY DEF WroteClients
<1>2. t.row.gen = s.row.gen /\ t.row.tag = s.row.tag /\ t.row.exit = s.row.exit /\ t.row.out = s.row.out
  BY <1>1 DEF WroteClients, StateType, RowType
<1>3. StampFacts(t) /\ ChangeFacts(t)
  <2> SUFFICES ASSUME t.row.gen = "us" PROVE StampFacts(t) /\ ChangeFacts(t)
    BY DEF StampFacts, ChangeFacts
  <2>1. CASE t.row = s.row /\ t.m.stamp = s.m.stamp /\ (t.m.retry \/ t.m.lost)
    BY <1>2, <2>1 DEF StampFacts, ChangeFacts, WroteClients
  <2>2. CASE ~(t.row = s.row /\ t.m.stamp = s.m.stamp /\ (t.m.retry \/ t.m.lost))
    <3>1. /\ t.m.stamp = 0 /\ ~t.m.retry /\ ~t.m.lost
          /\ t.row = [s.row EXCEPT !.cgen = s.m.cgen,
                               !.attach = IF s.m.stamp = 0 THEN @ ELSE s.m.stamp]
      BY <1>2, <2>2 DEF WroteClients
    <3>2. t.row.cgen = s.m.cgen /\ t.row.attach = IF s.m.stamp = 0 THEN s.row.attach ELSE s.m.stamp
      BY <3>1 DEF StateType, RowType
    <3> QED BY <1>2, <3>1, <3>2 DEF StampFacts, ChangeFacts, WroteClients, Same, Watched
  <2> QED BY <2>1, <2>2
<1>4. ExitFacts(t) BY <1>2 DEF ExitFacts, WroteClients, Same, Watched
<1>5. LeaseFacts(t) BY <1>2 DEF LeaseFacts, WroteClients, Same, Watched
<1>6. StopFacts(t) BY DEF StopFacts, WroteClients, Same, Watched
<1>7. NameFacts(t) BY <1>2 DEF NameFacts, WroteClients
<1>8. RecordKept(s, t) BY <1>2 DEF RecordKept, WroteClients
<1> QED BY <1>1, <1>3, <1>4, <1>5, <1>6, <1>7, <1>8 DEF RecordGood

LEMMA ClientRetryKeeps ==
  ASSUME RecordInv, R!ClientRetry PROVE RecordInv' /\ RecordKept(R!State, R!State')
<1> DEFINE s == R!State
<1>1. RecordGood(s) /\ s \in StateType BY DEF RecordInv, RecordGood
<1>2. PICK late \in BOOLEAN : R!Commit(R!WriteClientGeneration(s, late)) BY DEF R!ClientRetry
<1> DEFINE t == R!WriteClientGeneration(s, late)
<1>3. WroteClients(s, t) BY <1>1, WriteDoes
<1> HIDE DEF s, t
<1>4. RecordGood(t) /\ RecordKept(s, t) BY <1>1, <1>3, ClientWriteKeeps DEF RecordGood
<1>5. t \in StateType BY <1>4 DEF RecordGood
<1> QED BY <1>2, <1>4, <1>5, CommitKeeps DEF s, t

LEMMA ClientChangeKeeps ==
  ASSUME RecordInv, R!ClientChange PROVE RecordInv' /\ RecordKept(R!State, R!State')
<1> DEFINE s == R!State
<1>1. RecordGood(s) /\ s \in StateType BY DEF RecordInv, RecordGood
<1>2. PICK att \in BOOLEAN, late \in BOOLEAN :
        LET c == [R!Once("change", MaxChanges) EXCEPT !.count.attach = IF att THEN @ + 1 ELSE @]
        IN  R!Commit(R!NoteClientChange(c, IF att THEN c.count.attach ELSE 0, late))
  BY DEF R!ClientChange
<1> DEFINE c == [R!Once("change", MaxChanges) EXCEPT !.count.attach = IF att THEN @ + 1 ELSE @]
           k == [s.count EXCEPT !["change"] = @ + 1, !.attach = IF att THEN @ + 1 ELSE @]
           st == IF att THEN c.count.attach ELSE 0
           u == [c EXCEPT !.m.cgen = @ + 1, !.m.stamp = IF st = 0 THEN @ ELSE st, !.m.retry = FALSE]
           t == R!WriteClientGeneration(u, late)
<1>3. R!Commit(t) BY <1>2 DEF R!NoteClientChange
<1> HIDE DEF s
<1>a. c = [s EXCEPT !.count = k] BY <1>1 DEF R!Once, s, StateType
<1>b. k \in [change : Nat, lock : Nat, cas : Nat, attach : Nat]
      /\ k.attach = IF att THEN s.count.attach + 1 ELSE s.count.attach
  <2> DEFINE C == [change : Nat, lock : Nat, cas : Nat, attach : Nat]
             x == [s.count EXCEPT !.change = @ + 1]
             y == IF att THEN s.count.attach + 1 ELSE s.count.attach
  <2>1. s.count \in C BY <1>1 DEF StateType
  <2>2. x \in C /\ x.attach = s.count.attach BY <2>1
  <2>3. y \in Nat BY <2>1
  <2>4. k = [x EXCEPT !.attach = y] BY <2>1, <2>2
  <2> HIDE DEF x, y
  <2> QED BY <2>2, <2>3, <2>4 DEF y
<1> HIDE DEF k, c
<1>c. c \in StateType /\ c.m = s.m /\ c.row = s.row /\ c.side = s.side /\ c.files = s.files
      /\ c.lock = s.lock /\ c.count = k /\ c.child = s.child BY <1>1, <1>a, <1>b DEF StateType
<1>d. st \in Nat /\ (att => st = s.count.attach + 1) /\ (~att => st = 0)
  BY <1>1, <1>b, <1>c DEF StateType
<1> DEFINE m1 == [s.m EXCEPT !.cgen = @ + 1, !.stamp = IF st = 0 THEN @ ELSE st, !.retry = FALSE]
<1>e. u = [c EXCEPT !.m = m1] BY <1>c DEF StateType
<1> HIDE DEF st
<1>f. m1 \in DaemonType /\ m1.stamp = (IF st = 0 THEN s.m.stamp ELSE st) /\ Same(m1, s.m, {"cgen", "stamp", "retry"})
  <2>0. s.m \in DaemonType BY <1>1 DEF StateType
  <2> DEFINE x == [s.m EXCEPT !.cgen = s.m.cgen + 1]
             y == [x EXCEPT !.stamp = IF st = 0 THEN s.m.stamp ELSE st]
  <2>1. x \in DaemonType /\ Same(x, s.m, {"cgen"}) /\ x.stamp = s.m.stamp BY <2>0 DEF DaemonType, Same, Watched
  <2>2. (IF st = 0 THEN s.m.stamp ELSE st) \in Int BY <2>0, <1>d DEF DaemonType
  <2> HIDE DEF x
  <2>3. y \in DaemonType /\ Same(y, x, {"stamp"}) /\ y.stamp = (IF st = 0 THEN s.m.stamp ELSE st)
    BY <2>1, <2>2 DEF DaemonType, Same, Watched
  <2>4. m1 = [y EXCEPT !.retry = FALSE] BY <2>0, <2>1 DEF DaemonType, x
  <2> HIDE DEF y, m1
  <2>5. m1 \in DaemonType /\ Same(m1, y, {"retry"}) BY ZenonT(60), <2>3, <2>4 DEF DaemonType, Same, Watched
  <2> QED BY <2>1, <2>3, <2>5 DEF Same, Watched
<1> HIDE DEF m1, u
<1>4. u \in StateType /\ u.m = m1 /\ u.row = s.row /\ u.side = s.side /\ u.files = s.files
      /\ u.lock = s.lock /\ u.count = k /\ u.child = s.child BY <1>c, <1>e, <1>f DEF StateType
<1>5. StampFacts(u)
  <2>1. s.count.attach \in Nat /\ s.m.stamp \in Int BY <1>1 DEF StateType, DaemonType
  <2> QED BY <1>1, <1>b, <1>d, <1>f, <1>4, <2>1 DEF StampFacts, RecordGood
<1>6. ExitFacts(u) /\ LeaseFacts(u) /\ StopFacts(u) /\ NameFacts(u)
  BY <1>1, <1>f, <1>4 DEF RecordGood, ExitFacts, LeaseFacts, StopFacts, NameFacts, Same, Watched
<1>7. WroteClients(u, t) BY <1>4, WriteDoes
<1> HIDE DEF t
<1>8. RecordGood(t) /\ RecordKept(u, t) BY <1>4, <1>5, <1>6, <1>7, ClientWriteKeeps
<1>9. RecordKept(s, t) BY <1>4, <1>8 DEF RecordKept
<1>10. t \in StateType BY <1>8 DEF RecordGood
<1> QED BY <1>3, <1>8, <1>9, <1>10, CommitKeeps DEF s

(* Steps that change fields of the daemon the invariant hardly looks at. *)
LEMMA QuietKeeps ==
  ASSUME NEW s, RecordGood(s), NEW x \in DaemonType, Same(x, s.m, {"shut"}), s.m.shut => x.shut
  PROVE  LET t == [s EXCEPT !.m = x] IN t \in StateType /\ RecordGood(t) /\ RecordKept(s, t)
<1> DEFINE t == [s EXCEPT !.m = x]
<1>1. s \in StateType BY DEF RecordGood
<1>2. t \in StateType /\ SameFiles(s, t) /\ t.child = s.child /\ t.m = x BY <1>1 DEF StateType, SameFiles
<1> HIDE DEF t
<1>3. RecordGood(t) /\ RecordKept(s, t)
  BY <1>1, <1>2 DEF RecordGood, RecordKept, StampFacts, ChangeFacts, ExitFacts, LeaseFacts, StopFacts,
     NameFacts, SameFiles, Same, Watched
<1> QED BY <1>2, <1>3 DEF t

LEMMA PtyDataKeeps ==
  ASSUME RecordInv, R!PtyData PROVE RecordInv' /\ RecordKept(R!State, R!State')
<1> DEFINE s == R!State
           x == [s.m EXCEPT !.out = @ + 1, !.activity = TRUE]
           t == [s EXCEPT !.m = x]
<1>1. RecordGood(s) /\ s \in StateType /\ s.m = m /\ s.child = child
  BY StateFields DEF RecordInv, RecordGood
<1>2. m.phase = "serving" BY DEF R!PtyData, R!Serving
<1>3. R!Commit([s EXCEPT !.m.out = @ + 1, !.m.activity = TRUE]) BY DEF R!PtyData
<1> HIDE DEF s
<1>4. R!Commit(t)
  <2>1. t = [s EXCEPT !.m.out = @ + 1, !.m.activity = TRUE] BY <1>1 DEF StateType
  <2> QED BY <1>3, <2>1
<1>5. x \in DaemonType /\ Same(x, s.m, {"out"})
  <2> DEFINE y == [s.m EXCEPT !.out = @ + 1]
  <2>0. s.m \in DaemonType BY <1>1 DEF StateType
  <2>1. y \in DaemonType /\ Same(y, s.m, {"out"}) BY <2>0 DEF DaemonType, Same, Watched
  <2>2. x = [y EXCEPT !.activity = TRUE] OBVIOUS
  <2> HIDE DEF x, y
  <2>3. x \in DaemonType /\ Same(x, y, {}) BY ZenonT(60), <2>1, <2>2 DEF DaemonType, Same, Watched
  <2> QED BY <2>1, <2>3 DEF Same, Watched
<1> HIDE DEF x
<1>6. t \in StateType /\ SameFiles(s, t) /\ t.child = s.child /\ t.m = x
  BY <1>1, <1>5 DEF StateType, SameFiles
<1> HIDE DEF t
<1>7. RecordGood(t) /\ RecordKept(s, t)
  BY <1>1, <1>2, <1>5, <1>6 DEF RecordGood, RecordKept, StampFacts, ChangeFacts, ExitFacts, LeaseFacts,
     StopFacts, NameFacts, SameFiles, Same, Watched
<1> QED BY <1>4, <1>6, <1>7, CommitKeeps DEF s

LEMMA ActivityTimerKeeps ==
  ASSUME RecordInv, R!ActivityTimer PROVE RecordInv' /\ RecordKept(R!State, R!State')
<1> DEFINE s == R!State
           x == [s.m EXCEPT !.activity = FALSE]
           t == [s EXCEPT !.m = x]
           u == [t EXCEPT !.side = [gen |-> "us", stamp |-> s.m.out]]
<1>1. RecordGood(s) /\ s \in StateType BY DEF RecordInv, RecordGood
<1>2. R!Commit(R!PersistOutputActivity(s)) BY DEF R!ActivityTimer
<1> HIDE DEF s
<1>3. R!PersistOutputActivity(s) \in {s, t} \/ (s.row.gen = "us" /\ R!PersistOutputActivity(s) = u)
  <2>1. [s EXCEPT !.m.activity = FALSE] = t BY <1>1 DEF StateType
  <2>2. s.row.gen \in {"us", "none", "other"} BY <1>1 DEF StateType, RowType, Gens
  <2>3. R!Status(s) = "ok" => s.row.gen = "us" BY <2>2 DEF R!Status
  <2>4. s.m.exited \in BOOLEAN BY <1>1 DEF StateType, DaemonType
  <2> QED BY <2>1, <2>3, <2>4 DEF R!PersistOutputActivity
<1>4. x \in DaemonType /\ Same(x, s.m, {}) /\ x.shut = s.m.shut
  BY ZenonT(60), <1>1 DEF StateType, DaemonType, Same, Watched
<1> HIDE DEF x
<1>5. Same(x, s.m, {"shut"}) BY <1>4 DEF Same, Watched
<1>6. t \in StateType /\ RecordGood(t) /\ RecordKept(s, t) BY <1>1, <1>4, <1>5, QuietKeeps
<1>7. ASSUME s.row.gen = "us" PROVE u \in StateType /\ RecordGood(u) /\ RecordKept(s, u)
  <2>1. s.m.out \in Int /\ t.row = s.row /\ t.files = s.files BY <1>1 DEF StateType, DaemonType
  <2> HIDE DEF t
  <2>2. /\ u \in StateType /\ u.row = t.row /\ u.files = t.files /\ u.lock = t.lock
        /\ u.count = t.count /\ u.child = t.child /\ u.m = t.m /\ u.side.gen = "us"
    BY <1>6, <2>1 DEF StateType, Gens
  <2> HIDE DEF u
  <2>3. RecordGood(u)
    BY <1>6, <2>2 DEF RecordGood, StampFacts, ChangeFacts, ExitFacts, LeaseFacts, StopFacts, NameFacts
  <2>4. s.side.gen # "other" BY <1>1, <1>7 DEF RecordGood, NameFacts
  <2> QED BY <1>6, <2>1, <2>2, <2>3, <2>4 DEF RecordKept
<1>8. RecordKept(s, s) BY DEF RecordKept
<1> HIDE DEF t, u
<1> QED BY <1>1, <1>2, <1>3, <1>6, <1>7, <1>8, CommitKeeps DEF s

LEMMA GraceTimerKeeps ==
  ASSUME RecordInv, R!GraceTimer PROVE RecordInv' /\ RecordKept(R!State, R!State')
<1> DEFINE s == R!State
           x == [s.m EXCEPT !.grace = FALSE, !.shut = TRUE]
           t == [s EXCEPT !.m = x]
<1>1. RecordGood(s) /\ s \in StateType BY DEF RecordInv, RecordGood
<1>2. R!Commit([s EXCEPT !.m.grace = FALSE, !.m.shut = TRUE]) BY DEF R!GraceTimer
<1> HIDE DEF s
<1>3. t = [s EXCEPT !.m.grace = FALSE, !.m.shut = TRUE] BY <1>1 DEF StateType
<1>4. x \in DaemonType /\ Same(x, s.m, {"shut"}) /\ x.shut
  BY ZenonT(60), <1>1 DEF StateType, DaemonType, Same, Watched
<1> HIDE DEF x
<1>5. t \in StateType /\ RecordGood(t) /\ RecordKept(s, t) BY <1>1, <1>4, QuietKeeps
<1> QED BY <1>2, <1>3, <1>5, CommitKeeps DEF s

LEMMA DeadlinePassesKeeps ==
  ASSUME RecordInv, R!DeadlinePasses PROVE RecordInv' /\ RecordKept(R!State, R!State')
<1> DEFINE s == R!State
           x == [s.m EXCEPT !.late = TRUE]
           t == [s EXCEPT !.m = x]
<1>1. RecordGood(s) /\ s \in StateType /\ s.m = m BY StateFields DEF RecordInv, RecordGood
<1>2. R!Commit(t) BY <1>1 DEF R!DeadlinePasses, R!Commit, R!State
<1> HIDE DEF s
<1>3. x \in DaemonType /\ Same(x, s.m, {"late"}) /\ x.late
  BY ZenonT(60), <1>1 DEF StateType, DaemonType, Same, Watched
<1> HIDE DEF x
<1>4. t \in StateType /\ SameFiles(s, t) /\ t.child = s.child /\ t.m = x
  BY <1>1, <1>3 DEF StateType, SameFiles
<1> HIDE DEF t
<1>5. RecordGood(t) /\ RecordKept(s, t)
  BY <1>1, <1>3, <1>4 DEF RecordGood, RecordKept, StampFacts, ChangeFacts, ExitFacts, LeaseFacts,
     StopFacts, NameFacts, SameFiles, Same, Watched
<1> QED BY <1>2, <1>4, <1>5, CommitKeeps DEF s

LEMMA ChildDiesKeeps ==
  ASSUME RecordInv, R!ChildDies PROVE RecordInv' /\ RecordKept(R!State, R!State')
<1> DEFINE s == R!State
           t == [s EXCEPT !.child = "gone"]
<1>1. RecordGood(s) /\ s \in StateType BY DEF RecordInv, RecordGood
<1>2. R!Commit(t) BY DEF R!ChildDies, R!Commit, R!State
<1> HIDE DEF s
<1>3. t \in StateType /\ SameFiles(s, t) /\ t.child = "gone" /\ t.m = s.m BY <1>1 DEF StateType, SameFiles
<1> HIDE DEF t
<1>4. RecordGood(t) /\ RecordKept(s, t)
  BY <1>1, <1>3 DEF RecordGood, RecordKept, StampFacts, ChangeFacts, ExitFacts, LeaseFacts, StopFacts,
     NameFacts, SameFiles
<1> QED BY <1>2, <1>3, <1>4, CommitKeeps DEF s

LEMMA OtherLockKeeps ==
  ASSUME RecordInv, R!OtherLock PROVE RecordInv' /\ RecordKept(R!State, R!State')
<1> DEFINE s == R!State
           t == s'
<1>1. RecordGood(s) /\ s \in StateType /\ s.lock = lock /\ s.count = count
  BY StateFields DEF RecordInv, RecordGood
<1>2. t = [m |-> m, child |-> child, row |-> row, side |-> side, files |-> files,
           lock |-> lock', count |-> count'] BY DEF R!OtherLock, R!State
<1>a. lock' \in BOOLEAN BY DEF R!OtherLock
<1>3. count' \in [change : Nat, lock : Nat, cas : Nat, attach : Nat] /\ count'.attach = count.attach
  <2>1. count \in [change : Nat, lock : Nat, cas : Nat, attach : Nat] BY <1>1 DEF StateType
  <2> QED BY <2>1 DEF R!OtherLock
<1> HIDE DEF s, t
<1>4. /\ t \in StateType /\ t.m = s.m /\ t.child = s.child /\ t.row = s.row /\ t.side = s.side
      /\ t.files = s.files /\ t.count.attach = s.count.attach
  BY <1>1, <1>2, <1>3, <1>a, StateFields DEF StateType, s
<1>5. RecordGood(t) /\ RecordKept(s, t)
  BY <1>1, <1>4 DEF RecordGood, RecordKept, StampFacts, ChangeFacts, ExitFacts, LeaseFacts, StopFacts,
     NameFacts
<1> QED BY <1>5 DEF s, t, RecordInv

LEMMA ReplaceKeeps ==
  ASSUME RecordInv, R!Replace PROVE RecordInv' /\ RecordKept(R!State, R!State')
<1> DEFINE s == R!State
           t == s'
           r == [s.row EXCEPT !.gen = "other", !.exit = FALSE, !.tag = "none"]
<1>1. RecordGood(s) /\ s \in StateType /\ s.row = row BY StateFields DEF RecordInv, RecordGood
<1>2. t = [m |-> m, child |-> child, row |-> r, side |-> [gen |-> "other", stamp |-> 0],
           files |-> "other", lock |-> lock, count |-> count] BY <1>1 DEF R!Replace, R!State
<1>3. s.row.gen # "other" BY <1>1 DEF R!Replace
<1> HIDE DEF s, t
<1>4. r \in RowType /\ r.gen = "other" BY <1>1 DEF StateType, RowType, RTags, Gens
<1> HIDE DEF r
<1>5. /\ t \in StateType /\ t.m = s.m /\ t.child = s.child /\ t.row = r /\ t.files = "other"
      /\ t.count = s.count BY <1>1, <1>2, <1>4, StateFields DEF StateType, Gens, s
<1>6. RecordGood(t)
  BY <1>1, <1>4, <1>5 DEF RecordGood, StampFacts, ChangeFacts, ExitFacts, LeaseFacts, StopFacts, NameFacts
<1>7. RecordKept(s, t) BY <1>1, <1>3, <1>4, <1>5 DEF RecordKept, RecordGood, NameFacts
<1> QED BY <1>6, <1>7 DEF s, t, RecordInv

----------------------------------------------------------------------------
(* The end of the child and of the daemon. *)

LEMMA GoodTypes ==
  ASSUME NEW s, RecordGood(s)
  PROVE  /\ s \in StateType /\ s.m \in DaemonType /\ s.row \in RowType
         /\ s.row.gen \in {"us", "none", "other"} /\ s.files \in {"us", "none", "other"}
         /\ s.lock \in BOOLEAN
BY DEF RecordGood, StateType, RowType, Gens

LEMMA StatusIs ==
  ASSUME NEW s \in StateType
  PROVE  /\ R!Status(s) = "ok" <=> ~s.lock /\ s.row.gen = "us"
         /\ R!Status(s) = "busy" <=> s.lock
<1>1. s.row.gen \in {"us", "none", "other"} /\ s.lock \in BOOLEAN BY DEF StateType, RowType, Gens
<1> QED BY <1>1 DEF R!Status

(* A terminal value of the lease is written, where that leaves no tree *)
(* stopped behind a disarmed lease. *)
LEMMA SettleKeeps ==
  ASSUME NEW s, RecordGood(s), NEW c \in R!Terminal, NEW t, Settled(s, t, c),
         \/ s.child # "stopped" \/ s.m.shut
         \/ c \in {"deadline", "unavailable"} /\ s.row.gen # "other"
  PROVE  RecordGood(t) /\ RecordKept(s, t)
<1>1. s \in StateType /\ t \in StateType BY DEF RecordGood, Settled
<1>2. CASE t = s BY <1>2 DEF RecordKept
<1>3. CASE t.row = s.row /\ s.row.gen = "other" /\ t.m.disarmed /\ Same(t.m, s.m, {"disarmed"})
  BY <1>1, <1>3 DEF RecordGood, RecordKept, Settled, StampFacts, ChangeFacts, ExitFacts, LeaseFacts,
     StopFacts, NameFacts, Same, Watched
<1>4. CASE /\ s.m.lease # "none" /\ s.m.terminal = "none" /\ t.m.terminal = c /\ t.m.disarmed
           /\ s.row.gen = "us" /\ t.row = [s.row EXCEPT !.tag = c]
           /\ Same(t.m, s.m, {"terminal", "disarmed"})
  <2>1. /\ t.row.gen = "us" /\ t.row.tag = c /\ t.row.cgen = s.row.cgen
        /\ t.row.attach = s.row.attach /\ t.row.exit = s.row.exit /\ t.row.out = s.row.out
    BY <1>1, <1>4 DEF StateType, RowType
  <2>2. c # "none" /\ c # "starting" BY DEF R!Terminal
  <2>3. StampFacts(t) /\ ChangeFacts(t) /\ ExitFacts(t) /\ NameFacts(t)
    BY <1>4, <2>1 DEF RecordGood, Settled, StampFacts, ChangeFacts, ExitFacts, NameFacts, Same, Watched
  <2>4. LeaseFacts(t) BY <1>4, <2>1, <2>2 DEF RecordGood, LeaseFacts, Same, Watched
  <2>5. StopFacts(t) BY <1>4 DEF RecordGood, Settled, StopFacts, Same, Watched
  <2>6. RecordKept(s, t) BY <1>4 DEF RecordGood, RecordKept, Settled, LeaseFacts
  <2> QED BY <1>1, <2>3, <2>4, <2>5, <2>6 DEF RecordGood
<1> QED BY <1>2, <1>3, <1>4 DEF Settled

(* The exit is saved, or the record is not this daemon's to write. *)
Saved(s, t) ==
  /\ t \in StateType /\ t.m = s.m /\ t.child = s.child /\ t.files = s.files
  /\ t.lock = s.lock /\ t.count = s.count
  /\ \/ t = s /\ (s.lock \/ s.row.gen # "us")
     \/ /\ s.row.gen = "us" /\ t.side.gen = "none"
        /\ t.row = [s.row EXCEPT !.exit = TRUE, !.out = s.m.out]

LEMMA SaveDoes == ASSUME NEW s \in StateType PROVE Saved(s, R!SaveExitMetadata(s))
<1> DEFINE r == [s.row EXCEPT !.exit = TRUE, !.out = s.m.out]
           none == [gen |-> "none", stamp |-> 0]
           t == [s EXCEPT !.row = r, !.side = none]
<1>0. none \in [gen : Gens, stamp : Int] /\ none.gen = "none" BY DEF Gens
<1>1. s.row \in RowType /\ s.m.out \in Int BY DEF StateType, DaemonType
<1>2. r \in RowType BY <1>1 DEF RowType
<1>3. ~s.lock /\ s.row.gen = "us" => R!SaveExitMetadata(s) = t BY StatusIs DEF R!SaveExitMetadata
<1>4. ~(~s.lock /\ s.row.gen = "us") => R!SaveExitMetadata(s) = s BY StatusIs DEF R!SaveExitMetadata
<1>5. ASSUME s.row.gen = "us" PROVE Saved(s, t)
  <2>1. /\ t \in StateType /\ t.m = s.m /\ t.child = s.child /\ t.files = s.files
        /\ t.lock = s.lock /\ t.count = s.count /\ t.side.gen = "none" /\ t.row = r
    <3> HIDE DEF r, none
    <3> QED BY <1>0, <1>2 DEF StateType
  <2> HIDE DEF t
  <2> QED BY <1>5, <2>1 DEF Saved
<1> QED BY <1>3, <1>4, <1>5 DEF Saved

LEMMA SaveKeeps ==
  ASSUME NEW s, RecordGood(s), NEW t, Saved(s, t)
  PROVE  /\ RecordGood(t) /\ RecordKept(s, t) /\ t.row.gen = s.row.gen
         /\ s.row.gen = "us" /\ ~s.lock => t.row.exit /\ t.row.out = t.m.out
<1>1. s \in StateType /\ t \in StateType BY DEF RecordGood, Saved
<1>2. CASE t = s /\ (s.lock \/ s.row.gen # "us") BY <1>2 DEF RecordKept
<1>3. CASE /\ s.row.gen = "us" /\ t.side.gen = "none"
           /\ t.row = [s.row EXCEPT !.exit = TRUE, !.out = s.m.out]
  <2>1. /\ t.row.gen = "us" /\ t.row.tag = s.row.tag /\ t.row.cgen = s.row.cgen
        /\ t.row.attach = s.row.attach /\ t.row.exit /\ t.row.out = s.m.out
    BY <1>1, <1>3 DEF StateType, RowType
  <2>2. RecordGood(t)
    BY <1>1, <1>3, <2>1 DEF Saved, RecordGood, StampFacts, ChangeFacts, ExitFacts, LeaseFacts, StopFacts,
       NameFacts
  <2>3. RecordKept(s, t) BY <1>3, <2>1 DEF Saved, RecordKept, RecordGood, NameFacts
  <2> QED BY <1>3, <2>1, <2>2, <2>3 DEF Saved
<1> QED BY <1>2, <1>3 DEF Saved

(* The daemon learns of the end of a child that is gone. *)
LEMMA ExitingKeeps ==
  ASSUME NEW s, RecordGood(s), s.child = "gone", s.m.phase \notin {"reaping", "ended"},
         NEW x \in DaemonType, Same(x, s.m, {"shut", "status", "eof", "drain", "exited"})
  PROVE  LET t == [s EXCEPT !.m = x] IN
         t \in StateType /\ RecordGood(t) /\ RecordKept(s, t) /\ SameFiles(s, t) /\ t.child = "gone" /\ t.m = x
<1> DEFINE t == [s EXCEPT !.m = x]
<1>1. s \in StateType BY DEF RecordGood
<1>2. t \in StateType /\ SameFiles(s, t) /\ t.child = s.child /\ t.m = x BY <1>1 DEF StateType, SameFiles
<1> HIDE DEF t
<1>3. RecordGood(t) /\ RecordKept(s, t)
  BY <1>1, <1>2 DEF RecordGood, RecordKept, StampFacts, ChangeFacts, ExitFacts, LeaseFacts, StopFacts,
     NameFacts, SameFiles, Same, Watched
<1> QED BY <1>2, <1>3 DEF t

LEMMA KeptTransitive ==
  ASSUME NEW s, NEW t, NEW u, RecordKept(s, t), RecordKept(t, u),
         t.row.gen = s.row.gen
  PROVE  RecordKept(s, u)
BY DEF RecordKept

(* finalize_exit: the lease, then the exit record. *)
LEMMA FinalizeKeeps ==
  ASSUME NEW s, RecordGood(s), s.child = "gone", s.m.phase \notin {"reaping", "ended"}
  PROVE  RecordGood(R!FinalizeExit(s)) /\ RecordKept(s, R!FinalizeExit(s))
<1> DEFINE a == R!SettleStartupLifecycle(s, "exit", TRUE)
           xb == [a.m EXCEPT !.exited = TRUE, !.drain = FALSE]
           b == [a EXCEPT !.m = xb]
           c == R!SaveExitMetadata(b)
           retry == R!Status(b) = "busy"
           grace == ~s.m.shut
           xe == [c.m EXCEPT !.exitRetry = retry, !.grace = grace]
           e == [c EXCEPT !.m = xe]
<1>1. s \in StateType /\ s.m.shut \in BOOLEAN BY DEF RecordGood, StateType, DaemonType
<1>2. Settled(s, a, "exit") BY <1>1, SettleDoes DEF R!Terminal
<1>3. RecordGood(a) /\ RecordKept(s, a) BY <1>2, SettleKeeps DEF R!Terminal
<1>4. /\ a \in StateType /\ a.m \in DaemonType /\ a.child = "gone" /\ a.m.phase = s.m.phase
      /\ a.row.gen = s.row.gen
  <2>1. a \in StateType /\ a.child = "gone" BY <1>2 DEF Settled
  <2>2. a.m \in DaemonType BY <2>1 DEF StateType
  <2>3. a.m.phase = s.m.phase BY <1>2 DEF Settled, Same, Watched
  <2>4. a.row.gen = s.row.gen
    <3>1. s.row \in RowType BY <1>1 DEF StateType
    <3> QED BY ZenonT(60), <1>2, <3>1 DEF Settled, RowType
  <2> QED BY <2>1, <2>2, <2>3, <2>4
<1>5. R!FinalizeExit(s) = [R!SaveExitMetadata([a EXCEPT !.m.exited = TRUE, !.m.drain = FALSE]) EXCEPT
         !.m.exitRetry = R!Status([a EXCEPT !.m.exited = TRUE, !.m.drain = FALSE]) = "busy", !.m.grace = ~s.m.shut]
  BY Zenon DEF R!FinalizeExit
<1> HIDE DEF a
<1>6. b = [a EXCEPT !.m.exited = TRUE, !.m.drain = FALSE] BY <1>4 DEF StateType
<1>7. xb \in DaemonType /\ Same(xb, a.m, {"drain", "exited"}) BY ZenonT(60), <1>4 DEF DaemonType, Same, Watched
<1> HIDE DEF xb
<1>8. Same(xb, a.m, {"shut", "status", "eof", "drain", "exited"}) BY <1>7 DEF Same, Watched
<1>9. /\ b \in StateType /\ RecordGood(b) /\ RecordKept(a, b) /\ SameFiles(a, b) /\ b.child = "gone" /\ b.m = xb
  BY <1>3, <1>4, <1>7, <1>8, ExitingKeeps
<1> HIDE DEF b
<1>10. Saved(b, c) BY <1>9, SaveDoes
<1> HIDE DEF c
<1>11. RecordGood(c) /\ RecordKept(b, c) /\ c.row.gen = b.row.gen BY <1>9, <1>10, SaveKeeps
<1>12. c \in StateType /\ c.m = xb /\ c.child = "gone" BY <1>9, <1>10 DEF Saved
<1>13. retry \in BOOLEAN /\ grace \in BOOLEAN BY Zenon
<1>14. R!FinalizeExit(s) = e
  <2>1. R!FinalizeExit(s) = [c EXCEPT !.m.exitRetry = retry, !.m.grace = grace] BY <1>5, <1>6, Zenon DEF c
  <2> HIDE DEF retry, grace
  <2> QED BY <2>1, <1>12 DEF StateType
<1> HIDE DEF retry, grace
<1>15. xe \in DaemonType /\ Same(xe, c.m, {"shut", "status", "eof", "drain", "exited"})
  <2> DEFINE z1 == [c.m EXCEPT !.exitRetry = retry]
  <2>1. c.m \in DaemonType BY <1>7, <1>12
  <2>2. z1 \in DaemonType /\ Same(z1, c.m, {}) BY <1>13, <2>1 DEF DaemonType, Same, Watched
  <2>3. xe = [z1 EXCEPT !.grace = grace] OBVIOUS
  <2> HIDE DEF z1, xe
  <2>4. xe \in DaemonType /\ Same(xe, z1, {}) BY <1>13, <2>2, <2>3 DEF DaemonType, Same, Watched
  <2> QED BY <2>2, <2>4 DEF Same, Watched
<1>16. c.m.phase \notin {"reaping", "ended"} BY <1>4, <1>7, <1>12 DEF Same, Watched
<1> HIDE DEF xe
<1>17. RecordGood(e) /\ RecordKept(c, e) /\ SameFiles(c, e) BY <1>11, <1>12, <1>15, <1>16, ExitingKeeps
<1> HIDE DEF e
<1>18. RecordKept(s, b) BY <1>3, <1>4, <1>9, KeptTransitive
<1>19. RecordKept(s, c) BY <1>4, <1>9, <1>11, <1>18, KeptTransitive DEF SameFiles
<1>20. RecordKept(s, e) BY <1>4, <1>9, <1>11, <1>17, <1>19, KeptTransitive DEF SameFiles
<1> QED BY <1>14, <1>17, <1>20

LEMMA ChildExitedKeeps ==
  ASSUME RecordInv, R!ChildExited PROVE RecordInv' /\ RecordKept(R!State, R!State')
<1> DEFINE s == R!State
           x == [s.m EXCEPT !.status = TRUE]
           t == [s EXCEPT !.m = x]
           y == [t.m EXCEPT !.drain = TRUE]
           u == [t EXCEPT !.m = y]
<1>1. RecordGood(s) /\ s \in StateType /\ s.m \in DaemonType /\ s.m = m /\ s.child = child
  BY StateFields, GoodTypes DEF RecordInv
<1>2. R!Commit(R!OnChildExited(s)) /\ s.child = "gone" /\ s.m.phase \notin {"reaping", "ended"}
  BY <1>1 DEF R!ChildExited, R!Bridged, R!Serving
<1> HIDE DEF s
<1>3. t = [s EXCEPT !.m.status = TRUE] BY <1>1 DEF StateType
<1>4. x \in DaemonType /\ Same(x, s.m, {"shut", "status", "eof", "drain", "exited"}) /\ x.phase = s.m.phase
  BY ZenonT(60), <1>1 DEF DaemonType, Same, Watched
<1> HIDE DEF x
<1>5. t \in StateType /\ RecordGood(t) /\ RecordKept(s, t) /\ SameFiles(s, t) /\ t.child = "gone" /\ t.m = x
  BY <1>1, <1>2, <1>4, ExitingKeeps
<1> HIDE DEF t
<1>6. u = [t EXCEPT !.m.drain = TRUE] BY <1>5 DEF StateType
<1>7. y \in DaemonType /\ Same(y, t.m, {"shut", "status", "eof", "drain", "exited"})
  BY ZenonT(60), <1>4, <1>5 DEF DaemonType, Same, Watched
<1> HIDE DEF y
<1>8. t.m.phase \notin {"reaping", "ended"} BY <1>2, <1>4, <1>5
<1>9. u \in StateType /\ RecordGood(u) /\ RecordKept(t, u) BY <1>5, <1>7, <1>8, ExitingKeeps
<1>10. RecordGood(R!FinalizeExit(t)) /\ RecordKept(t, R!FinalizeExit(t)) BY <1>5, <1>8, FinalizeKeeps
<1>11. R!FinalizeExit(t) \in StateType BY <1>10 DEF RecordGood
<1>12. R!OnChildExited(s) \in {t, u, R!FinalizeExit(t)} BY <1>3, <1>6 DEF R!OnChildExited
<1> HIDE DEF u
<1>13. RecordKept(s, u) /\ RecordKept(s, R!FinalizeExit(t)) BY <1>5, <1>9, <1>10, KeptTransitive DEF SameFiles
<1> QED BY <1>2, <1>5, <1>9, <1>10, <1>11, <1>12, <1>13, CommitKeeps DEF s

LEMMA PtyEofKeeps ==
  ASSUME RecordInv, R!PtyEof PROVE RecordInv' /\ RecordKept(R!State, R!State')
<1> DEFINE s == R!State
           x == [s.m EXCEPT !.eof = TRUE]
           t == [s EXCEPT !.m = x]
<1>1. RecordGood(s) /\ s \in StateType /\ s.m \in DaemonType /\ s.m = m /\ s.child = child
  BY StateFields, GoodTypes DEF RecordInv
<1>2. R!Commit(R!OnPtyEof(s)) /\ s.child = "gone" /\ s.m.phase \notin {"reaping", "ended"}
  BY <1>1 DEF R!PtyEof, R!Bridged, R!Serving
<1> HIDE DEF s
<1>3. t = [s EXCEPT !.m.eof = TRUE] BY <1>1 DEF StateType
<1>4. x \in DaemonType /\ Same(x, s.m, {"shut", "status", "eof", "drain", "exited"}) /\ x.phase = s.m.phase
  BY ZenonT(60), <1>1 DEF DaemonType, Same, Watched
<1> HIDE DEF x
<1>5. t \in StateType /\ RecordGood(t) /\ RecordKept(s, t) /\ SameFiles(s, t) /\ t.child = "gone" /\ t.m = x
  BY <1>1, <1>2, <1>4, ExitingKeeps
<1> HIDE DEF t
<1>6. RecordGood(R!FinalizeExit(t)) /\ RecordKept(t, R!FinalizeExit(t)) BY <1>2, <1>4, <1>5, FinalizeKeeps
<1>7. R!FinalizeExit(t) \in StateType BY <1>6 DEF RecordGood
<1>8. R!OnPtyEof(s) \in {t, R!FinalizeExit(t)} BY <1>3 DEF R!OnPtyEof
<1>9. RecordKept(s, R!FinalizeExit(t)) BY <1>5, <1>6, KeptTransitive DEF SameFiles
<1> QED BY <1>2, <1>5, <1>6, <1>7, <1>8, <1>9, CommitKeeps DEF s

LEMMA DrainTimerKeeps ==
  ASSUME RecordInv, R!DrainTimer PROVE RecordInv' /\ RecordKept(R!State, R!State')
<1> DEFINE s == R!State
           x == [s.m EXCEPT !.drain = FALSE]
           t == [s EXCEPT !.m = x]
<1>1. RecordGood(s) /\ s \in StateType /\ s.m \in DaemonType /\ s.m = m BY StateFields, GoodTypes DEF RecordInv
<1>2. R!Commit(R!OnDrained(s)) /\ s.child = "gone" /\ s.m.phase \notin {"reaping", "ended"}
  BY <1>1 DEF R!DrainTimer, R!Bridged, R!Serving, RecordGood, StopFacts
<1> HIDE DEF s
<1>3. t = [s EXCEPT !.m.drain = FALSE] BY <1>1 DEF StateType
<1>4. x \in DaemonType /\ Same(x, s.m, {"shut", "status", "eof", "drain", "exited"}) /\ x.phase = s.m.phase
  BY ZenonT(60), <1>1 DEF DaemonType, Same, Watched
<1> HIDE DEF x
<1>5. t \in StateType /\ RecordGood(t) /\ RecordKept(s, t) /\ SameFiles(s, t) /\ t.child = "gone" /\ t.m = x
  BY <1>1, <1>2, <1>4, ExitingKeeps
<1> HIDE DEF t
<1>6. RecordGood(R!FinalizeExit(t)) /\ RecordKept(t, R!FinalizeExit(t)) BY <1>2, <1>4, <1>5, FinalizeKeeps
<1>7. R!FinalizeExit(t) \in StateType BY <1>6 DEF RecordGood
<1>8. R!OnDrained(s) \in {t, R!FinalizeExit(t)} BY <1>3 DEF R!OnDrained
<1>9. RecordKept(s, R!FinalizeExit(t)) BY <1>5, <1>6, KeptTransitive DEF SameFiles
<1> QED BY <1>2, <1>5, <1>6, <1>7, <1>8, <1>9, CommitKeeps DEF s

LEMMA ExitRetryTimerKeeps ==
  ASSUME RecordInv, R!ExitRetryTimer PROVE RecordInv' /\ RecordKept(R!State, R!State')
<1> DEFINE s == R!State
           c == R!SaveExitMetadata(s)
<1>1. RecordGood(s) /\ s \in StateType BY GoodTypes DEF RecordInv
<1>2. PICK late \in BOOLEAN : R!Commit([c EXCEPT !.m.exitRetry = R!Status(s) = "busy" /\ ~late])
  BY DEF R!ExitRetryTimer
<1> DEFINE again == R!Status(s) = "busy" /\ ~late
           x == [c.m EXCEPT !.exitRetry = again]
           t == [c EXCEPT !.m = x]
<1>3. again \in BOOLEAN BY Zenon
<1>4. R!Commit([c EXCEPT !.m.exitRetry = again]) BY <1>2
<1>5. Saved(s, c) BY <1>1, SaveDoes
<1> HIDE DEF s, again, c
<1>6. RecordGood(c) /\ RecordKept(s, c) /\ c.row.gen = s.row.gen BY <1>1, <1>5, SaveKeeps
<1>7. c \in StateType /\ c.m \in DaemonType BY <1>6, GoodTypes
<1>8. t = [c EXCEPT !.m.exitRetry = again] BY <1>7 DEF StateType
<1>9. x \in DaemonType /\ Same(x, c.m, {"shut"}) /\ x.shut = c.m.shut BY <1>3, <1>7 DEF DaemonType, Same, Watched
<1> HIDE DEF x
<1>10. t \in StateType /\ RecordGood(t) /\ RecordKept(c, t) BY <1>6, <1>9, QuietKeeps
<1> HIDE DEF t
<1>11. RecordKept(s, t) BY <1>6, <1>10, KeptTransitive
<1> QED BY <1>4, <1>8, <1>10, <1>11, CommitKeeps DEF s

----------------------------------------------------------------------------
(* The startup lease and its deadline. *)

LEMMA FreezeKeeps ==
  ASSUME NEW s, RecordGood(s), R!Expired(s), s.m.phase = "serving", NEW complete \in BOOLEAN
  PROVE  LET t == R!FreezeChildTree(s, complete) IN
         /\ RecordGood(t) /\ RecordKept(s, t) /\ SameFiles(s, t)
         /\ ~t.m.disarmed /\ t.m.terminal = "none"
<1> DEFINE tr == IF complete THEN "complete" ELSE "partial"
           ch == IF s.child = "up" THEN "stopped" ELSE s.child
           x == [s.m EXCEPT !.tree = tr, !.frozen = TRUE]
           t == [s EXCEPT !.m = x, !.child = ch]
<1>1. s \in StateType /\ s.m \in DaemonType BY GoodTypes
<1>2. s.m.lease = "timed" /\ ~s.m.disarmed /\ s.m.late BY DEF R!Expired
<1>3. s.m.terminal = "none" BY <1>2 DEF RecordGood, LeaseFacts
<1>4. x \in DaemonType /\ Same(x, s.m, {"frozen"}) /\ x.frozen BY ZenonT(60), <1>1 DEF DaemonType, Same, Watched
<1>5. ch \in {"up", "stopped", "gone"} /\ ch # "up" /\ (s.child = "gone" <=> ch = "gone")
  BY <1>1 DEF StateType
<1>6. s.m.tree = "none" => R!FreezeChildTree(s, complete) = t BY <1>1 DEF R!FreezeChildTree, StateType
<1> HIDE DEF x, ch
<1>7. t \in StateType /\ t.m = x /\ t.child = ch /\ SameFiles(s, t) BY <1>1, <1>4, <1>5 DEF StateType, SameFiles
<1> HIDE DEF t
<1>8. StopFacts(t) BY <1>2, <1>4, <1>5, <1>7 DEF StopFacts, RecordGood, Same, Watched
<1>9. RecordGood(t) /\ RecordKept(s, t)
  BY <1>4, <1>7, <1>8 DEF RecordGood, RecordKept, StampFacts, ChangeFacts, ExitFacts, LeaseFacts,
     NameFacts, SameFiles, Same, Watched
<1>10. ~t.m.disarmed /\ t.m.terminal = "none" BY <1>2, <1>3, <1>4, <1>7 DEF Same, Watched
<1>11. s.m.tree # "none" => R!FreezeChildTree(s, complete) = s BY DEF R!FreezeChildTree
<1>12. RecordKept(s, s) /\ SameFiles(s, s) BY DEF RecordKept, SameFiles
<1> QED BY <1>2, <1>3, <1>6, <1>7, <1>9, <1>10, <1>11, <1>12

(* A deadline refused for good lets the tree run on. *)
LEMMA ResumeKeeps ==
  ASSUME NEW s, RecordGood(s), NEW u, Settled(s, u, "deadline"), s.row.gen = "other", u.row = s.row,
         s.m.terminal = "none", Same(u.m, s.m, {"disarmed"})
  PROVE  LET t == R!ResumeFrozenTree(u) IN RecordGood(t) /\ RecordKept(s, t) /\ t.row.gen = "other"
<1> DEFINE ch == IF u.child = "stopped" THEN "up" ELSE u.child
           x == [u.m EXCEPT !.frozen = FALSE, !.tree = "none"]
           w0 == [u EXCEPT !.m = x, !.child = ch]
           t == R!ResumeFrozenTree(u)
<1>1. u \in StateType /\ u.m \in DaemonType /\ u.child = s.child /\ SameFiles(s, u)
  BY DEF Settled, StateType, SameFiles
<1>2. x \in DaemonType /\ Same(x, u.m, {"frozen"}) BY ZenonT(60), <1>1 DEF DaemonType, Same, Watched
<1>3. ch \in {"up", "stopped", "gone"} /\ ch # "stopped" /\ (u.child = "gone" => ch = "gone") BY <1>1 DEF StateType
<1>4. u.m.frozen => t = w0 BY <1>1 DEF R!ResumeFrozenTree, StateType
<1>5. ~u.m.frozen => t = u BY DEF R!ResumeFrozenTree
<1>6. ~u.m.frozen => u.child # "stopped" BY <1>1 DEF RecordGood, StopFacts, Same, Watched
<1> HIDE DEF x, ch, t
<1>7. w0 \in StateType /\ w0.m = x /\ w0.child = ch /\ SameFiles(u, w0) BY <1>1, <1>2, <1>3 DEF StateType, SameFiles
<1> HIDE DEF w0
<1>8. /\ t \in StateType /\ SameFiles(s, t) /\ t.child # "stopped" /\ (s.child = "gone" => t.child = "gone")
      /\ Same(t.m, s.m, {"disarmed", "frozen"})
  BY <1>1, <1>2, <1>3, <1>4, <1>5, <1>6, <1>7 DEF SameFiles, Same, Watched
<1>9. RecordGood(t)
  BY <1>8 DEF RecordGood, StampFacts, ChangeFacts, ExitFacts, LeaseFacts, StopFacts, NameFacts,
     SameFiles, Same, Watched
<1>10. RecordKept(s, t) BY <1>8 DEF RecordKept, SameFiles
<1> QED BY <1>8, <1>9, <1>10 DEF SameFiles, t

LEMMA DeadlineKeeps ==
  ASSUME NEW s, RecordGood(s), R!Expired(s), s.m.phase = "serving", NEW complete \in BOOLEAN
  PROVE  LET t == R!SettleStartupDeadline(s, complete) IN
         RecordGood(t) /\ RecordKept(s, t) /\ t.row.gen = s.row.gen
<1> DEFINE fr == R!FreezeChildTree(s, complete)
           c == R!Causes(fr.m.tree = "complete")
           u == R!SettleStartupLifecycle(fr, c, FALSE)
           t == R!SettleStartupDeadline(s, complete)
<1>1. RecordGood(fr) /\ RecordKept(s, fr) /\ SameFiles(s, fr) /\ ~fr.m.disarmed /\ fr.m.terminal = "none"
  BY FreezeKeeps
<1>2. t = IF u.m.terminal = "none" /\ u.m.disarmed THEN R!ResumeFrozenTree(u) ELSE u
  BY DEF R!SettleStartupDeadline
<1> SUFFICES RecordGood(t) /\ RecordKept(s, t) /\ t.row.gen = s.row.gen OBVIOUS
<1> HIDE DEF fr, t
<1>3. fr \in StateType BY <1>1, GoodTypes
<1>4. c \in {"deadline", "unavailable"} /\ c \in R!Terminal BY DEF R!Causes, R!Terminal
<1> HIDE DEF c
<1>5. Settled(fr, u, c) BY <1>3, <1>4, SettleDoes
<1> HIDE DEF u
<1>6. CASE u = fr BY <1>1, <1>2, <1>6 DEF SameFiles
<1>7. CASE u.row = fr.row /\ fr.row.gen = "other" /\ u.m.disarmed /\ Same(u.m, fr.m, {"disarmed"})
  <2>1. u.m.terminal = "none" BY <1>1, <1>7 DEF Same, Watched
  <2>2. t = R!ResumeFrozenTree(u) BY <1>2, <1>7, <2>1
  <2>3. Settled(fr, u, "deadline") BY <1>5, <1>7 DEF Settled
  <2>4. RecordGood(t) /\ RecordKept(fr, t) /\ t.row.gen = "other" BY <1>1, <1>7, <2>2, <2>3, ResumeKeeps
  <2> QED BY <1>1, <1>7, <2>4, KeptTransitive DEF SameFiles
<1>8. CASE /\ fr.m.lease # "none" /\ fr.m.terminal = "none" /\ u.m.terminal = c /\ u.m.disarmed
           /\ fr.row.gen = "us" /\ u.row = [fr.row EXCEPT !.tag = c]
           /\ Same(u.m, fr.m, {"terminal", "disarmed"})
  <2>1. t = u BY <1>2, <1>4, <1>8
  <2>2. RecordGood(u) /\ RecordKept(fr, u) BY <1>1, <1>4, <1>5, <1>8, SettleKeeps
  <2>3. u.row.gen = fr.row.gen BY <1>3, <1>8 DEF StateType, RowType
  <2> QED BY <1>1, <2>1, <2>2, <2>3, KeptTransitive DEF SameFiles
<1> QED BY <1>5, <1>6, <1>7, <1>8 DEF Settled

(* A lifecycle request that is let through. *)
LEMMA RequestKeeps ==
  ASSUME NEW s, RecordGood(s), s.row.gen = "us", ~s.m.shut, ~R!Expired(s),
         NEW e \in Expectable, NEW val \in Settable, s.row.tag = e,
         NEW t \in StateType, t.row = [s.row EXCEPT !.tag = val],
         t.child = s.child, t.side = s.side, t.files = s.files, t.lock = s.lock, t.count = s.count,
         Same(t.m, s.m, {"disarmed", "terminal"}),
         s.m.lease # "none" /\ e = "starting" /\ val # "starting" => t.m.disarmed,
         s.m.disarmed => t.m.disarmed,
         t.m.terminal = IF s.m.lease # "none" /\ val = "client" THEN "client" ELSE s.m.terminal
  PROVE  RecordGood(t)
<1>1. s \in StateType /\ s.m \in DaemonType /\ s.row \in RowType BY GoodTypes
<1>2. e # "none" /\ val # "none" /\ s.m.lease # "none"
  BY DEF RecordGood, LeaseFacts, Expectable, Settable, R!Terminal
<1>4. val # "starting" => t.m.disarmed BY <1>2 DEF RecordGood, LeaseFacts
<1>5. s.child = "stopped" => t.m.terminal # "none"
  <2>1. s.child = "stopped" => s.m.terminal # "none" BY DEF RecordGood, StopFacts, R!Expired
  <2> QED BY <2>1
<1>6. /\ t.row.gen = "us" /\ t.row.tag = val /\ t.row.cgen = s.row.cgen /\ t.row.attach = s.row.attach
      /\ t.row.exit = s.row.exit /\ t.row.out = s.row.out BY <1>1 DEF RowType
<1>7. StampFacts(t) /\ ChangeFacts(t) /\ ExitFacts(t) /\ NameFacts(t)
  BY <1>6 DEF RecordGood, StampFacts, ChangeFacts, ExitFacts, NameFacts, Same, Watched
<1>8. LeaseFacts(t) BY <1>2, <1>4, <1>6 DEF RecordGood, LeaseFacts, Same, Watched, R!Terminal, Settable
<1>9. StopFacts(t) BY <1>5 DEF RecordGood, StopFacts, Same, Watched
<1> QED BY <1>7, <1>8, <1>9 DEF RecordGood

(* A lifecycle request: refused, answered with the exit, late, or set. *)
LEMMA CasKeeps ==
  ASSUME NEW s, RecordGood(s), s.m.phase = "serving", ~s.m.shut,
         NEW e \in Expectable, NEW val \in Settable, NEW complete \in BOOLEAN
  PROVE  LET t == R!CompareAndSetLifecycle(s, e, val, complete)
         IN  RecordGood(t) /\ (RecordKept(s, t) \/ RecordAsked(s, t))
<1> DEFINE t == R!CompareAndSetLifecycle(s, e, val, complete)
<1> SUFFICES RecordGood(t) /\ (RecordKept(s, t) \/ RecordAsked(s, t)) OBVIOUS
<1>1. s \in StateType /\ s.m \in DaemonType /\ s.row \in RowType BY GoodTypes
<1>2. CASE s.row.gen # "us" BY <1>2 DEF R!CompareAndSetLifecycle, RecordKept
<1>3. CASE s.row.gen = "us" /\ s.m.exited
  <2> DEFINE u == R!SettleStartupLifecycle(s, "exit", TRUE)
  <2>1. t = u BY <1>3 DEF R!CompareAndSetLifecycle
  <2>2. "exit" \in R!Terminal BY DEF R!Terminal
  <2>3. Settled(s, u, "exit") BY <1>1, <2>2, SettleDoes
  <2>4. s.child = "gone" BY <1>3 DEF RecordGood, StopFacts
  <2> HIDE DEF u, t
  <2> QED BY <2>1, <2>2, <2>3, <2>4, SettleKeeps
<1>4. CASE s.row.gen = "us" /\ ~s.m.exited /\ R!Expired(s)
  <2> DEFINE u == R!SettleStartupDeadline(s, complete)
             x == [u.m EXCEPT !.pending = TRUE, !.timer = TRUE]
             w0 == [u EXCEPT !.m = x]
  <2>1. RecordGood(u) /\ RecordKept(s, u) /\ u.row.gen = s.row.gen BY <1>4, DeadlineKeeps
  <2>2. t = IF u.m.terminal = "none" THEN u ELSE [u EXCEPT !.m.pending = TRUE, !.m.timer = TRUE]
    BY <1>4 DEF R!CompareAndSetLifecycle
  <2> HIDE DEF u, t
  <2>3. u \in StateType /\ u.m \in DaemonType BY <2>1, GoodTypes
  <2>4. w0 = [u EXCEPT !.m.pending = TRUE, !.m.timer = TRUE] BY <2>3 DEF StateType
  <2>5. x \in DaemonType /\ Same(x, u.m, {"shut"}) /\ (u.m.shut => x.shut) BY ZenonT(60), <2>3 DEF DaemonType, Same, Watched
  <2> HIDE DEF x
  <2>6. RecordGood(w0) /\ RecordKept(u, w0) BY <2>1, <2>5, QuietKeeps
  <2> HIDE DEF w0
  <2>7. RecordKept(s, w0) BY <2>1, <2>6, KeptTransitive
  <2> QED BY <2>1, <2>2, <2>4, <2>6, <2>7
<1>5. CASE s.row.gen = "us" /\ ~s.m.exited /\ ~R!Expired(s) /\ (R!Status(s) # "ok" \/ s.row.tag # e)
  BY <1>5 DEF R!CompareAndSetLifecycle, RecordKept
<1>6. CASE s.row.gen = "us" /\ ~s.m.exited /\ ~R!Expired(s) /\ R!Status(s) = "ok" /\ s.row.tag = e
  <2> DEFINE leased == s.m.lease # "none"
             r == [s.row EXCEPT !.tag = val]
             y0 == [s.m EXCEPT !.disarmed = TRUE, !.timer = FALSE]
             y == IF leased /\ e = "starting" /\ val # "starting" THEN y0 ELSE s.m
             x0 == [y EXCEPT !.terminal = val]
             x == IF leased /\ val = "client" THEN x0 ELSE y
             u == [s EXCEPT !.row = r, !.m = x]
             set == [s EXCEPT !.row.tag = val]
             off == IF leased /\ e = "starting" /\ val # "starting"
                    THEN [set EXCEPT !.m.disarmed = TRUE, !.m.timer = FALSE] ELSE set
  <2>1. t = IF leased /\ val = "client" THEN [off EXCEPT !.m.terminal = val] ELSE off
    BY <1>6 DEF R!CompareAndSetLifecycle
  <2>2. set = [s EXCEPT !.row = r] BY <1>1 DEF StateType
  <2>3. off = [s EXCEPT !.row = r, !.m = y]
    <3>1. [set EXCEPT !.m.disarmed = TRUE, !.m.timer = FALSE] = [s EXCEPT !.row = r, !.m = y0]
      BY <1>1, <2>2 DEF StateType
    <3>2. set = [s EXCEPT !.row = r, !.m = s.m] BY <1>1, <2>2 DEF StateType
    <3> QED BY <3>1, <3>2
  <2>4. r \in RowType
    <3>1. val \in RTags BY DEF RTags, R!Terminal, Settable
    <3> QED BY <1>1, <3>1 DEF RowType
  <2>5. /\ y \in DaemonType /\ Same(y, s.m, {"disarmed"}) /\ (s.m.disarmed => y.disarmed)
        /\ (leased /\ e = "starting" /\ val # "starting" => y.disarmed)
    <3>1. y0 \in DaemonType /\ Same(y0, s.m, {"disarmed"}) /\ y0.disarmed BY ZenonT(60), <1>1 DEF DaemonType, Same, Watched
    <3>2. Same(s.m, s.m, {"disarmed"}) BY DEF Same
    <3> HIDE DEF y0
    <3> QED BY <1>1, <3>1, <3>2
  <2> HIDE DEF off, set, r, y, t
  <2>6. t = u
    <3>1. [off EXCEPT !.m.terminal = val] = [s EXCEPT !.row = r, !.m = x0] BY <1>1, <2>3 DEF StateType
    <3> QED BY <2>1, <2>3, <3>1
  <2>7. /\ x \in DaemonType /\ Same(x, y, {"terminal"}) /\ x.disarmed = y.disarmed
        /\ x.terminal = IF leased /\ val = "client" THEN "client" ELSE s.m.terminal
    <3>1. y.terminal = s.m.terminal BY <2>5 DEF Same, Watched
    <3>2. CASE leased /\ val = "client"
      <4>1. "client" \in {"none"} \cup R!Terminal BY DEF R!Terminal
      <4> QED BY <2>5, <3>2, <4>1 DEF DaemonType, Same, Watched
    <3>3. CASE ~(leased /\ val = "client") BY <2>5, <3>1, <3>3 DEF Same
    <3> QED BY <3>2, <3>3
  <2> HIDE DEF x
  <2>8. /\ u \in StateType /\ u.row = r /\ u.m = x /\ u.child = s.child /\ u.side = s.side /\ u.files = s.files
        /\ u.lock = s.lock /\ u.count = s.count BY <1>1, <2>4, <2>7 DEF StateType
  <2> HIDE DEF u
  <2>9. Same(u.m, s.m, {"disarmed", "terminal"}) BY <2>5, <2>7, <2>8 DEF Same, Watched
  <2>10. RecordAsked(s, u) BY <1>6, <2>8 DEF RecordAsked, RecordGood, NameFacts
  <2>11. /\ s.m.lease # "none" /\ e = "starting" /\ val # "starting" => u.m.disarmed
         /\ s.m.disarmed => u.m.disarmed
         /\ u.m.terminal = IF s.m.lease # "none" /\ val = "client" THEN "client" ELSE s.m.terminal
    BY <2>5, <2>7, <2>8
  <2>12. u.row = [s.row EXCEPT !.tag = val] BY <2>8 DEF r
  <2>13. RecordGood(u) BY <1>6, <2>8, <2>9, <2>11, <2>12, RequestKeeps
  <2> QED BY <2>6, <2>10, <2>13
<1> QED BY <1>2, <1>3, <1>4, <1>5, <1>6

LEMMA LifecycleCasKeeps ==
  ASSUME RecordInv, R!LifecycleCas
  PROVE  RecordInv' /\ (RecordKept(R!State, R!State') \/ (R!SuccessorUntouched /\ R!FirstTerminalStands))
<1> DEFINE s == R!State
           s0 == R!Once("cas", MaxCas)
<1>1. RecordGood(s) /\ s \in StateType /\ s.m = m BY StateFields, GoodTypes DEF RecordInv
<1>2. PICK e \in Expectable, val \in Settable, complete \in BOOLEAN :
        R!Commit(R!CompareAndSetLifecycle(s0, e, val, complete)) BY DEF R!LifecycleCas, Expectable, Settable
<1>3. s.m.phase = "serving" /\ ~s.m.shut BY <1>1 DEF R!LifecycleCas, R!Serving
<1>4. s0 = [s EXCEPT !.count.cas = @ + 1] BY DEF R!Once
<1> HIDE DEF s, s0
<1>5. /\ s0 \in StateType /\ s0.m = s.m /\ s0.row = s.row /\ s0.side = s.side /\ s0.files = s.files
      /\ s0.child = s.child /\ s0.count.attach = s.count.attach BY <1>1, <1>4 DEF StateType
<1>6. RecordGood(s0) /\ RecordKept(s, s0)
  BY <1>1, <1>5 DEF RecordGood, RecordKept, StampFacts, ChangeFacts, ExitFacts, LeaseFacts, StopFacts, NameFacts
<1> DEFINE t == R!CompareAndSetLifecycle(s0, e, val, complete)
<1>7. RecordGood(t) /\ (RecordKept(s0, t) \/ RecordAsked(s0, t)) BY <1>3, <1>5, <1>6, CasKeeps
<1> HIDE DEF t
<1>9. t \in StateType BY <1>7, GoodTypes
<1>10. CASE RecordKept(s0, t)
  <2>1. RecordKept(s, t) BY <1>5, <1>6, <1>10, KeptTransitive
  <2> QED BY <1>2, <1>7, <1>9, <2>1, CommitKeeps DEF s, t
<1>11. CASE RecordAsked(s0, t)
  <2>0. R!Commit(t) BY <1>2 DEF t
  <2>1. R!State' = t /\ count' = t.count BY <1>9, <2>0, CommitIs
  <2>6. RecordInv' BY <1>7, <2>1 DEF RecordInv
  <2>2. s.row = row /\ s.side = side /\ s.files = files /\ s.count = count BY StateFields DEF s
  <2>3. row.gen = "us" /\ side.gen # "other" /\ files # "other" /\ ~m.exited /\ m.phase = "serving" /\ ~m.shut
    BY <1>1, <1>5, <1>11, <2>2 DEF RecordAsked
  <2>4. count' = s0.count BY <1>11, <2>1 DEF RecordAsked
  <2>5. count'.cas = count.cas + 1 BY <1>1, <1>4, <2>2, <2>4 DEF StateType
  <2> QED BY <2>3, <2>5, <2>6 DEF R!SuccessorUntouched, R!FirstTerminalStands, R!Serving
<1> QED BY <1>7, <1>10, <1>11

LEMMA StartupTimerKeeps ==
  ASSUME RecordInv, R!StartupTimer PROVE RecordInv' /\ RecordKept(R!State, R!State')
<1> DEFINE s == R!State
<1>1. RecordGood(s) /\ s \in StateType /\ s.m = m /\ s.m \in DaemonType BY StateFields, GoodTypes DEF RecordInv
<1>2. PICK complete \in BOOLEAN : R!Commit(R!LeaseTimer(s, complete)) BY DEF R!StartupTimer
<1>3. s.m.phase = "serving" BY <1>1 DEF R!StartupTimer, R!Serving
<1> HIDE DEF s
<1> DEFINE t == R!LeaseTimer(s, complete)
<1>4. RecordGood(t) /\ RecordKept(s, t)
  <2>0. s.m.pending \in BOOLEAN /\ s.m.disarmed \in BOOLEAN BY <1>1 DEF DaemonType
  <2>1. CASE s.m.pending
    <3> DEFINE x == [s.m EXCEPT !.pending = FALSE, !.timer = FALSE, !.external = TRUE, !.shut = TRUE]
    <3>1. t = [s EXCEPT !.m.pending = FALSE, !.m.timer = FALSE, !.m.external = TRUE, !.m.shut = TRUE]
      BY <2>1 DEF R!LeaseTimer
    <3>2. t = [s EXCEPT !.m = x] BY <1>1, <3>1 DEF StateType
    <3>3. x \in DaemonType /\ Same(x, s.m, {"shut"}) /\ (s.m.shut => x.shut) BY ZenonT(60), <1>1 DEF DaemonType, Same, Watched
    <3> HIDE DEF x, t
    <3> QED BY <1>1, <3>2, <3>3, QuietKeeps
  <2>2. CASE ~s.m.pending /\ (s.m.disarmed \/ s.m.lease # "timed")
    <3> DEFINE x == [s.m EXCEPT !.timer = FALSE]
    <3>1. t = [s EXCEPT !.m.timer = FALSE] BY <2>2 DEF R!LeaseTimer, R!Expired
    <3>2. t = [s EXCEPT !.m = x] BY <1>1, <3>1 DEF StateType
    <3>3. x \in DaemonType /\ Same(x, s.m, {"shut"}) /\ (s.m.shut => x.shut) BY ZenonT(60), <1>1 DEF DaemonType, Same, Watched
    <3> HIDE DEF x, t
    <3> QED BY <1>1, <3>2, <3>3, QuietKeeps
  <2>3. CASE ~s.m.pending /\ R!Expired(s)
    <3> DEFINE u == R!SettleStartupDeadline(s, complete)
               x == [u.m EXCEPT !.timer = TRUE]
               y == [u.m EXCEPT !.external = TRUE, !.shut = TRUE]
               wx == [u EXCEPT !.m = x]
               wy == [u EXCEPT !.m = y]
    <3>1. RecordGood(u) /\ RecordKept(s, u) /\ u.row.gen = s.row.gen BY <1>1, <1>3, <2>3, DeadlineKeeps
    <3>2. t = IF u.m.terminal = "none" THEN [u EXCEPT !.m.timer = TRUE]
              ELSE [u EXCEPT !.m.external = TRUE, !.m.shut = TRUE] BY <2>3 DEF R!LeaseTimer, R!Expired
    <3> HIDE DEF u, t
    <3>3. u \in StateType /\ u.m \in DaemonType BY <3>1, GoodTypes
    <3>4. wx = [u EXCEPT !.m.timer = TRUE] /\ wy = [u EXCEPT !.m.external = TRUE, !.m.shut = TRUE]
      BY <3>3 DEF StateType
    <3>5. x \in DaemonType /\ Same(x, u.m, {"shut"}) /\ (u.m.shut => x.shut) BY ZenonT(60), <3>3 DEF DaemonType, Same, Watched
    <3>6. y \in DaemonType /\ Same(y, u.m, {"shut"}) /\ (u.m.shut => y.shut) BY ZenonT(60), <3>3 DEF DaemonType, Same, Watched
    <3> HIDE DEF x, y
    <3>7. RecordGood(wx) /\ RecordKept(u, wx) BY <3>1, <3>5, QuietKeeps
    <3>8. RecordGood(wy) /\ RecordKept(u, wy) BY <3>1, <3>6, QuietKeeps
    <3> HIDE DEF wx, wy
    <3>9. RecordKept(s, wx) /\ RecordKept(s, wy) BY <3>1, <3>7, <3>8, KeptTransitive
    <3> QED BY <3>2, <3>4, <3>7, <3>8, <3>9
  <2>4. CASE ~s.m.pending /\ ~(s.m.disarmed \/ s.m.lease # "timed") /\ ~R!Expired(s)
    <3>1. t = s BY <2>4 DEF R!LeaseTimer
    <3> QED BY <1>1, <3>1 DEF RecordKept
  <2> QED BY <2>0, <2>1, <2>2, <2>3, <2>4
<1> HIDE DEF t
<1>5. t \in StateType BY <1>4, GoodTypes
<1> QED BY <1>2, <1>4, <1>5, CommitKeeps DEF s, t

----------------------------------------------------------------------------
(* close() and the backstop. *)

LEMMA CloseLeaseKeeps ==
  ASSUME RecordInv, R!CloseLease PROVE RecordInv' /\ RecordKept(R!State, R!State')
<1> DEFINE s == R!State
           u == R!SettleStartupLifecycle(s, "exit", TRUE)
           tr == IF u.m.external /\ u.m.tree = "none" THEN "complete" ELSE u.m.tree
           x == [u.m EXCEPT !.phase = "sockets", !.backstop = TRUE, !.tree = tr]
           t == [u EXCEPT !.m = x]
<1>1. RecordGood(s) /\ s \in StateType /\ s.m = m BY StateFields, GoodTypes DEF RecordInv
<1>2. R!Commit([u EXCEPT !.m.phase = "sockets", !.m.backstop = TRUE,
                         !.m.tree = IF u.m.external /\ @ = "none" THEN "complete" ELSE @])
  BY DEF R!CloseLease
<1>3. s.m.phase = "serving" /\ s.m.shut BY <1>1 DEF R!CloseLease
<1>4. "exit" \in R!Terminal BY DEF R!Terminal
<1>5. Settled(s, u, "exit") BY <1>1, <1>4, SettleDoes
<1> HIDE DEF s, u
<1>6. RecordGood(u) /\ RecordKept(s, u) BY <1>1, <1>3, <1>4, <1>5, SettleKeeps
<1>7. u \in StateType /\ u.m \in DaemonType /\ u.row \in RowType BY <1>6, GoodTypes
<1>8. t = [u EXCEPT !.m.phase = "sockets", !.m.backstop = TRUE,
                    !.m.tree = IF u.m.external /\ @ = "none" THEN "complete" ELSE @]
  BY <1>7 DEF StateType, DaemonType
<1>9. u.row.gen = s.row.gen BY <1>1, <1>5, <1>7 DEF Settled, StateType, RowType
<1>10. u.m.shut /\ u.m.phase = "serving" BY <1>3, <1>5 DEF Settled, Same, Watched
<1>11. tr \in {"none", "complete", "partial"} BY <1>7 DEF DaemonType
<1> HIDE DEF tr
<1>12. x \in DaemonType /\ Same(x, u.m, {"phase"}) /\ x.phase = "sockets"
  BY ZenonT(60), <1>7, <1>11 DEF DaemonType, Phases, Same, Watched
<1> HIDE DEF x
<1>13. t \in StateType /\ SameFiles(u, t) /\ t.child = u.child /\ t.m = x BY <1>7, <1>12 DEF StateType, SameFiles
<1> HIDE DEF t
<1>14. RecordGood(t) /\ RecordKept(u, t)
  BY <1>6, <1>10, <1>12, <1>13 DEF RecordGood, RecordKept, StampFacts, ChangeFacts, ExitFacts, LeaseFacts,
     StopFacts, NameFacts, SameFiles, Same, Watched
<1>15. RecordKept(s, t) BY <1>6, <1>9, <1>14, KeptTransitive
<1> QED BY <1>2, <1>8, <1>13, <1>14, <1>15, CommitKeeps DEF s

(* Removing the socket file touches nothing of a successor. *)
LEMMA SweepKeeps ==
  ASSUME NEW s, RecordGood(s)
  PROVE  LET t == R!CleanupOwnedSocket(s) IN
         /\ RecordGood(t) /\ RecordKept(s, t) /\ t.row = s.row /\ t.m = s.m /\ t.child = s.child
         /\ t.side = s.side /\ t.count = s.count /\ t.lock = s.lock
<1> DEFINE t == R!CleanupOwnedSocket(s)
           u == [s EXCEPT !.files = "none"]
<1>1. s \in StateType BY GoodTypes
<1>2. t = s \/ (t = u /\ s.files # "other") BY DEF R!CleanupOwnedSocket, R!Owned
<1>3. /\ u \in StateType /\ u.row = s.row /\ u.m = s.m /\ u.child = s.child /\ u.side = s.side
      /\ u.count = s.count /\ u.lock = s.lock /\ u.files = "none" BY <1>1 DEF StateType, Gens
<1> HIDE DEF u
<1>4. RecordGood(u)
  BY <1>3 DEF RecordGood, StampFacts, ChangeFacts, ExitFacts, LeaseFacts, StopFacts, NameFacts
<1>5. s.files # "other" => RecordKept(s, u) BY <1>3 DEF RecordKept
<1>6. RecordKept(s, s) BY DEF RecordKept
<1> HIDE DEF t
<1>7. RecordGood(t) /\ RecordKept(s, t) /\ t.row = s.row /\ t.m = s.m /\ t.child = s.child
      /\ t.side = s.side /\ t.count = s.count /\ t.lock = s.lock BY <1>2, <1>3, <1>4, <1>5, <1>6
<1> QED BY <1>7 DEF t

(* Removing all the files: the record is gone, or nothing happens. *)
LEMMA SweepAllKeeps ==
  ASSUME NEW s, RecordGood(s)
  PROVE  LET t == R!CleanupOwnedAll(s) IN
         /\ RecordGood(t) /\ RecordKept(s, t) /\ t.m = s.m /\ t.child = s.child
         /\ t.row.gen # "us" \/ t = s
<1> DEFINE t == R!CleanupOwnedAll(s)
           none == [gen |-> "none", stamp |-> 0]
           r == [s.row EXCEPT !.gen = "none"]
           u == [s EXCEPT !.files = "none", !.row = r, !.side = none]
<1>1. s \in StateType /\ s.row \in RowType BY GoodTypes
<1>2. [s EXCEPT !.files = "none", !.row.gen = "none", !.side = none] = u BY <1>1 DEF StateType
<1>3. t = s \/ (t = u /\ s.files # "other" /\ s.row.gen # "other") BY <1>2 DEF R!CleanupOwnedAll, R!Owned
<1>4. none \in [gen : Gens, stamp : Int] /\ none.gen = "none" BY DEF Gens
<1>5. r \in RowType /\ r.gen = "none" BY <1>1 DEF RowType, Gens
<1> HIDE DEF none, r
<1>6. /\ u \in StateType /\ u.row = r /\ u.m = s.m /\ u.child = s.child /\ u.side = none
      /\ u.count = s.count /\ u.files = "none" BY <1>1, <1>4, <1>5 DEF StateType, Gens
<1> HIDE DEF u
<1>7. RecordGood(u)
  BY <1>4, <1>5, <1>6 DEF RecordGood, StampFacts, ChangeFacts, ExitFacts, LeaseFacts, StopFacts, NameFacts
<1>8. s.files # "other" /\ s.row.gen # "other" => RecordKept(s, u)
  BY <1>5, <1>6 DEF RecordKept, RecordGood, NameFacts
<1>9. RecordKept(s, s) BY DEF RecordKept
<1> HIDE DEF t
<1>10. RecordGood(t) /\ RecordKept(s, t) /\ t.m = s.m /\ t.child = s.child /\ (t.row.gen # "us" \/ t = s)
  BY <1>3, <1>5, <1>6, <1>7, <1>8, <1>9
<1> QED BY <1>10 DEF t

(* A later phase of close(), with the child as it then is. *)
LEMMA PhaseKeeps ==
  ASSUME NEW s, RecordGood(s), NEW x \in DaemonType, Same(x, s.m, {"phase", "skipped"}),
         NEW ch \in {"up", "stopped", "gone"}, ch # "stopped", s.child = "gone" => ch = "gone",
         LET t == [s EXCEPT !.m = x, !.child = ch] IN ExitFacts(t)
  PROVE  LET t == [s EXCEPT !.m = x, !.child = ch] IN
         t \in StateType /\ RecordGood(t) /\ SameFiles(s, t)
<1> DEFINE t == [s EXCEPT !.m = x, !.child = ch]
<1>1. s \in StateType BY GoodTypes
<1>2. t \in StateType /\ SameFiles(s, t) /\ t.child = ch /\ t.m = x BY <1>1 DEF StateType, SameFiles
<1>3. ExitFacts(t) OBVIOUS
<1> HIDE DEF t
<1>4. RecordGood(t)
  BY <1>2, <1>3 DEF RecordGood, StampFacts, ChangeFacts, LeaseFacts, StopFacts, NameFacts,
     SameFiles, Same, Watched
<1> QED BY <1>2, <1>4 DEF t

LEMMA KeptOn == ASSUME NEW s, NEW t, NEW u, RecordKept(s, t), SameFiles(t, u) PROVE RecordKept(s, u)
BY DEF RecordKept, SameFiles

LEMMA CloseSocketsKeeps ==
  ASSUME RecordInv, R!CloseSockets PROVE RecordInv' /\ RecordKept(R!State, R!State')
<1> DEFINE s == R!State
           a == IF s.m.exited THEN R!SaveExitMetadata(s) ELSE s
           b == R!CleanupOwnedSocket(a)
<1>1. RecordGood(s) /\ s \in StateType /\ s.m = m BY StateFields, GoodTypes DEF RecordInv
<1>2. PICK dies \in BOOLEAN : R!Commit([b EXCEPT !.m.phase = "waiting",
                 !.child = IF @ = "stopped" \/ (@ = "up" /\ dies) THEN "gone" ELSE @])
  BY <1>1 DEF R!CloseSockets
<1> DEFINE ch == IF b.child = "stopped" \/ (b.child = "up" /\ dies) THEN "gone" ELSE b.child
           x == [b.m EXCEPT !.phase = "waiting"]
           t == [b EXCEPT !.m = x, !.child = ch]
<1> HIDE DEF s
<1>3. RecordGood(a) /\ RecordKept(s, a) /\ a.row.gen = s.row.gen
  <2>1. Saved(s, R!SaveExitMetadata(s)) BY <1>1, SaveDoes
  <2> DEFINE q == R!SaveExitMetadata(s)
  <2> HIDE DEF q
  <2>2. RecordGood(q) /\ RecordKept(s, q) /\ q.row.gen = s.row.gen BY <1>1, <2>1, SaveKeeps DEF q
  <2>3. RecordKept(s, s) BY DEF RecordKept
  <2> QED BY <1>1, <2>2, <2>3 DEF q
<1> HIDE DEF a
<1>4. RecordGood(b) /\ RecordKept(a, b) BY <1>3, SweepKeeps
<1> HIDE DEF b
<1>5. RecordKept(s, b) BY <1>3, <1>4, KeptTransitive
<1>6. b \in StateType /\ b.m \in DaemonType /\ b.child \in {"up", "stopped", "gone"} BY <1>4, GoodTypes DEF StateType
<1>7. x \in DaemonType /\ Same(x, b.m, {"phase", "skipped"}) /\ x.phase = "waiting"
  BY <1>6 DEF DaemonType, Phases, Same, Watched
<1>8. ch \in {"up", "stopped", "gone"} /\ ch # "stopped" /\ (b.child = "gone" => ch = "gone") BY <1>6
<1>9. [b EXCEPT !.m.phase = "waiting", !.child = IF @ = "stopped" \/ (@ = "up" /\ dies) THEN "gone" ELSE @] = t
  BY <1>6 DEF StateType
<1> HIDE DEF x, ch
<1>10. ExitFacts(t)
  <2>1. t.m = x BY <1>6 DEF StateType
  <2> HIDE DEF t
  <2> QED BY <1>7, <2>1 DEF ExitFacts
<1>11. t \in StateType /\ RecordGood(t) /\ SameFiles(b, t) BY <1>4, <1>7, <1>8, <1>10, PhaseKeeps
<1> HIDE DEF t
<1>12. RecordKept(s, t) BY <1>5, <1>11, KeptOn
<1> QED BY <1>2, <1>9, <1>11, <1>12, CommitKeeps DEF s

LEMMA CloseWaitedKeeps ==
  ASSUME RecordInv, R!CloseWaited PROVE RecordInv' /\ RecordKept(R!State, R!State')
<1> DEFINE s == R!State
           ch == IF s.m.exited THEN s.child ELSE "gone"
           x == [s.m EXCEPT !.phase = "settling"]
           t == [s EXCEPT !.m = x, !.child = ch]
<1>1. RecordGood(s) /\ s \in StateType /\ s.m = m BY StateFields, GoodTypes DEF RecordInv
<1>2. R!Commit([s EXCEPT !.m.phase = "settling", !.child = IF m.exited THEN @ ELSE "gone"])
  BY DEF R!CloseWaited
<1>3. s.m.phase = "waiting" BY <1>1 DEF R!CloseWaited
<1> HIDE DEF s
<1>4. s.m \in DaemonType /\ s.child \in {"up", "stopped", "gone"} BY <1>1 DEF StateType
<1>5. t = [s EXCEPT !.m.phase = "settling", !.child = IF m.exited THEN @ ELSE "gone"]
  BY <1>1 DEF StateType
<1>6. x \in DaemonType /\ Same(x, s.m, {"phase", "skipped"}) /\ x.phase = "settling"
  BY <1>4 DEF DaemonType, Phases, Same, Watched
<1>7. ch \in {"up", "stopped", "gone"} /\ ch # "stopped" /\ (s.child = "gone" => ch = "gone")
  BY <1>1, <1>3, <1>4 DEF RecordGood, StopFacts
<1> HIDE DEF x, ch
<1>8. ExitFacts(t)
  <2>1. t.m = x BY <1>1 DEF StateType
  <2> HIDE DEF t
  <2> QED BY <1>6, <2>1 DEF ExitFacts
<1>9. t \in StateType /\ RecordGood(t) /\ SameFiles(s, t) BY <1>1, <1>6, <1>7, <1>8, PhaseKeeps
<1> HIDE DEF t
<1>10. RecordKept(s, t) BY <1>9 DEF SameFiles, RecordKept
<1> QED BY <1>2, <1>5, <1>9, <1>10, CommitKeeps DEF s

(* The last save: either the exit is on record, or the lock was held to the *)
(* end of its patience. *)
LEMMA CloseSettlesKeeps ==
  ASSUME RecordInv, R!CloseSettles PROVE RecordInv' /\ RecordKept(R!State, R!State')
<1> DEFINE s == R!State
           a == IF s.m.exited THEN R!SaveExitMetadata(s) ELSE s
           sk == s.m.exited /\ R!Status(s) = "busy"
           y == [a.m EXCEPT !.phase = "reaping"]
           x == [y EXCEPT !.skipped = sk]
           t == [a EXCEPT !.m = x, !.child = a.child]
<1>1. RecordGood(s) /\ s \in StateType /\ s.m = m BY StateFields, GoodTypes DEF RecordInv
<1>2. R!Commit([a EXCEPT !.m.phase = "reaping", !.m.skipped = sk]) BY <1>1 DEF R!CloseSettles
<1>3. s.m.phase = "settling" BY <1>1 DEF R!CloseSettles
<1> HIDE DEF s
<1>4. sk \in BOOLEAN BY Zenon
<1>5. sk <=> s.m.exited /\ s.lock BY <1>1, StatusIs
<1>6. /\ RecordGood(a) /\ RecordKept(s, a) /\ a.m = s.m /\ a.child = s.child /\ a.row.gen = s.row.gen
      /\ s.m.exited /\ s.row.gen = "us" /\ ~s.lock => a.row.exit /\ a.row.out = a.m.out
  <2> DEFINE q == R!SaveExitMetadata(s)
  <2>1. Saved(s, q) BY <1>1, SaveDoes
  <2> HIDE DEF q
  <2>2. /\ RecordGood(q) /\ RecordKept(s, q) /\ q.row.gen = s.row.gen
        /\ s.row.gen = "us" /\ ~s.lock => q.row.exit /\ q.row.out = q.m.out BY <1>1, <2>1, SaveKeeps
  <2>3. q.m = s.m /\ q.child = s.child BY <2>1 DEF Saved
  <2>4. RecordKept(s, s) BY DEF RecordKept
  <2> QED BY <1>1, <2>2, <2>3, <2>4 DEF q
<1> HIDE DEF a, sk
<1>7. a \in StateType /\ a.m \in DaemonType /\ a.child \in {"up", "stopped", "gone"} BY <1>6, GoodTypes DEF StateType
<1>8. t = [a EXCEPT !.m.phase = "reaping", !.m.skipped = sk] BY <1>7 DEF StateType
<1>9. y \in DaemonType /\ Same(y, a.m, {"phase"}) /\ y.phase = "reaping" BY <1>7 DEF DaemonType, Phases, Same, Watched
<1> HIDE DEF y
<1>10. x \in DaemonType /\ Same(x, y, {"skipped"}) /\ x.skipped = sk BY <1>4, <1>9 DEF DaemonType, Same, Watched
<1>11. Same(x, a.m, {"phase", "skipped"}) BY <1>9, <1>10 DEF Same, Watched
<1>12. a.child # "stopped" BY <1>3, <1>6 DEF RecordGood, StopFacts
<1> HIDE DEF x
<1>13. ExitFacts(t)
  <2>1. t.m = x /\ t.row = a.row BY <1>7 DEF StateType
  <2>2. x.exited = s.m.exited /\ x.out = a.m.out BY <1>6, <1>11 DEF Same, Watched
  <2> HIDE DEF t
  <2> QED BY <1>5, <1>6, <1>10, <2>1, <2>2 DEF ExitFacts
<1>14. t \in StateType /\ RecordGood(t) /\ SameFiles(a, t) BY <1>6, <1>7, <1>10, <1>11, <1>12, <1>13, PhaseKeeps
<1> HIDE DEF t
<1>15. RecordKept(s, t) BY <1>6, <1>14, KeptOn
<1> QED BY <1>2, <1>8, <1>14, <1>15, CommitKeeps DEF s

LEMMA CloseReapsKeeps ==
  ASSUME RecordInv, R!CloseReaps PROVE RecordInv' /\ RecordKept(R!State, R!State')
<1> DEFINE s == R!State
           a == IF R!ReapAtExit(s) THEN R!CleanupOwnedAll(s) ELSE s
           x == [a.m EXCEPT !.phase = "ended"]
           t == [a EXCEPT !.m = x, !.child = a.child]
<1>1. RecordGood(s) /\ s \in StateType /\ s.m = m BY StateFields, GoodTypes DEF RecordInv
<1>2. R!Commit([a EXCEPT !.m.phase = "ended"]) BY DEF R!CloseReaps
<1>3. s.m.phase = "reaping" BY <1>1 DEF R!CloseReaps
<1> HIDE DEF s
<1>4. RecordGood(a) /\ RecordKept(s, a) /\ a.m = s.m /\ a.child = s.child
  <2>1. RecordKept(s, s) BY DEF RecordKept
  <2> DEFINE q == R!CleanupOwnedAll(s)
  <2>2. RecordGood(q) /\ RecordKept(s, q) /\ q.m = s.m /\ q.child = s.child BY <1>1, SweepAllKeeps
  <2> HIDE DEF q
  <2> QED BY <1>1, <2>1, <2>2 DEF q
<1> HIDE DEF a
<1>5. a \in StateType /\ a.m \in DaemonType /\ a.child \in {"up", "stopped", "gone"} BY <1>4, GoodTypes DEF StateType
<1>6. t = [a EXCEPT !.m.phase = "ended"] BY <1>5 DEF StateType
<1>7. x \in DaemonType /\ Same(x, a.m, {"phase"}) /\ x.phase = "ended" BY <1>5 DEF DaemonType, Phases, Same, Watched
<1>8. Same(x, a.m, {"phase", "skipped"}) BY <1>7 DEF Same, Watched
<1>9. a.child # "stopped" BY <1>3, <1>4 DEF RecordGood, StopFacts
<1> HIDE DEF x
<1>10. ExitFacts(t)
  <2>1. t.m = x /\ t.row = a.row BY <1>5 DEF StateType
  <2>2. ExitFacts(a) BY <1>4 DEF RecordGood
  <2> HIDE DEF t
  <2> QED BY <1>3, <1>4, <1>7, <2>1, <2>2 DEF ExitFacts, Same, Watched
<1>11. t \in StateType /\ RecordGood(t) /\ SameFiles(a, t) BY <1>4, <1>5, <1>7, <1>8, <1>9, <1>10, PhaseKeeps
<1> HIDE DEF t
<1>12. RecordKept(s, t) BY <1>4, <1>11, KeptOn
<1> QED BY <1>2, <1>6, <1>11, <1>12, CommitKeeps DEF s

LEMMA BackstopKeeps ==
  ASSUME RecordInv, R!Backstop PROVE RecordInv' /\ RecordKept(R!State, R!State')
<1> DEFINE s == R!State
           b == [s EXCEPT !.child = "gone", !.m.skipped = TRUE]
           a == IF R!ReapAtExit(b) THEN R!CleanupOwnedAll(b) ELSE R!CleanupOwnedSocket(b)
           x == [a.m EXCEPT !.phase = "ended"]
           t == [a EXCEPT !.m = x, !.child = a.child]
           x0 == [s.m EXCEPT !.skipped = TRUE]
<1>1. RecordGood(s) /\ s \in StateType /\ s.m = m BY StateFields, GoodTypes DEF RecordInv
<1>2. R!Commit([a EXCEPT !.m.phase = "ended"]) BY DEF R!Backstop
<1> HIDE DEF s
<1>3. s.m \in DaemonType BY <1>1 DEF StateType
<1>4. b = [s EXCEPT !.m = x0, !.child = "gone"] BY <1>1 DEF StateType
<1> HIDE DEF b
<1>5. x0 \in DaemonType /\ Same(x0, s.m, {"phase", "skipped"}) /\ x0.skipped BY ZenonT(60), <1>3 DEF DaemonType, Same, Watched
<1> HIDE DEF x0
<1>6. b.m = x0 /\ b.child = "gone" BY <1>1, <1>4 DEF StateType
<1>7. ExitFacts(b) BY <1>5, <1>6 DEF ExitFacts
<1>8. RecordGood(b) /\ SameFiles(s, b) BY <1>1, <1>4, <1>5, <1>7, PhaseKeeps
<1>9. RecordGood(a) /\ RecordKept(b, a) /\ a.m = b.m /\ a.child = "gone"
  <2> DEFINE q == R!CleanupOwnedAll(b)
             r == R!CleanupOwnedSocket(b)
  <2>1. RecordGood(q) /\ RecordKept(b, q) /\ q.m = b.m /\ q.child = b.child BY <1>8, SweepAllKeeps
  <2>2. RecordGood(r) /\ RecordKept(b, r) /\ r.m = b.m /\ r.child = b.child BY <1>8, SweepKeeps
  <2> HIDE DEF q, r
  <2> QED BY <1>6, <2>1, <2>2 DEF q, r
<1>10. RecordKept(s, a) BY <1>8, <1>9 DEF SameFiles, RecordKept
<1> HIDE DEF a
<1>11. a \in StateType /\ a.m \in DaemonType BY <1>9, GoodTypes
<1>12. t = [a EXCEPT !.m.phase = "ended"] BY <1>11 DEF StateType
<1>13. x \in DaemonType /\ Same(x, a.m, {"phase"}) /\ x.phase = "ended" BY <1>11 DEF DaemonType, Phases, Same, Watched
<1>14. Same(x, a.m, {"phase", "skipped"}) /\ x.skipped BY <1>5, <1>6, <1>9, <1>13 DEF Same, Watched
<1> HIDE DEF x
<1>15. ExitFacts(t)
  <2>1. t.m = x BY <1>11 DEF StateType
  <2> HIDE DEF t
  <2> QED BY <1>14, <2>1 DEF ExitFacts
<1>16. t \in StateType /\ RecordGood(t) /\ SameFiles(a, t) BY <1>9, <1>13, <1>14, <1>15, PhaseKeeps
<1> HIDE DEF t
<1>17. RecordKept(s, t) BY <1>10, <1>16, KeptOn
<1> QED BY <1>2, <1>12, <1>16, <1>17, CommitKeeps DEF s

----------------------------------------------------------------------------
LEMMA RecordSteps ==
  ASSUME RecordInv, R!RecordNext
  PROVE  RecordInv' /\ (RecordKept(R!State, R!State') \/ (R!SuccessorUntouched /\ R!FirstTerminalStands))
BY ClientChangeKeeps, ClientRetryKeeps, PtyDataKeeps, ActivityTimerKeeps, ChildDiesKeeps, ChildExitedKeeps,
   PtyEofKeeps, DrainTimerKeeps, ExitRetryTimerKeeps, DeadlinePassesKeeps, StartupTimerKeeps,
   LifecycleCasKeeps, GraceTimerKeeps, ExternalKillKeeps, CloseLeaseKeeps, CloseSocketsKeeps,
   CloseWaitedKeeps, CloseSettlesKeeps, CloseReapsKeeps, BackstopKeeps, OtherLockKeeps, ReplaceKeeps
   DEF R!RecordNext

LEMMA RecordSays == ASSUME RecordInv PROVE R!RecordFollowsDaemon /\ R!NeverLeftStopped
<1> DEFINE s == R!State
<1>1. RecordGood(s) /\ s \in StateType BY GoodTypes DEF RecordInv
<1>2. /\ s.m = m /\ s.child = child /\ s.row = row /\ s.count = count BY StateFields
<1> HIDE DEF s
<1>3. R!RecordFollowsDaemon
  BY <1>1, <1>2 DEF RecordGood, StampFacts, ChangeFacts, ExitFacts, R!RecordFollowsDaemon
<1>4. R!NeverLeftStopped BY <1>1, <1>2 DEF RecordGood, StopFacts, R!NeverLeftStopped
<1> QED BY <1>3, <1>4

LEMMA KeptSays ==
  ASSUME RecordKept(R!State, R!State') PROVE R!SuccessorUntouched /\ R!FirstTerminalStands
<1> DEFINE s == R!State
           t == R!State'
<1>1. s.row = row /\ s.side = side /\ s.files = files BY StateFields
<1>2. t.row = row' /\ t.side = side' /\ t.files = files' BY DEF R!State
<1> HIDE DEF s, t
<1> QED BY <1>1, <1>2 DEF RecordKept, R!SuccessorUntouched, R!FirstTerminalStands, s, t

----------------------------------------------------------------------------
(* The changes other commands make to a record: the creation lock has one *)
(* holder, and only a change whose writer is still at its event is ahead of *)
(* the log. *)

PRecs == [gen : Int, tag : Writers \cup {0}, name : Writers \cup {0, 9}]
PChanges == [nr : Nat, prev : PRecs, val : PRecs]
PResults == {"none", "not found", "busy", "missing", "generation-mismatch", "value-mismatch", "unchanged",
             "stale", "changed", "died"}
PWriter == [at : {"idle", "settled", "event", "creation", "read", "reread", "write", "append"},
            op : Ops \cup {"none"}, want : Writers \cup {0}, gen : Int, deadline : Int,
            read : PRecs, result : PResults]
PatchTyped ==
  /\ wr \in [Writers -> PWriter] /\ tags \in PRecs
  /\ told \in Seq(PChanges) /\ published \in Seq(PChanges) /\ lost \in SUBSET (1..Len(published))
  /\ now \in Int /\ foreign \in Nat
  /\ pub \in [at : {"idle", "clear", "write", "failed"}, deadline : Int]
Holding(x) == wr[x].at \in {"read", "reread", "write", "append"}
Telling(x) == wr[x].at = "append" /\ M!Emits(x)
PatchLocked ==
  /\ \A x \in Writers : Holding(x) => creation = x
  /\ pub.at \in {"clear", "write"} => creation = 99
ChangeOf(x) == M!Change(x, Len(published))
(* The log t tells the first k of the changes p, but those of l. *)
ToldTo(t, p, l, k) ==
  /\ \A i \in DOMAIN t : t[i].nr \in (1..k) \ l /\ t[i] = p[t[i].nr]
  /\ \A i, j \in DOMAIN t : i < j => t[i].nr < t[j].nr
  /\ \A h \in (1..k) \ l : \E i \in DOMAIN t : t[i].nr = h
PatchTold ==
  /\ \A x \in Writers : Telling(x) =>
       LET k == Len(published) IN
       /\ k > 0 /\ k \notin lost /\ published[k] = ChangeOf(x)
       /\ ToldTo(told, published, lost, k - 1)
  /\ (\A x \in Writers : ~Telling(x)) => ToldTo(told, published, lost, Len(published))
PatchInv == PatchTyped /\ PatchLocked /\ PatchTold /\ M!NoPatchIsLost

LEMMA IdleTyped == M!Idle \in PWriter /\ M!Idle.at = "idle"
<1>1. M!NoRec \in PRecs BY DEF M!NoRec, PRecs
<1> QED BY <1>1 DEF M!Idle, PWriter, PResults

LEMMA NoneTold == ToldTo(<<>>, <<>>, {}, Len(<<>>)) /\ <<>> \in Seq(PChanges) /\ {} \in SUBSET (1..Len(<<>>))
BY DEF ToldTo

LEMMA PatchBegins == M!PatchInit => PatchInv
<1> SUFFICES ASSUME M!PatchInit PROVE PatchInv OBVIOUS
<1>2. M!Idle \in PWriter /\ M!Idle.at = "idle" BY IdleTyped
<1>3. PatchTyped BY <1>2, NoneTold DEF M!PatchInit, PatchTyped, PRecs
<1>4. \A x \in Writers : wr[x].at = "idle" BY <1>2 DEF M!PatchInit
<1>5. PatchTold BY <1>4, NoneTold DEF M!PatchInit, PatchTold, Telling
<1> QED BY <1>3, <1>4, <1>5 DEF M!PatchInit, PatchInv, PatchLocked, M!NoPatchIsLost, Holding

(* A change is published, then told or given up. *)
LEMMA ToldWrites ==
  ASSUME NEW t, NEW p \in Seq(PChanges), NEW l, NEW c \in PChanges, ToldTo(t, p, l, Len(p))
  PROVE  ToldTo(t, Append(p, c), l, Len(p))
<1>1. \A h \in 1..Len(p) : Append(p, c)[h] = p[h] OBVIOUS
<1>2. \A i \in DOMAIN t : t[i].nr \in 1..Len(p) BY DEF ToldTo
<1> QED BY <1>1, <1>2 DEF ToldTo

LEMMA ToldEnds ==
  ASSUME NEW t \in Seq(PChanges), NEW p \in Seq(PChanges), NEW l, NEW c \in PChanges, NEW k \in Nat,
         k > 0, k \notin l, p[k] = c, c.nr = k, ToldTo(t, p, l, k - 1)
  PROVE  ToldTo(Append(t, c), p, l, k) /\ ToldTo(t, p, l \cup {k}, k)
<1> DEFINE u == Append(t, c)
<1>1. /\ Len(t) \in Nat /\ DOMAIN t = 1..Len(t) /\ DOMAIN u = 1..(Len(t) + 1) /\ u[Len(t) + 1] = c
      /\ \A i \in 1..Len(t) : u[i] = t[i] OBVIOUS
<1> HIDE DEF u
<1>2. \A i \in 1..Len(t) : t[i].nr \in (1..(k - 1)) \ l /\ t[i] = p[t[i].nr] BY <1>1 DEF ToldTo
<1>3. \A i, j \in 1..Len(t) : i < j => t[i].nr < t[j].nr BY <1>1 DEF ToldTo
<1>4. \A h \in (1..(k - 1)) \ l : \E i \in 1..Len(t) : t[i].nr = h BY <1>1 DEF ToldTo
<1>5. ToldTo(u, p, l, k)
  <2>1. \A i \in DOMAIN u : i \in 1..Len(t) \/ i = Len(t) + 1 BY <1>1
  <2>2. \A i \in DOMAIN u : u[i].nr \in (1..k) \ l /\ u[i] = p[u[i].nr] BY <1>1, <1>2, <2>1
  <2>3. ASSUME NEW i \in DOMAIN u, NEW j \in DOMAIN u, i < j PROVE u[i].nr < u[j].nr
    <3>1. i \in 1..Len(t) BY <1>1, <2>3
    <3>2. CASE j \in 1..Len(t) BY <1>1, <1>3, <2>3, <3>1, <3>2
    <3>3. CASE j = Len(t) + 1 BY <1>1, <1>2, <3>1, <3>3
    <3> QED BY <2>1, <3>2, <3>3
  <2>4. ASSUME NEW h \in (1..k) \ l PROVE \E i \in DOMAIN u : u[i].nr = h
    <3>1. CASE h = k BY <1>1, <3>1
    <3>2. CASE h # k
      <4>1. h \in (1..(k - 1)) \ l BY <2>4, <3>2
      <4>2. PICK i \in 1..Len(t) : t[i].nr = h BY <1>4, <4>1
      <4> QED BY <1>1, <4>2
    <3> QED BY <3>1, <3>2
  <2> QED BY <2>2, <2>3, <2>4 DEF ToldTo
<1>6. ToldTo(t, p, l \cup {k}, k)
  <2>1. (1..k) \ (l \cup {k}) = (1..(k - 1)) \ l OBVIOUS
  <2>2. /\ \A i \in DOMAIN t : t[i].nr \in (1..k) \ (l \cup {k}) /\ t[i] = p[t[i].nr]
        /\ \A h \in (1..k) \ (l \cup {k}) : \E i \in DOMAIN t : t[i].nr = h BY <1>1, <1>2, <1>4, <2>1
  <2> QED BY <1>1, <1>3, <2>2 DEF ToldTo
<1> QED BY <1>5, <1>6 DEF u

(* Nobody holds the creation lock, or only its one writer: the others are *)
(* not at the record. *)
LEMMA OneHolder ==
  ASSUME PatchInv, NEW x \in Writers, NEW y \in Writers, Holding(x), Holding(y) PROVE x = y
BY DEF PatchInv, PatchLocked

LEMMA HolderReal ==
  ASSUME PatchInv, NEW x \in Writers, Holding(x)
  PROVE  creation = x /\ creation # 0 /\ pub.at \notin {"clear", "write"}
BY SessionAssumption DEF PatchInv, PatchLocked

LEMMA RequestTyped ==
  ASSUME PatchInv, NEW x \in Writers, wr[x].want \in Writers \cup {0}, NEW r \in PRecs
  PROVE  M!Requested(x, r) \in PRecs
BY DEF M!Requested, PRecs

(* A writer returns, dies or goes on to a step outside the record: nothing *)
(* of the others changes. *)
LEMMA ReturnKeeps ==
  ASSUME PatchInv, NEW x \in Writers, NEW res \in PResults, M!Returns(x, res), ~Telling(x),
         UNCHANGED <<tags, told, pub, now, foreign, published, lost>>
  PROVE  PatchInv'
<1> DEFINE i == [M!Idle EXCEPT !.result = res]
<1>2. i \in PWriter /\ i.at = "idle" BY IdleTyped DEF PWriter
<1>3. wr' = [wr EXCEPT ![x] = i] BY DEF M!Returns
<1> HIDE DEF i
<1>4. PatchTyped' BY <1>2, <1>3 DEF PatchInv, PatchTyped
<1>5. wr'[x].at = "idle" /\ \A y \in Writers \ {x} : wr'[y] = wr[y] BY <1>2, <1>3 DEF PatchInv, PatchTyped
<1>6. \A y \in Writers : (Holding(y))' => y # x /\ Holding(y) BY <1>5 DEF Holding
<1>7. \A y \in Writers : Telling(y)' <=> Telling(y) BY <1>5 DEF Telling, M!Emits
<1>8. \A y \in Writers : y # x => ChangeOf(y)' = ChangeOf(y) BY <1>5 DEF ChangeOf, M!Change, M!Requested
<1>9. PatchLocked'
  <2>1. creation' = IF creation = x THEN 0 ELSE creation BY DEF M!Returns, M!Frees
  <2>2. x # 99 BY SessionAssumption
  <2> QED BY <1>6, <2>1, <2>2 DEF PatchInv, PatchLocked
<1>10. PatchTold' BY <1>7, <1>8 DEF PatchInv, PatchTold
<1>11. M!NoPatchIsLost' BY <1>5 DEF PatchInv, M!NoPatchIsLost
<1> QED BY <1>4, <1>9, <1>10, <1>11 DEF PatchInv

LEMMA MoveKeeps ==
  ASSUME PatchInv, NEW x \in Writers, NEW p \in PWriter, wr' = [wr EXCEPT ![x] = p],
         p.at \in {"settled", "event", "creation"} \/ (p.at = "read" /\ creation = 0 /\ creation' = x),
         ~Holding(x), creation' = creation \/ creation = 0,
         creation' # creation => p.at = "read",
         UNCHANGED <<tags, told, pub, now, foreign, published, lost>>
  PROVE  PatchInv'
<1>1. PatchTyped' BY DEF PatchInv, PatchTyped
<1>2. wr'[x] = p /\ \A y \in Writers \ {x} : wr'[y] = wr[y] BY DEF PatchInv, PatchTyped
<1>3. \A y \in Writers : y # x => (Holding(y)' <=> Holding(y)) BY <1>2 DEF Holding
<1>4. \A y \in Writers : ~Telling(x) /\ (Telling(y)' <=> Telling(y)) BY <1>2 DEF Telling, M!Emits, Holding
<1>5. \A y \in Writers : y # x => ChangeOf(y)' = ChangeOf(y) BY <1>2 DEF ChangeOf, M!Change, M!Requested
<1>6. PatchLocked'
  <2>1. \A y \in Writers : Holding(y) => creation = y /\ y # 0 BY SessionAssumption DEF PatchInv, PatchLocked
  <2>2. Holding(x)' => p.at = "read" BY <1>2 DEF Holding
  <2> QED BY <1>3, <2>1, <2>2 DEF PatchInv, PatchLocked
<1>7. PatchTold' BY <1>4, <1>5 DEF PatchInv, PatchTold
<1>8. M!NoPatchIsLost' BY <1>2 DEF PatchInv, M!NoPatchIsLost
<1> QED BY <1>1, <1>6, <1>7, <1>8 DEF PatchInv

(* The steps of a writer. *)
LEMMA BeginKeeps ==
  ASSUME PatchInv, NEW x \in Writers, NEW op \in Ops, M!Begin(x, op, x) PROVE PatchInv'
<1> DEFINE a == CASE op = "patch" -> "settled" [] op = "cas" -> "creation" [] OTHER -> "event"
           g == IF op = "cas" THEN tags.gen ELSE 0
           dl == now + (IF op = "patch" THEN PatchWait ELSE 0)
           p == [at |-> a, op |-> op, want |-> x, gen |-> g, deadline |-> dl, read |-> M!NoRec, result |-> "none"]
<1>1. wr' = [wr EXCEPT ![x] = p] /\ wr[x].at = "idle" BY DEF M!Begin
<1>2. a \in {"settled", "event", "creation"} OBVIOUS
<1>3. g \in Int BY DEF PatchInv, PatchTyped, PRecs
<1>4. dl \in Int BY SessionAssumption DEF PatchInv, PatchTyped
<1>5. M!NoRec \in PRecs BY DEF M!NoRec, PRecs
<1> HIDE DEF a, g, dl
<1>6. p \in PWriter /\ p.at = a BY <1>2, <1>3, <1>4, <1>5 DEF PWriter, PResults
<1> HIDE DEF p
<1>7. ~Holding(x) BY <1>1 DEF Holding
<1> QED BY <1>1, <1>2, <1>6, <1>7, MoveKeeps DEF M!Begin

LEMMA WriterAt ==
  ASSUME PatchInv, NEW x \in Writers, NEW a \in {"settled", "event", "creation", "read", "reread", "write", "append"}
  PROVE  LET p == [wr[x] EXCEPT !.at = a] IN
         /\ p \in PWriter /\ p.at = a /\ p.op = wr[x].op /\ p.want = wr[x].want /\ p.read = wr[x].read
         /\ [wr EXCEPT ![x].at = a] = [wr EXCEPT ![x] = p]
<1>1. wr[x] \in PWriter BY DEF PatchInv, PatchTyped
<1> QED BY <1>1 DEF PWriter

LEMMA CreationSettledKeeps ==
  ASSUME PatchInv, NEW x \in Writers, M!CreationSettled(x) PROVE PatchInv'
<1>1. wr[x].at = "settled" /\ ~Holding(x) /\ ~Telling(x) BY DEF M!CreationSettled, Holding, Telling
<1>2. UNCHANGED <<tags, told, pub, now, foreign, published, lost>> BY DEF M!CreationSettled
<1>3. CASE wr' = [wr EXCEPT ![x].at = "event"] /\ UNCHANGED creation
  <2> DEFINE p == [wr[x] EXCEPT !.at = "event"]
  <2>1. p \in PWriter /\ p.at = "event" /\ wr' = [wr EXCEPT ![x] = p] BY <1>3, WriterAt
  <2> HIDE DEF p
  <2> QED BY <1>1, <1>2, <1>3, <2>1, MoveKeeps
<1>4. CASE \E res \in {"not found", "busy"} : M!Returns(x, res)
  BY <1>1, <1>2, <1>4, ReturnKeeps DEF PResults
<1> QED BY <1>3, <1>4 DEF M!CreationSettled

LEMMA TakeEventLockKeeps ==
  ASSUME PatchInv, NEW x \in Writers, M!TakeEventLock(x) PROVE PatchInv'
<1>1. wr[x].at = "event" /\ ~Holding(x) /\ ~Telling(x) BY DEF M!TakeEventLock, Holding, Telling
<1>2. UNCHANGED <<tags, told, pub, now, foreign, published, lost>> BY DEF M!TakeEventLock
<1>3. CASE wr' = [wr EXCEPT ![x].at = "creation"] /\ UNCHANGED creation
  <2> DEFINE p == [wr[x] EXCEPT !.at = "creation"]
  <2>1. p \in PWriter /\ p.at = "creation" /\ wr' = [wr EXCEPT ![x] = p] BY <1>3, WriterAt
  <2> HIDE DEF p
  <2> QED BY <1>1, <1>2, <1>3, <2>1, MoveKeeps
<1>4. CASE M!Returns(x, "busy") BY <1>1, <1>2, <1>4, ReturnKeeps DEF PResults
<1> QED BY <1>3, <1>4 DEF M!TakeEventLock

LEMMA TakeCreationLockKeeps ==
  ASSUME PatchInv, NEW x \in Writers, M!TakeCreationLock(x) PROVE PatchInv'
<1>1. wr[x].at = "creation" /\ ~Holding(x) /\ ~Telling(x) BY DEF M!TakeCreationLock, Holding, Telling
<1>2. UNCHANGED <<tags, told, pub, now, foreign, published, lost>> BY DEF M!TakeCreationLock
<1>3. CASE creation = 0 /\ creation' = x /\ wr' = [wr EXCEPT ![x].at = "read"]
  <2> DEFINE p == [wr[x] EXCEPT !.at = "read"]
  <2>1. p \in PWriter /\ p.at = "read" /\ wr' = [wr EXCEPT ![x] = p] BY <1>3, WriterAt
  <2> HIDE DEF p
  <2> QED BY <1>1, <1>2, <1>3, <2>1, MoveKeeps
<1>4. CASE M!Returns(x, "busy") BY <1>1, <1>2, <1>4, ReturnKeeps DEF PResults
<1> QED BY <1>3, <1>4 DEF M!TakeCreationLock

(* A holder goes on with what it read. *)
LEMMA HolderKeeps ==
  ASSUME PatchInv, NEW x \in Writers, wr[x].at \in {"read", "reread"}, NEW p \in PWriter,
         wr' = [wr EXCEPT ![x] = p], p.at \in {"reread", "write"}, p.read = tags,
         UNCHANGED <<creation, tags, told, pub, now, foreign, published, lost>>
  PROVE  PatchInv'
<1>1. PatchTyped' BY DEF PatchInv, PatchTyped
<1>2. wr'[x] = p /\ \A y \in Writers \ {x} : wr'[y] = wr[y] BY DEF PatchInv, PatchTyped
<1>3. \A y \in Writers : Holding(y)' <=> Holding(y) BY <1>2 DEF Holding
<1>4. \A y \in Writers : ~Telling(x) /\ (Telling(y)' <=> Telling(y)) BY <1>2 DEF Telling, M!Emits, Holding
<1>5. \A y \in Writers : y # x => ChangeOf(y)' = ChangeOf(y) BY <1>2 DEF ChangeOf, M!Change, M!Requested
<1>6. PatchLocked' BY <1>3 DEF PatchInv, PatchLocked
<1>7. PatchTold' BY <1>4, <1>5 DEF PatchInv, PatchTold
<1>8. M!NoPatchIsLost' BY <1>2 DEF PatchInv, M!NoPatchIsLost
<1> QED BY <1>1, <1>6, <1>7, <1>8 DEF PatchInv

LEMMA DecideKeeps == ASSUME PatchInv, NEW x \in Writers, M!Decide(x) PROVE PatchInv'
<1>1. wr[x].at = "read" /\ ~Telling(x) /\ wr[x] \in PWriter /\ tags \in PRecs
  BY DEF M!Decide, Telling, PatchInv, PatchTyped
<1>2. UNCHANGED <<tags, told, pub, now, foreign, published, lost>> BY DEF M!Decide
<1>3. CASE wr' = [wr EXCEPT ![x].at = "reread", ![x].read = tags] /\ UNCHANGED <<event, creation>>
  <2> DEFINE p == [wr[x] EXCEPT !.at = "reread", !.read = tags]
  <2>1. p \in PWriter /\ p.at = "reread" /\ p.read = tags BY <1>1 DEF PWriter
  <2>2. wr' = [wr EXCEPT ![x] = p] BY <1>1, <1>3 DEF PatchInv, PatchTyped
  <2> HIDE DEF p
  <2> QED BY <1>1, <1>2, <1>3, <2>1, <2>2, HolderKeeps
<1>4. CASE \E res \in PResults : M!Returns(x, res) BY <1>1, <1>2, <1>4, ReturnKeeps
<1>5. ("missing" \in PResults) /\ "generation-mismatch" \in PResults /\ "value-mismatch" \in PResults
      /\ "unchanged" \in PResults BY DEF PResults
<1>6. \A b \in BOOLEAN : (IF b THEN "value-mismatch" ELSE "unchanged") \in PResults BY <1>5
<1> QED BY <1>3, <1>4, <1>5, <1>6 DEF M!Decide

LEMMA RereadKeeps == ASSUME PatchInv, NEW x \in Writers, M!Reread(x) PROVE PatchInv'
<1>1. wr[x].at = "reread" /\ ~Telling(x) BY DEF M!Reread, Telling
<1>2. UNCHANGED <<tags, told, pub, now, foreign, published, lost>> BY DEF M!Reread
<1>3. CASE tags = wr[x].read /\ wr' = [wr EXCEPT ![x].at = "write"] /\ UNCHANGED <<event, creation>>
  <2> DEFINE p == [wr[x] EXCEPT !.at = "write"]
  <2>1. p \in PWriter /\ p.at = "write" /\ p.read = tags /\ wr' = [wr EXCEPT ![x] = p] BY <1>3, WriterAt
  <2> HIDE DEF p
  <2> QED BY <1>1, <1>2, <1>3, <2>1, HolderKeeps
<1>4. CASE M!Returns(x, "stale") BY <1>1, <1>2, <1>4, ReturnKeeps DEF PResults
<1> QED BY <1>3, <1>4 DEF M!Reread

LEMMA WriteRecordKeeps == ASSUME PatchInv, NEW x \in Writers, M!WriteRecord(x) PROVE PatchInv'
<1>1. wr[x].at = "write" /\ ~Telling(x) /\ Holding(x) /\ wr[x] \in PWriter
  BY DEF M!WriteRecord, Telling, Holding, PatchInv, PatchTyped
<1>2. UNCHANGED <<told, pub, now, foreign, lost>> BY DEF M!WriteRecord
<1>3. CASE M!Returns(x, "stale") /\ UNCHANGED <<tags, published>> BY <1>1, <1>2, <1>3, ReturnKeeps DEF PResults
<1>4. CASE M!WriteSucceeds(x)
  <2> DEFINE p == [wr[x] EXCEPT !.at = "append"]
  <2>1. /\ p \in PWriter /\ p.at = "append" /\ p.op = wr[x].op /\ p.want = wr[x].want /\ p.read = wr[x].read
        /\ wr' = [wr EXCEPT ![x] = p] BY <1>4, WriterAt DEF M!WriteSucceeds
  <2> HIDE DEF p
  <2>2. /\ wr'[x] = p /\ \A y \in Writers \ {x} : wr'[y] = wr[y] BY <2>1 DEF PatchInv, PatchTyped
  <2>3. \A y \in Writers \ {x} : ~Holding(y) /\ ~Telling(y) BY <1>1, OneHolder DEF Holding, Telling
  <2>4. \A y \in Writers \ {x} : ~Holding(y)' /\ ~Telling(y)' BY <2>2, <2>3 DEF Holding, Telling, M!Emits
  <2>5. M!Emits(x)' <=> M!Emits(x) BY <2>1, <2>2 DEF M!Emits
  <2>6. wr[x].read \in PRecs /\ wr[x].want \in Writers \cup {0} BY <1>1 DEF PWriter
  <2> DEFINE k == Len(published) + 1
             c == M!Change(x, k)
  <2>7. M!Requested(x, wr[x].read) \in PRecs /\ k \in Nat /\ k > 0 /\ c \in PChanges
    <3>1. published \in Seq(PChanges) BY DEF PatchInv, PatchTyped
    <3> QED BY <2>6, <3>1, RequestTyped DEF M!Change, PChanges
  <2>8. tags' = M!Requested(x, wr[x].read) /\ UNCHANGED creation
        /\ published' = IF M!Emits(x) THEN Append(published, c) ELSE published
    BY <1>4 DEF M!WriteSucceeds
  <2>9. /\ ToldTo(told, published, lost, Len(published)) /\ published \in Seq(PChanges)
        /\ lost \in SUBSET (1..Len(published)) BY <1>1, <2>3 DEF PatchInv, PatchTold, PatchTyped
  <2>15. Len(published') = k => ChangeOf(x)' = c BY <2>1, <2>2 DEF ChangeOf, M!Change, M!Requested
  <2> HIDE DEF c
  <2>16. ASSUME M!Emits(x)
         PROVE  /\ published' \in Seq(PChanges) /\ Len(published') = k /\ published'[k] = c
                /\ k \notin lost /\ lost \in SUBSET (1..k) /\ ToldTo(told, published', lost, k - 1)
    <3>1. published' = Append(published, c) BY <2>8, <2>16
    <3>2. published' \in Seq(PChanges) /\ Len(published') = k /\ published'[k] = c BY <2>7, <2>9, <3>1
    <3>3. k \notin lost /\ lost \in SUBSET (1..k) /\ k - 1 = Len(published) BY <2>9
    <3> QED BY <2>7, <2>9, <3>1, <3>2, <3>3, ToldWrites
  <2> HIDE DEF k
  <2>10. PatchTyped'
    <3>1. published' \in Seq(PChanges) /\ lost' \in SUBSET (1..Len(published')) BY <1>2, <2>8, <2>9, <2>16
    <3> QED BY <1>2, <2>1, <2>7, <2>8, <3>1 DEF PatchInv, PatchTyped
  <2>11. PatchLocked' BY <1>1, <1>2, <2>4, <2>8 DEF PatchInv, PatchLocked
  <2>12. Telling(x)' <=> M!Emits(x) BY <2>1, <2>2, <2>5 DEF Telling
  <2>13. PatchTold'
    <3>1. CASE M!Emits(x)
      <4>1. published'[Len(published')] = ChangeOf(x)' BY <2>15, <2>16, <3>1
      <4> QED BY <1>2, <2>4, <2>7, <2>12, <2>16, <3>1, <4>1 DEF PatchTold
    <3>2. CASE ~M!Emits(x) BY <1>2, <2>4, <2>8, <2>9, <2>12, <3>2 DEF PatchTold
    <3> QED BY <3>1, <3>2
  <2>14. M!NoPatchIsLost' BY <2>1, <2>2, <2>3 DEF M!NoPatchIsLost, Holding
  <2> QED BY <2>10, <2>11, <2>13, <2>14 DEF PatchInv
<1> QED BY <1>3, <1>4 DEF M!WriteRecord

(* The change at hand becomes part of the log, or is given up. *)
LEMMA TellKeeps ==
  ASSUME PatchInv, NEW x \in Writers, NEW res \in PResults, M!Returns(x, res), Telling(x),
         \/ told' = Append(told, ChangeOf(x)) /\ lost' = lost
         \/ told' = told /\ lost' = lost \cup {Len(published)},
         UNCHANGED <<tags, pub, now, foreign, published>>
  PROVE  PatchInv'
<1> DEFINE i == [M!Idle EXCEPT !.result = res]
<1>1. i \in PWriter /\ i.at = "idle" BY IdleTyped DEF PWriter
<1>2. wr' = [wr EXCEPT ![x] = i] BY DEF M!Returns
<1> HIDE DEF i
<1>3. wr'[x].at = "idle" /\ \A y \in Writers \ {x} : wr'[y] = wr[y] BY <1>1, <1>2 DEF PatchInv, PatchTyped
<1>4. Holding(x) BY DEF Telling, Holding
<1>5. \A y \in Writers : ~Holding(y)' BY <1>3, <1>4, OneHolder DEF Holding
<1>6. \A y \in Writers : ~Telling(y)' BY <1>5 DEF Telling, Holding
<1>7. wr[x] \in PWriter BY DEF PatchInv, PatchTyped
<1> DEFINE k == Len(published)
           c == ChangeOf(x)
<1>8. /\ told \in Seq(PChanges) /\ published \in Seq(PChanges) /\ lost \in SUBSET (1..k) /\ k \in Nat
      /\ k > 0 /\ k \notin lost /\ published[k] = c /\ ToldTo(told, published, lost, k - 1)
  BY DEF PatchInv, PatchTold, PatchTyped
<1>9. c \in PChanges /\ c.nr = k
  <2>1. wr[x].read \in PRecs /\ wr[x].want \in Writers \cup {0} BY <1>7 DEF PWriter
  <2> QED BY <1>8, <2>1, RequestTyped DEF ChangeOf, M!Change, PChanges
<1> HIDE DEF c
<1>10. ToldTo(Append(told, c), published, lost, k) /\ ToldTo(told, published, lost \cup {k}, k)
  BY <1>8, <1>9, ToldEnds
<1>11. (told' = Append(told, c) /\ lost' = lost) \/ (told' = told /\ lost' = lost \cup {k}) BY DEF c
<1> HIDE DEF k
<1>12. ToldTo(told', published, lost', k) /\ told' \in Seq(PChanges) /\ lost' \in SUBSET (1..k)
  <2>1. Append(told, c) \in Seq(PChanges) /\ lost \cup {k} \in SUBSET (1..k) BY <1>8, <1>9
  <2> QED BY <1>8, <1>10, <1>11, <2>1, Zenon
<1>13. PatchTyped' BY <1>1, <1>2, <1>12 DEF PatchInv, PatchTyped, k
<1>14. PatchLocked'
  <2>1. creation' = IF creation = x THEN 0 ELSE creation BY DEF M!Returns, M!Frees
  <2>2. x # 99 BY SessionAssumption
  <2> QED BY <1>5, <2>1, <2>2 DEF PatchInv, PatchLocked
<1>15. PatchTold' BY <1>6, <1>12 DEF PatchTold, k
<1>16. M!NoPatchIsLost' BY <1>5 DEF M!NoPatchIsLost, Holding
<1> QED BY <1>13, <1>14, <1>15, <1>16 DEF PatchInv

LEMMA AppendEventKeeps ==
  ASSUME PatchInv, NEW x \in Writers, M!AppendEvent(x) \/ M!AppendFails(x) PROVE PatchInv'
<1>1. /\ wr[x].at = "append" /\ M!Returns(x, "changed") /\ UNCHANGED <<tags, pub, now, foreign, published>>
      /\ IF M!Emits(x) THEN \/ told' = Append(told, ChangeOf(x)) /\ lost' = lost
                            \/ told' = told /\ lost' = lost \cup {Len(published)}
         ELSE UNCHANGED <<told, lost>> BY DEF M!AppendEvent, M!AppendFails, M!Untold, ChangeOf
<1>2. "changed" \in PResults BY DEF PResults
<1>3. CASE M!Emits(x) BY <1>1, <1>2, <1>3, TellKeeps DEF Telling
<1>4. CASE ~M!Emits(x) BY <1>1, <1>2, <1>4, ReturnKeeps DEF Telling
<1> QED BY <1>3, <1>4

LEMMA DiesKeeps == ASSUME PatchInv, NEW x \in Writers, M!Dies(x) PROVE PatchInv'
<1>1. /\ M!Returns(x, "died") /\ UNCHANGED <<tags, told, pub, now, foreign, published>>
      /\ lost' = IF Telling(x) THEN lost \cup {Len(published)} ELSE lost BY DEF M!Dies, M!Untold, Telling
<1>2. "died" \in PResults BY DEF PResults
<1>3. CASE Telling(x) BY <1>1, <1>2, <1>3, TellKeeps
<1>4. CASE ~Telling(x) BY <1>1, <1>2, <1>4, ReturnKeeps
<1> QED BY <1>3, <1>4

(* The launch, removal, a foreign write and the clock. *)
LEMMA PatchOthersKeep ==
  ASSUME PatchInv, UNCHANGED wr,
         M!PublishBegins \/ M!PublishClears \/ M!PublishWrites \/ M!CleanupAll \/ M!ForeignWrite \/ M!Tick
  PROVE  PatchInv'
<1>1. \A y \in Writers : /\ Holding(y)' <=> Holding(y)
                         /\ Telling(y)' <=> Telling(y)
                         /\ published' = published => ChangeOf(y)' = ChangeOf(y)
  BY DEF Holding, Telling, M!Emits, ChangeOf, M!Change, M!Requested
<1>2. \A y \in Writers : Telling(y) => Holding(y) BY DEF Telling, Holding
<1>3. CASE M!PublishBegins
  <2>1. \A y \in Writers : ~Holding(y) BY <1>3, HolderReal DEF M!PublishBegins
  <2>2. PatchTyped' BY <1>3, SessionAssumption DEF M!PublishBegins, PatchInv, PatchTyped
  <2>3. PatchLocked' BY <1>1, <1>3, <2>1 DEF M!PublishBegins, M!Publisher, PatchLocked
  <2> QED BY <1>1, <1>3, <2>2, <2>3 DEF M!PublishBegins, PatchInv, PatchTold, M!NoPatchIsLost
<1>4. CASE M!PublishClears
  <2>1. pub.at = "clear" BY <1>4 DEF M!PublishClears
  <2>2. \A y \in Writers : ~Holding(y) /\ ~Telling(y) BY <1>2, <2>1, HolderReal
  <2>3. PatchTyped' /\ ToldTo(told', published', lost', Len(published'))
    <3>1. UNCHANGED <<wr, tags, now, foreign>> BY <1>4 DEF M!PublishClears
    <3>2. told' \in Seq(PChanges) /\ published' \in Seq(PChanges) /\ lost' \in SUBSET (1..Len(published'))
          /\ ToldTo(told', published', lost', Len(published'))
      <4>1. (told' = <<>> /\ published' = <<>> /\ lost' = {}) \/ UNCHANGED <<told, published, lost>>
        BY <1>4 DEF M!PublishClears
      <4>2. told \in Seq(PChanges) /\ published \in Seq(PChanges) /\ lost \in SUBSET (1..Len(published))
            /\ ToldTo(told, published, lost, Len(published)) BY <2>2 DEF PatchInv, PatchTyped, PatchTold
      <4> QED BY <4>1, <4>2, NoneTold, Zenon
    <3>3. pub' = [pub EXCEPT !.at = "write"] \/ pub' = [pub EXCEPT !.at = "failed"] BY <1>4 DEF M!PublishClears
    <3>4. pub' \in [at : {"idle", "clear", "write", "failed"}, deadline : Int] BY <3>3 DEF PatchInv, PatchTyped
    <3> QED BY <3>1, <3>2, <3>4 DEF PatchInv, PatchTyped
  <2>4. PatchLocked'
    <3>1. (pub' = [pub EXCEPT !.at = "write"] /\ UNCHANGED creation) \/ pub' = [pub EXCEPT !.at = "failed"]
      BY <1>4 DEF M!PublishClears
    <3>2. (pub'.at = "write" /\ UNCHANGED creation) \/ pub'.at = "failed" BY <3>1 DEF PatchInv, PatchTyped
    <3> QED BY <1>1, <2>1, <2>2, <3>2 DEF PatchInv, PatchLocked
  <2>5. PatchTold' BY <1>1, <2>2, <2>3 DEF PatchTold
  <2>6. UNCHANGED <<tags, foreign>> BY <1>4 DEF M!PublishClears
  <2> QED BY <2>3, <2>4, <2>5, <2>6 DEF PatchInv, M!NoPatchIsLost
<1>5. CASE M!PublishWrites
  <2>1. \A y \in Writers : ~Holding(y) BY <1>5, HolderReal DEF M!PublishWrites
  <2>2. PatchTyped' BY <1>5 DEF M!PublishWrites, PatchInv, PatchTyped, PRecs
  <2>3. pub'.at = "idle" BY <1>5 DEF M!PublishWrites, PatchInv, PatchTyped
  <2>4. PatchLocked' BY <1>1, <2>1, <2>3 DEF PatchLocked
  <2>5. M!NoPatchIsLost' BY <2>1 DEF Holding, M!NoPatchIsLost
  <2> QED BY <1>1, <1>5, <2>2, <2>4, <2>5 DEF M!PublishWrites, PatchInv, PatchTold
<1>6. CASE M!CleanupAll
  <2>1. \A y \in Writers : ~Holding(y) /\ ~Telling(y) BY <1>2, <1>6, HolderReal DEF M!CleanupAll
  <2>2. PatchTyped' BY <1>6, NoneTold DEF M!CleanupAll, M!NoRec, PatchInv, PatchTyped, PRecs
  <2>3. PatchLocked' BY <1>1, <1>6 DEF M!CleanupAll, PatchInv, PatchLocked
  <2>4. PatchTold'
    <3>1. ToldTo(told', published', lost', Len(published')) BY <1>6, NoneTold, Zenon DEF M!CleanupAll
    <3> QED BY <1>1, <2>1, <3>1 DEF PatchTold
  <2>5. M!NoPatchIsLost' BY <2>1 DEF Holding, M!NoPatchIsLost
  <2> QED BY <2>2, <2>3, <2>4, <2>5 DEF PatchInv
<1>7. CASE M!ForeignWrite
  <2>1. PatchTyped'
    <3>3. tags \in PRecs /\ foreign \in Nat BY DEF PatchInv, PatchTyped
    <3>1. tags' \in PRecs /\ foreign' \in Nat BY <1>7, <3>3 DEF M!ForeignWrite, PRecs
    <3>2. UNCHANGED <<wr, told, published, lost, now, pub>> BY <1>7 DEF M!ForeignWrite
    <3> QED BY <3>1, <3>2 DEF PatchInv, PatchTyped
  <2>2. PatchLocked' /\ PatchTold' BY <1>1, <1>7 DEF M!ForeignWrite, PatchInv, PatchLocked, PatchTold
  <2>3. foreign' # 0 BY <1>7 DEF M!ForeignWrite, PatchInv, PatchTyped
  <2> QED BY <2>1, <2>2, <2>3 DEF PatchInv, M!NoPatchIsLost
<1>8. CASE M!Tick
  <2>1. PatchTyped' BY <1>8 DEF M!Tick, PatchInv, PatchTyped
  <2> QED BY <1>1, <1>8, <2>1 DEF M!Tick, PatchInv, PatchLocked, PatchTold, M!NoPatchIsLost
<1> QED BY <1>3, <1>4, <1>5, <1>6, <1>7, <1>8

LEMMA PatchSteps == ASSUME PatchInv, M!PatchNext PROVE PatchInv'
<1>1. CASE \E x \in Writers :
             \/ \E op \in Ops : M!Begin(x, op, x)
             \/ M!CreationSettled(x) \/ M!TakeEventLock(x) \/ M!TakeCreationLock(x) \/ M!Decide(x)
             \/ M!Reread(x) \/ M!WriteRecord(x) \/ M!AppendEvent(x) \/ M!AppendFails(x) \/ M!Dies(x)
  BY <1>1, BeginKeeps, CreationSettledKeeps, TakeEventLockKeeps, TakeCreationLockKeeps, DecideKeeps,
     RereadKeeps, WriteRecordKeeps, AppendEventKeeps, DiesKeeps
<1>2. CASE M!PublishBegins \/ M!PublishClears \/ M!PublishWrites \/ M!CleanupAll \/ M!ForeignWrite \/ M!Tick
  <2>1. UNCHANGED wr
    BY <1>2 DEF M!PublishBegins, M!PublishClears, M!PublishWrites, M!CleanupAll, M!ForeignWrite, M!Tick
  <2> QED BY <1>2, <2>1, PatchOthersKeep
<1> QED BY <1>1, <1>2 DEF M!PatchNext

LEMMA PatchSays == ASSUME PatchInv PROVE M!EventPerChange /\ M!NoPatchIsLost
<1>1. ASSUME \A x \in Writers : wr[x].at # "append" PROVE ToldTo(told, published, lost, Len(published))
  BY <1>1 DEF PatchInv, PatchTold, Telling
<1>2. DOMAIN published = 1..Len(published) BY DEF PatchInv, PatchTyped
<1> QED BY <1>1, <1>2 DEF PatchInv, ToldTo, M!EventPerChange

----------------------------------------------------------------------------
(* The fold of append_batch.  FoldLeft is a function of the subsets of the *)
(* positions; that it exists is shown by induction on how far they reach. *)

LEMMA LeastNat ==
  ASSUME NEW S, S \subseteq Nat, S # {}
  PROVE  \E x \in S : \A y \in S : x <= y
<1> DEFINE Less == {pr \in Nat \X Nat : pr[1] < pr[2]}
<1>1. IsWellFoundedOn(Less, Nat) BY NatLessThanWellFounded DEF OpToRel
<1> HIDE DEF Less
<1>2. PICK x \in S : \A y \in S : ~(<<y, x>> \in Less) BY <1>1, WFMin
<1>3. \A y \in S : ~(y < x) BY <1>2 DEF Less
<1> QED BY <1>3

LEMMA InductNat ==
  ASSUME NEW S, S \subseteq Nat, 0 \in S, \A k \in S : k + 1 \in S
  PROVE  \A k \in Nat : k \in S
<1> SUFFICES ASSUME Nat \ S # {} PROVE FALSE OBVIOUS
<1> DEFINE C == Nat \ S
<1>1. PICK x \in C : \A y \in C : x <= y BY LeastNat
<1>2. x # 0 /\ x - 1 \in Nat /\ x - 1 \notin C BY <1>1
<1>3. (x - 1) + 1 \in S BY <1>2
<1>4. (x - 1) + 1 = x BY <1>1
<1> QED BY <1>1, <1>3, <1>4

LEMMA GreatestOf ==
  ASSUME NEW k \in Nat, NEW s \in SUBSET (1..k), s # {}
  PROVE  Max(s) \in s /\ \A y \in s : y <= Max(s)
<1> DEFINE B == {b \in Nat : \A y \in s : y <= b}
<1>1. k \in B OBVIOUS
<1>2. PICK b \in B : \A c \in B : b <= c BY <1>1, LeastNat
<1>3. b \in s
  <2> SUFFICES ASSUME b \notin s PROVE FALSE OBVIOUS
  <2>1. \A y \in s : y \in Int /\ 1 <= y /\ y <= b /\ y # b BY <1>2
  <2>0. PICK z \in s : TRUE OBVIOUS
  <2>2. b - 1 \in Nat /\ \A y \in s : y <= b - 1 BY <1>2, <2>0, <2>1
  <2>3. b - 1 \in B BY <2>2
  <2> QED BY <1>2, <2>3
<1>4. \A y \in s : b >= y BY <1>2
<1>5. \E x \in s : \A y \in s : x >= y BY <1>3, <1>4
<1>6. Max(s) \in s /\ \A y \in s : Max(s) >= y BY <1>5 DEF Max
<1> QED BY <1>6

LEMMA LastOf == ASSUME NEW k \in Nat PROVE Max(1..(k + 1)) = k + 1 /\ (1..(k + 1)) \ {k + 1} = 1..k
<1>1. 1..(k + 1) \in SUBSET (1..(k + 1)) /\ k + 1 \in 1..(k + 1) /\ 1..(k + 1) # {} /\ k + 1 \in Nat OBVIOUS
<1> DEFINE x == Max(1..(k + 1))
<1>2. x \in 1..(k + 1) /\ \A y \in 1..(k + 1) : y <= x BY <1>1, GreatestOf
<1> HIDE DEF x
<1>3. x = k + 1 BY <1>1, <1>2
<1>4. (1..(k + 1)) \ {k + 1} = 1..k OBVIOUS
<1> QED BY <1>3, <1>4 DEF x

BatchBody(S, base, ev, g) ==
  [s \in SUBSET S |-> IF s = {} THEN base ELSE E!AddToBatch(g[s \ {Max(s)}], ev[Max(s)])]

LEMMA BatchIsFold ==
  ASSUME NEW base, NEW ev, \E g : g = BatchBody(DOMAIN ev, base, ev, g)
  PROVE  \E g : /\ g = BatchBody(DOMAIN ev, base, ev, g)
                /\ E!FoldLeft(E!AddToBatch, base, ev) = g[DOMAIN ev]
BY DEF E!FoldLeft, E!MapThenFoldSet, BatchBody, E!Max, Max

LEMMA BatchFoldExists ==
  ASSUME NEW base, NEW ev, NEW k \in Nat
  PROVE  \E g : g = BatchBody(1..k, base, ev, g)
<1> DEFINE K == {j \in Nat : \E g : g = BatchBody(1..j, base, ev, g)}
<1>1. 0 \in K
  <2> DEFINE h == [s \in SUBSET (1..0) |-> base]
  <2>1. \A s \in SUBSET (1..0) : s = {} OBVIOUS
  <2>2. h = BatchBody(1..0, base, ev, h) BY <2>1 DEF BatchBody
  <2> QED BY <2>2
<1>2. ASSUME NEW j \in K PROVE j + 1 \in K
  <2>1. PICK g : g = BatchBody(1..j, base, ev, g) OBVIOUS
  <2> DEFINE h == BatchBody(1..(j + 1), base, ev, g)
  <2>2. \A s \in SUBSET (1..(j + 1)) : s # {} => s \ {Max(s)} \in SUBSET (1..j)
    <3> SUFFICES ASSUME NEW s \in SUBSET (1..(j + 1)), s # {}, NEW y \in s \ {Max(s)} PROVE y \in 1..j
      OBVIOUS
    <3>0. j + 1 \in Nat OBVIOUS
    <3>1. Max(s) \in s /\ y <= Max(s) BY <3>0, GreatestOf
    <3>2. Max(s) \in 1..(j + 1) /\ y \in 1..(j + 1) /\ y # Max(s) BY <3>1
    <3> QED BY <3>1, <3>2
  <2>3. \A s \in SUBSET (1..j) : h[s] = g[s]
    <3> SUFFICES ASSUME NEW s \in SUBSET (1..j) PROVE h[s] = g[s] OBVIOUS
    <3>1. s \in SUBSET (1..(j + 1)) OBVIOUS
    <3>2. h[s] = IF s = {} THEN base ELSE E!AddToBatch(g[s \ {Max(s)}], ev[Max(s)]) BY <3>1 DEF BatchBody
    <3>3. g[s] = IF s = {} THEN base ELSE E!AddToBatch(g[s \ {Max(s)}], ev[Max(s)]) BY <2>1 DEF BatchBody
    <3> QED BY <3>2, <3>3
  <2>4. \A s \in SUBSET (1..(j + 1)) : s # {} => g[s \ {Max(s)}] = h[s \ {Max(s)}] BY <2>2, <2>3
  <2>5. h = BatchBody(1..(j + 1), base, ev, h) BY <2>4 DEF BatchBody
  <2> QED BY <2>5
<1>3. k \in K BY <1>1, <1>2, InductNat
<1> QED BY <1>3

Lines == Seq(Int)
BatchType == [lines : Lines, count : Int, dirty : BOOLEAN, length : Int, out : Seq(Lines)]

LEMMA RetainedTyped == ASSUME NEW s \in Lines PROVE E!RetainedSuffix(s) \in Lines
<1>1. CASE Len(s) < MAX_LINES BY <1>1 DEF E!RetainedSuffix
<1>2. CASE ~(Len(s) < MAX_LINES)
  <2> DEFINE a == Len(s) - KEEP_LINES + 1
  <2>1. a \in Int /\ 1 <= a /\ Len(s) \in Nat BY <1>2, SessionAssumption DEF Lines
  <2>2. E!RetainedSuffix(s) = SubSeq(s, a, Len(s)) BY <1>2 DEF E!RetainedSuffix
  <2> HIDE DEF a
  <2>3. SubSeq(s, a, Len(s)) \in Seq(Int) BY <2>1 DEF Lines
  <2> QED BY <2>2, <2>3 DEF Lines
<1> QED BY <1>1, <1>2

LEMMA AddTyped ==
  ASSUME NEW acc \in BatchType, NEW e \in Int
  PROVE  LET t == E!AddToBatch(acc, e) IN t \in BatchType /\ (t.dirty \/ t.out # <<>>)
<1> DEFINE all == Append(acc.lines, e)
           cut == E!RetainedSuffix(all)
           a == [acc EXCEPT !.lines = all, !.count = @ + 1, !.dirty = TRUE]
           b == [acc EXCEPT !.lines = all, !.count = 0, !.dirty = TRUE]
           o == acc.out \o (IF Len(cut) >= acc.length THEN <<all>> ELSE <<>>) \o <<cut>>
           c == [lines |-> cut, count |-> 0, dirty |-> FALSE, length |-> Len(cut), out |-> o]
           t == E!AddToBatch(acc, e)
<1>1. t = a \/ t = b \/ t = c BY DEF E!AddToBatch
<1>2. all \in Lines BY DEF BatchType, Lines
<1> HIDE DEF all
<1>3. cut \in Lines BY <1>2, RetainedTyped
<1> HIDE DEF cut
<1>4. a \in BatchType /\ a.dirty /\ b \in BatchType /\ b.dirty
  <2>1. \A r \in BatchType : [r EXCEPT !.lines = all] \in BatchType BY <1>2 DEF BatchType
  <2>2. \A r \in BatchType, i \in Int : [r EXCEPT !.count = i] \in BatchType BY DEF BatchType
  <2>3. \A r \in BatchType : [r EXCEPT !.dirty = TRUE] \in BatchType /\ [r EXCEPT !.dirty = TRUE].dirty
    BY DEF BatchType
  <2> DEFINE a0 == [acc EXCEPT !.lines = all]
             a1 == [a0 EXCEPT !.count = acc.count + 1]
             b1 == [a0 EXCEPT !.count = 0]
  <2>4. a = [a1 EXCEPT !.dirty = TRUE] /\ b = [b1 EXCEPT !.dirty = TRUE] BY DEF BatchType
  <2>5. a0 \in BatchType BY <2>1
  <2> HIDE DEF a0
  <2>6. acc.count + 1 \in Int BY DEF BatchType
  <2>7. a1 \in BatchType /\ b1 \in BatchType BY <2>2, <2>5, <2>6
  <2> HIDE DEF a1, b1, a, b
  <2> QED BY <2>3, <2>4, <2>7
<1>5. o \in Seq(Lines) /\ o # <<>>
  <2> DEFINE q == acc.out \o (IF Len(cut) >= acc.length THEN <<all>> ELSE <<>>)
  <2>1. acc.out \in Seq(Lines) BY DEF BatchType
  <2>2. <<all>> \in Seq(Lines) /\ <<>> \in Seq(Lines) /\ <<cut>> \in Seq(Lines) BY <1>2, <1>3
  <2>3. q \in Seq(Lines) BY <2>1, <2>2
  <2> HIDE DEF q
  <2>4. q \o <<cut>> \in Seq(Lines) /\ Len(q \o <<cut>>) = Len(q) + 1 /\ Len(q) \in Nat BY <1>3, <2>3
  <2>5. q \o <<cut>> # <<>> BY <2>4
  <2> QED BY <2>4, <2>5 DEF q
<1> HIDE DEF o
<1>6. Len(cut) \in Int BY <1>3 DEF Lines
<1>7. c \in BatchType /\ c.out # <<>> BY <1>3, <1>5, <1>6 DEF BatchType
<1> HIDE DEF a, b, c, t
<1>8. t \in BatchType /\ (t.dirty \/ t.out # <<>>) BY <1>1, <1>4, <1>7
<1> QED BY <1>8 DEF t

(* What append_batch publishes is one file or more, of whole lines. *)
LEMMA BatchTyped ==
  ASSUME NEW ls \in Lines, NEW ev \in Lines, ev # <<>>, NEW c \in Int
  PROVE  E!AppendBatch(ls, ev, c) \in Seq(Lines) /\ E!AppendBatch(ls, ev, c) # <<>>
<1> DEFINE base == [lines |-> ls, count |-> c, dirty |-> FALSE, length |-> Len(ls), out |-> <<>>]
           k == Len(ev)
           end == E!FoldLeft(E!AddToBatch, base, ev)
<1>1. k \in Nat /\ k # 0 /\ DOMAIN ev = 1..k /\ \A i \in 1..k : ev[i] \in Int BY DEF Lines
<1>2. \E g : g = BatchBody(1..k, base, ev, g) BY <1>1, BatchFoldExists
<1> HIDE DEF k
<1>3. PICK g : g = BatchBody(DOMAIN ev, base, ev, g) /\ end = g[DOMAIN ev] BY <1>1, <1>2, BatchIsFold
<1>4. base \in BatchType
  <2>1. <<>> \in Seq(Lines) /\ Len(ls) \in Int BY DEF Lines
  <2> QED BY <2>1 DEF BatchType
<1> HIDE DEF base, end
<1> DEFINE Good(j) == g[1..j] \in BatchType /\ (j > 0 => g[1..j].dirty \/ g[1..j].out # <<>>)
           K == {j \in Nat : j <= k => Good(j)}
<1>5. 0 \in K
  <2>1. 1..0 = {} /\ {} \in SUBSET (1..k) OBVIOUS
  <2>2. g[{}] = base BY <1>1, <1>3, <2>1 DEF BatchBody
  <2> QED BY <1>4, <2>1, <2>2
<1>6. ASSUME NEW j \in K PROVE j + 1 \in K
  <2> SUFFICES ASSUME j + 1 <= k PROVE Good(j + 1) OBVIOUS
  <2> DEFINE s == 1..(j + 1)
  <2>1. s \in SUBSET (1..k) /\ s # {}
    <3>1. \A y \in s : y \in 1..k BY <1>1
    <3>2. 1 \in s OBVIOUS
    <3> QED BY <3>1, <3>2
  <2>2. Max(s) = j + 1 /\ s \ {j + 1} = 1..j BY LastOf
  <2>3. g[s] = E!AddToBatch(g[s \ {Max(s)}], ev[Max(s)]) BY <1>1, <1>3, <2>1 DEF BatchBody
  <2>4. g[1..j] \in BatchType /\ ev[j + 1] \in Int BY <1>1
  <2> HIDE DEF s
  <2>5. g[s] = E!AddToBatch(g[1..j], ev[j + 1]) BY <2>2, <2>3
  <2>6. g[s] \in BatchType /\ (g[s].dirty \/ g[s].out # <<>>) BY <2>4, <2>5, AddTyped
  <2> QED BY <2>6 DEF s
<1>7. k \in K BY <1>1, <1>5, <1>6, InductNat
<1>8. end \in BatchType /\ (end.dirty \/ end.out # <<>>) BY <1>1, <1>3, <1>7
<1>9. E!AppendBatch(ls, ev, c) = IF end.dirty THEN Append(end.out, end.lines) ELSE end.out
  BY DEF E!AppendBatch, end, base
<1>10. end.lines \in Lines /\ end.out \in Seq(Lines) BY <1>8 DEF BatchType
<1>11. Append(end.out, end.lines) \in Seq(Lines) /\ Append(end.out, end.lines) # <<>> BY <1>10
<1> QED BY <1>8, <1>9, <1>10, <1>11

----------------------------------------------------------------------------
(* The event log, its follower and the waiting command: the invariant. *)

EOver == {"done", "killed"}
ELog == [ino : Inodes \cup {0}, lines : Lines]
EWriter == [queue : Lines, pending : Lines, due : BOOLEAN, publish : BOOLEAN, count : Int,
            out : Seq(Lines), lost : SUBSET Int]
EFollower ==
  [pc : {"off", "scan", "present", "claimed", "missing", "removed", "retained", "vanish", "unclaimed",
         "wait", "ended"},
   offset : Nat, snap : Lines, ino : Inodes \cup {0}, seen : BOOLEAN, exited : BOOLEAN,
   got : SUBSET Int, hist : SUBSET Int, why : {"none", "exit", "removed", "vanished"}]
EWaiter ==
  [want : {"exit", "user", "all"},
   pc : {"recorded", "target", "subscribe", "again", "checked", "recv", "over", "none", "done"},
   gen : Nat, result : {"none", "seen", "refused", "timeout", "unseen"}, recorded : BOOLEAN]
EDaemon == [gen : Nat, pc : {"run", "flush"} \cup EOver]
ERow == [state : {"running", "exited", "none"}, gen : Nat]

EventsTyped ==
  /\ log \in ELog /\ w \in EWriter /\ f \in EFollower /\ v \in EWaiter /\ dm \in EDaemon /\ meta \in ERow
  /\ n \in [event : Nat, hold : Nat]

LogFacts == log.ino = 0 => log.lines = <<>>

(* The writer has the lock only with files to publish, and a daemon that is *)
(* over has nothing left to write. *)
WriterFacts ==
  /\ w.due \/ w.publish => w.pending # <<>>
  /\ w.publish => ~w.due
  /\ elock = "writer" => w.publish /\ w.out # <<>>
  /\ dm.pc \in EOver => w.queue = <<>> /\ w.pending = <<>>

RowFacts ==
  /\ meta.gen = dm.gen /\ v.gen <= dm.gen
  /\ meta.state = "exited" => dm.pc = "done"
  /\ meta.state = "none" => dm.pc \in EOver

(* What the follower has read it has passed on. *)
ReadFacts == f.offset = Len(f.snap) /\ ToSet(f.snap) \subseteq f.got \cup f.hist

(* The daemon the waiting command asked about is over, and has no exit on *)
(* record that could still appear. *)
WaitOver == v.gen < dm.gen \/ dm.pc \in EOver
WaitLost == v.gen < dm.gen \/ (dm.pc \in EOver /\ meta.state # "exited")
SawExit(g) == \E e \in g : e < 0
WaitFacts ==
  /\ f.exited => SawExit(f.got)
  /\ f.pc \in {"removed", "unclaimed"} => WaitOver
  /\ f.pc = "ended" => WaitOver \/ SawExit(f.got)
  /\ v.want = "exit" => /\ v.pc = "over" => WaitOver
                        /\ v.pc = "none" => WaitLost
                        /\ v.result = "unseen" => ~v.recorded

EventsInv == EventsTyped /\ LogFacts /\ WriterFacts /\ RowFacts /\ ReadFacts /\ WaitFacts

LEMMA SetsAgree == ASSUME NEW s PROVE E!ToSet(s) = ToSet(s)
BY DEF E!ToSet, ToSet

LEMMA TailSet ==
  ASSUME NEW s \in Lines, NEW a \in 0..Len(s)
  PROVE  /\ ToSet(SubSeq(s, a + 1, Len(s))) \subseteq Int
         /\ \A i \in (a + 1)..Len(s) : s[i] \in ToSet(SubSeq(s, a + 1, Len(s)))
<1> DEFINE q == SubSeq(s, a + 1, Len(s))
<1>1. Len(s) \in Nat /\ a \in Nat /\ a <= Len(s) BY DEF Lines
<1>2. q \in Seq(Int) /\ Len(q) = Len(s) - a /\ \A j \in 1..(Len(s) - a) : q[j] = s[a + j]
  BY <1>1 DEF Lines
<1> HIDE DEF q
<1>3. ToSet(q) \subseteq Int BY <1>2 DEF ToSet
<1>4. ASSUME NEW i \in (a + 1)..Len(s) PROVE s[i] \in ToSet(q)
  <2>1. i - a \in 1..(Len(s) - a) /\ a + (i - a) = i BY <1>1
  <2>2. q[i - a] = s[i] /\ i - a \in DOMAIN q BY <1>1, <1>2, <2>1
  <2> QED BY <2>2 DEF ToSet
<1> QED BY <1>3, <1>4 DEF q

LEMMA EventsTypes ==
  ASSUME EventsInv
  PROVE  /\ log \in ELog /\ w \in EWriter /\ f \in EFollower /\ v \in EWaiter /\ dm \in EDaemon /\ meta \in ERow
         /\ n \in [event : Nat, hold : Nat] /\ log.lines \in Lines /\ f.snap \in Lines
         /\ f.got \subseteq Int /\ f.hist \subseteq Int /\ f.offset \in Nat /\ Len(log.lines) \in Nat
BY DEF EventsInv, EventsTyped, ELog, EFollower, Lines

(* read_new_lines: whatever it finds, the lines up to its offset are passed *)
(* on, and the whole log is, unless it looks unchanged. *)
LEMMA ReadDoes ==
  ASSUME EventsInv
  PROVE  LET t == E!ReadNewLines(f) IN
         /\ t \in EFollower /\ t.pc = f.pc /\ t.seen = f.seen /\ t.exited = f.exited /\ t.hist = f.hist
         /\ f.got \subseteq t.got
         /\ t.offset = Len(t.snap) /\ ToSet(t.snap) \subseteq t.got \cup t.hist
         /\ ToSet(log.lines) \subseteq t.got \cup t.hist \/ E!LooksUnchanged
<1> DEFINE t == E!ReadNewLines(f)
           ls == log.lines
           off == IF \/ Len(ls) < f.offset
                     \/ SubSeq(ls, 1, f.offset) # SubSeq(f.snap, 1, f.offset)
                  THEN 0 ELSE f.offset
           new == ToSet(SubSeq(ls, off + 1, Len(ls)))
           u == [f EXCEPT !.ino = log.ino, !.snap = ls, !.offset = Len(ls), !.got = f.got \cup new]
           same == log.ino = 0 \/ (f.ino = log.ino /\ Len(ls) = Len(f.snap))
<1>1. /\ f \in EFollower /\ log \in ELog /\ ls \in Lines /\ f.snap \in Lines /\ f.offset \in Nat /\ Len(ls) \in Nat
      /\ f.got \subseteq Int /\ log.ino \in Inodes \cup {0} BY EventsTypes DEF ELog
<1>2. f.offset = Len(f.snap) /\ ToSet(f.snap) \subseteq f.got \cup f.hist BY DEF EventsInv, ReadFacts
<1>3. t = IF same THEN f ELSE u BY SetsAgree DEF E!ReadNewLines
<1>4. CASE same
  <2>1. t = f BY <1>3, <1>4
  <2>2. log.ino = 0 => ToSet(ls) = {}
    <3>1. log.ino = 0 => ls = <<>> BY DEF EventsInv, LogFacts
    <3>2. ToSet(<<>>) = {} BY DEF ToSet
    <3> QED BY <3>1, <3>2
  <2>3. f.ino = log.ino /\ Len(ls) = Len(f.snap) => f.snap = ls \/ E!LooksUnchanged BY DEF E!LooksUnchanged
  <2>4. ToSet(ls) \subseteq f.got \cup f.hist \/ E!LooksUnchanged BY <1>2, <1>4, <2>2, <2>3
  <2> HIDE DEF t, ls
  <2>5. /\ t \in EFollower /\ t.pc = f.pc /\ t.seen = f.seen /\ t.exited = f.exited /\ t.hist = f.hist
        /\ f.got \subseteq t.got /\ t.offset = Len(t.snap) /\ ToSet(t.snap) \subseteq t.got \cup t.hist
        /\ ToSet(ls) \subseteq t.got \cup t.hist \/ E!LooksUnchanged BY <1>1, <1>2, <2>1, <2>4
  <2> QED BY <2>5 DEF t, ls
<1>5. CASE ~same
  <2>1. t = u BY <1>3, <1>5
  <2>2. off \in 0..Len(ls) BY <1>1
  <2>3. ASSUME NEW i \in 1..Len(ls), i <= off PROVE ls[i] \in ToSet(f.snap)
    <3>1. off = f.offset /\ f.offset <= Len(ls) /\ SubSeq(ls, 1, f.offset) = SubSeq(f.snap, 1, f.offset)
      BY <1>1, <2>3
    <3> HIDE DEF off
    <3>2. i \in 1..f.offset BY <2>3, <3>1
    <3>3. SubSeq(ls, 1, f.offset)[i] = ls[i] BY <1>1, <3>1, <3>2 DEF Lines
    <3>4. SubSeq(f.snap, 1, f.offset)[i] = f.snap[i] BY <1>1, <1>2, <3>2 DEF Lines
    <3>5. ls[i] = f.snap[i] /\ i \in DOMAIN f.snap BY <1>1, <1>2, <3>1, <3>2, <3>3, <3>4 DEF Lines
    <3> QED BY <3>5 DEF ToSet
  <2> HIDE DEF off
  <2>4. new \subseteq Int /\ \A i \in (off + 1)..Len(ls) : ls[i] \in new BY <1>1, <2>2, TailSet
  <2> HIDE DEF new
  <2>5. /\ u \in EFollower /\ u.pc = f.pc /\ u.seen = f.seen /\ u.exited = f.exited /\ u.hist = f.hist
        /\ u.got = f.got \cup new /\ u.offset = Len(ls) /\ u.snap = ls BY <1>1, <2>4 DEF EFollower
  <2>6. ToSet(ls) \subseteq u.got \cup u.hist
    <3>0. DOMAIN ls = 1..Len(ls) BY <1>1 DEF Lines
    <3> HIDE DEF u, ls
    <3> SUFFICES ASSUME NEW i \in 1..Len(ls) PROVE ls[i] \in u.got \cup u.hist BY <3>0 DEF ToSet
    <3>1. i <= off \/ i \in (off + 1)..Len(ls) BY <1>1, <2>2
    <3> QED BY <1>2, <2>3, <2>4, <2>5, <3>1
  <2> HIDE DEF t, u, ls
  <2>7. /\ t \in EFollower /\ t.pc = f.pc /\ t.seen = f.seen /\ t.exited = f.exited /\ t.hist = f.hist
        /\ f.got \subseteq t.got /\ t.offset = Len(t.snap) /\ ToSet(t.snap) \subseteq t.got \cup t.hist
        /\ ToSet(ls) \subseteq t.got \cup t.hist BY <2>1, <2>5, <2>6
  <2> QED BY <2>7 DEF t, ls
<1> QED BY <1>4, <1>5

LEMMA EventsBegin == E!EventsInit => EventsInv
<1> SUFFICES ASSUME E!EventsInit PROVE EventsInv OBVIOUS
<1>1. <<>> \in Lines /\ <<>> \in Seq(Lines) /\ Len(<<>>) = 0 BY DEF Lines
<1>2. (CHOOSE i \in Inodes : TRUE) \in Inodes BY SessionAssumption
<1>3. log \in ELog /\ log.ino # 0 BY <1>1, <1>2, SessionAssumption DEF E!EventsInit, ELog
<1>4. /\ w \in EWriter /\ ~w.due /\ ~w.publish /\ elock = "none"
  BY <1>1 DEF E!EventsInit, E!NewWriter, EWriter
<1>5. f \in EFollower /\ f.pc = "off" /\ ~f.exited /\ f.offset = 0 /\ f.snap = <<>>
  BY <1>1 DEF E!EventsInit, EFollower
<1>6. v \in EWaiter /\ v.pc = "recorded" /\ v.gen = 0 /\ v.result = "none" BY DEF E!EventsInit, EWaiter
<1>7. dm \in EDaemon /\ dm.gen = 1 /\ dm.pc = "run" /\ meta \in ERow /\ meta.gen = 1 /\ meta.state = "running"
      /\ n \in [event : Nat, hold : Nat] BY DEF E!EventsInit, EDaemon, ERow
<1>8. ToSet(<<>>) = {} BY DEF ToSet
<1>9. EventsTyped BY <1>3, <1>4, <1>5, <1>6, <1>7 DEF EventsTyped
<1>10. LogFacts /\ WriterFacts /\ RowFacts /\ ReadFacts
  BY <1>1, <1>3, <1>4, <1>5, <1>6, <1>7, <1>8 DEF LogFacts, WriterFacts, RowFacts, ReadFacts, EOver
<1>11. WaitFacts BY <1>5, <1>6 DEF WaitFacts
<1> QED BY <1>9, <1>10, <1>11 DEF EventsInv

----------------------------------------------------------------------------
(* The daemon, its writer and the other processes. *)

LEMMA WaitFactsKept ==
  ASSUME WaitFacts, UNCHANGED <<f, v>>, WaitOver => WaitOver', WaitLost => WaitLost' PROVE WaitFacts'
BY DEF WaitFacts

(* A step of the writer, or of the daemon with it. *)
LEMMA WriterStepKeeps ==
  ASSUME EventsInv, w' \in EWriter, WriterFacts', UNCHANGED <<log, meta, f, v>>,
         n' \in [event : Nat, hold : Nat], dm' \in EDaemon, dm'.gen = dm.gen,
         dm.pc \in EOver => dm'.pc \in EOver, meta.state = "exited" => dm'.pc = "done"
  PROVE  EventsInv'
<1>1. EventsTyped' /\ LogFacts' BY DEF EventsInv, EventsTyped, LogFacts
<1>2. RowFacts' /\ ReadFacts' BY DEF EventsInv, RowFacts, ReadFacts
<1>3. WaitFacts' BY WaitFactsKept DEF EventsInv, WaitOver, WaitLost
<1> QED BY <1>1, <1>2, <1>3 DEF EventsInv

LEMMA QueueTyped ==
  ASSUME NEW x \in EWriter, NEW q \in Lines
  PROVE  LET t == [x EXCEPT !.queue = q] IN
         /\ t \in EWriter /\ t.queue = q /\ t.pending = x.pending /\ t.due = x.due /\ t.publish = x.publish
         /\ t.out = x.out
BY DEF EWriter

LEMMA QueueEventKeeps == ASSUME EventsInv, E!QueueEvent PROVE EventsInv'
<1> DEFINE q == Append(w.queue, n.event + 1)
           n1 == [n EXCEPT !.event = @ + 1]
<1>1. w \in EWriter /\ n \in [event : Nat, hold : Nat] BY EventsTypes
<1>2. w' = [w EXCEPT !.queue = q] /\ n' = n1 /\ dm.pc = "run" /\ UNCHANGED <<log, elock, dm, meta, f, v>>
  BY DEF E!QueueEvent
<1>3. q \in Lines /\ n1 \in [event : Nat, hold : Nat]
  <2>1. w.queue \in Seq(Int) /\ n.event + 1 \in Int BY <1>1 DEF EWriter, Lines
  <2> QED BY <1>1, <2>1 DEF Lines
<1> HIDE DEF q, n1
<1>4. w' \in EWriter /\ w'.pending = w.pending /\ w'.due = w.due /\ w'.publish = w.publish /\ w'.out = w.out
  BY <1>1, <1>2, <1>3, QueueTyped
<1>5. WriterFacts' BY <1>2, <1>4 DEF EventsInv, WriterFacts, EOver
<1>6. dm \in EDaemon BY EventsTypes
<1>7. meta.state # "exited" BY <1>2 DEF EventsInv, RowFacts
<1> QED BY <1>2, <1>3, <1>4, <1>5, <1>6, <1>7, WriterStepKeeps

LEMMA FinalizeExitKeeps == ASSUME EventsInv, E!FinalizeExit PROVE EventsInv'
<1> DEFINE q == w.queue \o <<E!Exit(dm.gen), 0>>
           d1 == [dm EXCEPT !.pc = "flush"]
<1>1. w \in EWriter /\ dm \in EDaemon BY EventsTypes
<1>2. w' = [w EXCEPT !.queue = q] /\ dm' = d1 /\ dm.pc = "run" /\ UNCHANGED <<log, elock, meta, f, v, n>>
  BY DEF E!FinalizeExit
<1>3. q \in Lines
  <2>1. w.queue \in Seq(Int) /\ E!Exit(dm.gen) \in Int BY <1>1 DEF EWriter, EDaemon, Lines, E!Exit
  <2>2. <<E!Exit(dm.gen), 0>> \in Seq(Int) BY <2>1
  <2> QED BY <2>1, <2>2 DEF Lines
<1>4. d1 \in EDaemon /\ d1.gen = dm.gen /\ d1.pc = "flush" BY <1>1 DEF EDaemon
<1> HIDE DEF q, d1
<1>5. w' \in EWriter /\ w'.pending = w.pending /\ w'.due = w.due /\ w'.publish = w.publish /\ w'.out = w.out
  BY <1>1, <1>2, <1>3, QueueTyped
<1>6. WriterFacts' BY <1>2, <1>4, <1>5 DEF EventsInv, WriterFacts, EOver
<1>7. meta.state # "exited" /\ dm.pc \notin EOver BY <1>2 DEF EventsInv, RowFacts, EOver
<1>8. n \in [event : Nat, hold : Nat] BY EventsTypes
<1> QED BY <1>2, <1>4, <1>5, <1>6, <1>7, <1>8, WriterStepKeeps

LEMMA NewWriterTyped ==
  E!NewWriter \in EWriter /\ ~E!NewWriter.due /\ ~E!NewWriter.publish
  /\ E!NewWriter.queue = <<>> /\ E!NewWriter.pending = <<>>
<1>1. <<>> \in Lines /\ <<>> \in Seq(Lines) BY DEF Lines
<1> QED BY <1>1 DEF E!NewWriter, EWriter

LEMMA CrashKeeps == ASSUME EventsInv, E!Crash PROVE EventsInv'
<1> DEFINE d1 == [dm EXCEPT !.pc = "killed"]
           x == [E!NewWriter EXCEPT !.lost = {E!Exit(dm.gen)}]
<1>1. dm \in EDaemon /\ n \in [event : Nat, hold : Nat] BY EventsTypes
<1>2. /\ w' = x /\ dm' = d1 /\ dm.pc \in {"run", "flush"} /\ UNCHANGED <<log, meta, f, v, n>>
      /\ elock' # "writer" BY DEF E!Crash
<1>3. {E!Exit(dm.gen)} \in SUBSET Int BY <1>1 DEF EDaemon, E!Exit
<1>4. x \in EWriter /\ ~x.due /\ ~x.publish /\ x.queue = <<>> /\ x.pending = <<>>
  BY <1>3, NewWriterTyped DEF EWriter
<1>5. d1 \in EDaemon /\ d1.gen = dm.gen /\ d1.pc \in EOver BY <1>1 DEF EDaemon, EOver
<1> HIDE DEF x, d1
<1>6. WriterFacts' BY <1>2, <1>4 DEF WriterFacts
<1>7. meta.state # "exited" BY <1>2 DEF EventsInv, RowFacts
<1> QED BY <1>1, <1>2, <1>4, <1>5, <1>6, <1>7, WriterStepKeeps

LEMMA SaveExitKeeps == ASSUME EventsInv, E!SaveExit PROVE EventsInv'
<1> DEFINE d1 == [dm EXCEPT !.pc = "done"]
           r1 == [meta EXCEPT !.state = "exited"]
<1>1. dm \in EDaemon /\ meta \in ERow BY EventsTypes
<1>2. /\ dm' = d1 /\ dm.pc = "flush" /\ E!Idle(w) /\ UNCHANGED <<log, elock, w, f, v, n>>
      /\ meta' = IF meta.gen = dm.gen THEN r1 ELSE meta BY DEF E!SaveExit
<1>3. meta' = r1 BY <1>2 DEF EventsInv, RowFacts
<1>4. d1 \in EDaemon /\ d1.gen = dm.gen /\ d1.pc = "done" BY <1>1 DEF EDaemon, EOver
<1>5. r1 \in ERow /\ r1.gen = meta.gen /\ r1.state = "exited" BY <1>1 DEF ERow
<1> HIDE DEF d1, r1
<1>6. EventsTyped' /\ LogFacts' /\ ReadFacts'
  BY <1>2, <1>3, <1>4, <1>5 DEF EventsInv, EventsTyped, LogFacts, ReadFacts
<1>7. WriterFacts' BY <1>2 DEF EventsInv, WriterFacts, E!Idle
<1>8. RowFacts' BY <1>2, <1>3, <1>4, <1>5 DEF EventsInv, RowFacts
<1>9. WaitOver => WaitOver' BY <1>2, <1>4 DEF WaitOver, EOver
<1>10. WaitLost => WaitLost' BY <1>2, <1>4 DEF WaitLost, EOver
<1>11. WaitFacts' BY <1>2, <1>9, <1>10, WaitFactsKept DEF EventsInv
<1> QED BY <1>6, <1>7, <1>8, <1>11 DEF EventsInv

LEMMA WriterRunKeeps == ASSUME EventsInv, E!WriterRun PROVE EventsInv'
<1>1. /\ w \in EWriter /\ w.queue \in Lines /\ w.pending \in Lines /\ dm \in EDaemon
      /\ n \in [event : Nat, hold : Nat] BY EventsTypes DEF EWriter
<1>2. ~w.publish /\ UNCHANGED <<log, elock, dm, meta, f, v, n>> BY DEF E!WriterRun
<1>3. elock # "writer" BY <1>2 DEF EventsInv, WriterFacts
<1>4. meta.state = "exited" => dm.pc = "done" BY DEF EventsInv, RowFacts
<1>5. CASE w.due /\ w' = [w EXCEPT !.publish = TRUE, !.due = FALSE]
  <2>1. w' \in EWriter /\ w'.publish /\ ~w'.due /\ w'.pending = w.pending /\ w'.queue = w.queue
    BY <1>1, <1>5 DEF EWriter
  <2>2. WriterFacts' BY <1>2, <1>3, <1>5, <2>1 DEF EventsInv, WriterFacts
  <2> QED BY <1>1, <1>2, <1>4, <2>1, <2>2, WriterStepKeeps
<1> DEFINE e == Head(w.queue)
           q == Tail(w.queue)
           took == [w EXCEPT !.queue = q]
           some == w.pending # <<>>
           later == e > 0
           now1 == e < 0
           more == Append(w.pending, e)
           x == [took EXCEPT !.publish = some, !.due = FALSE]
           y == [took EXCEPT !.pending = more, !.due = later, !.publish = now1]
<1>6. CASE w.queue # <<>> /\ w' = IF e = 0 THEN x ELSE y
  <2>1. e \in Int /\ q \in Lines BY <1>1, <1>6 DEF Lines
  <2>2. took \in EWriter /\ took.pending = w.pending BY <1>1, <2>1, QueueTyped
  <2> HIDE DEF e
  <2>3. some \in BOOLEAN /\ later \in BOOLEAN /\ now1 \in BOOLEAN
    <3>1. some \in BOOLEAN BY Zenon
    <3>2. later \in BOOLEAN /\ now1 \in BOOLEAN BY <2>1
    <3> QED BY <3>1, <3>2
  <2>4. more \in Lines /\ more # <<>>
    <3>1. w.pending \in Seq(Int) BY <1>1 DEF Lines
    <3>2. more \in Seq(Int) /\ Len(more) = Len(w.pending) + 1 /\ Len(w.pending) \in Nat BY <2>1, <3>1
    <3> QED BY <3>2 DEF Lines
  <2>5. dm.pc \notin EOver BY <1>6 DEF EventsInv, WriterFacts
  <2>6. (some <=> w.pending # <<>>) /\ ~(later /\ now1) BY <2>1
  <2> HIDE DEF took, some, later, now1, more
  <2>7. x \in EWriter /\ x.publish = some /\ ~x.due /\ x.pending = w.pending BY <2>2, <2>3 DEF EWriter
  <2>8. y \in EWriter /\ y.publish = now1 /\ y.due = later /\ y.pending = more BY <2>2, <2>3, <2>4 DEF EWriter
  <2> HIDE DEF x, y
  <2>9. w' \in EWriter BY <1>6, <2>7, <2>8
  <2>10. WriterFacts'
    <3>1. CASE w' = x BY <1>2, <1>3, <2>5, <2>6, <2>7, <3>1 DEF WriterFacts
    <3>2. CASE w' = y BY <1>2, <1>3, <2>4, <2>5, <2>6, <2>8, <3>2 DEF WriterFacts
    <3> QED BY <1>6, <3>1, <3>2
  <2> QED BY <1>1, <1>2, <1>4, <2>9, <2>10, WriterStepKeeps
<1> QED BY <1>5, <1>6 DEF E!WriterRun

LEMMA WriterLocksKeeps == ASSUME EventsInv, E!WriterLocks PROVE EventsInv'
<1> DEFINE o == E!AppendBatch(log.lines, w.pending, w.count)
           c == E!BatchCount(w.count, w.pending)
           x == [w EXCEPT !.out = o, !.count = c]
<1>1. /\ w \in EWriter /\ w.pending \in Lines /\ w.count \in Int /\ dm \in EDaemon /\ log.lines \in Lines
      /\ n \in [event : Nat, hold : Nat] BY EventsTypes DEF EWriter
<1>2. w.publish /\ elock' = "writer" /\ w' = x /\ UNCHANGED <<log, dm, meta, f, v, n>> BY DEF E!WriterLocks
<1>3. w.pending # <<>> /\ ~w.due BY <1>2 DEF EventsInv, WriterFacts
<1>4. o \in Seq(Lines) /\ o # <<>> BY <1>1, <1>3, BatchTyped
<1>5. c \in Int
  <2>1. w.count + Len(w.pending) \in Int BY <1>1 DEF Lines
  <2> DEFINE k == w.count + Len(w.pending)
  <2> HIDE DEF k
  <2>2. k \in Int BY <2>1 DEF k
  <2>3. k % TRUNCATE_CHECK_INTERVAL \in Int BY <2>2, SessionAssumption
  <2> QED BY <2>3 DEF E!BatchCount, k
<1> HIDE DEF o, c
<1>6. x \in EWriter /\ x.out = o /\ x.publish = w.publish /\ x.due = w.due /\ x.pending = w.pending /\ x.queue = w.queue
  BY <1>1, <1>4, <1>5 DEF EWriter
<1> HIDE DEF x
<1>7. WriterFacts' BY <1>2, <1>3, <1>4, <1>6 DEF EventsInv, WriterFacts
<1>8. meta.state = "exited" => dm.pc = "done" BY DEF EventsInv, RowFacts
<1> QED BY <1>1, <1>2, <1>6, <1>7, <1>8, WriterStepKeeps

LEMMA WriterGivesUpKeeps == ASSUME EventsInv, E!WriterGivesUp PROVE EventsInv'
<1> DEFINE l == w.lost \cup ToSet(w.pending)
           x == [w EXCEPT !.publish = FALSE, !.pending = <<>>, !.lost = l]
<1>1. w \in EWriter /\ w.pending \in Lines /\ w.lost \subseteq Int /\ dm \in EDaemon /\ n \in [event : Nat, hold : Nat]
  BY EventsTypes DEF EWriter
<1>2. w.publish /\ elock = "other" /\ w' = x /\ UNCHANGED <<log, elock, dm, meta, f, v, n>>
  BY SetsAgree DEF E!WriterGivesUp
<1>3. ~w.due BY <1>2 DEF EventsInv, WriterFacts
<1>4. <<>> \in Lines BY DEF Lines
<1>5. l \in SUBSET Int BY <1>1 DEF ToSet, Lines
<1> HIDE DEF l
<1>6. x \in EWriter /\ ~x.publish /\ x.due = w.due /\ x.pending = <<>> /\ x.queue = w.queue
  BY <1>1, <1>4, <1>5 DEF EWriter
<1> HIDE DEF x
<1>7. WriterFacts' BY <1>2, <1>3, <1>6 DEF EventsInv, WriterFacts
<1>8. meta.state = "exited" => dm.pc = "done" BY DEF EventsInv, RowFacts
<1> QED BY <1>1, <1>2, <1>6, <1>7, <1>8, WriterStepKeeps

(* A new file in the log's place. *)
LEMMA AtomicWriteTyped ==
  ASSUME NEW ls \in Lines, E!AtomicWrite(ls) PROVE log' \in ELog /\ log'.ino # 0
<1>1. PICK i \in Inodes : log' = [ino |-> i, lines |-> ls] BY DEF E!AtomicWrite
<1> QED BY <1>1, SessionAssumption DEF ELog

LEMMA WriterPublishesKeeps == ASSUME EventsInv, E!WriterPublishes PROVE EventsInv'
<1> DEFINE q == Tail(w.out)
           x == [w EXCEPT !.publish = FALSE, !.pending = <<>>, !.out = <<>>]
           y == [w EXCEPT !.out = q]
<1>1. w \in EWriter /\ w.out \in Seq(Lines) BY EventsTypes DEF EWriter
<1>2. /\ elock = "writer" /\ E!AtomicWrite(Head(w.out)) /\ UNCHANGED <<dm, meta, f, v, n>>
      /\ elock' = IF Len(w.out) = 1 THEN "none" ELSE elock
      /\ w' = IF Len(w.out) = 1 THEN x ELSE y BY DEF E!WriterPublishes
<1>3. w.publish /\ w.out # <<>> /\ ~w.due /\ w.pending # <<>> BY <1>2 DEF EventsInv, WriterFacts
<1>4. Head(w.out) \in Lines /\ q \in Seq(Lines) /\ (Len(w.out) # 1 => q # <<>>)
  <2>1. Head(w.out) \in Lines /\ q \in Seq(Lines) BY <1>1, <1>3
  <2>2. Len(w.out) \in Nat /\ Len(w.out) # 0 /\ Len(q) = Len(w.out) - 1 BY <1>1, <1>3
  <2> HIDE DEF q
  <2>3. q = <<>> => Len(q) = 0 OBVIOUS
  <2> QED BY <2>1, <2>2, <2>3
<1>5. log' \in ELog /\ log'.ino # 0 BY <1>2, <1>4, AtomicWriteTyped
<1>6. <<>> \in Lines /\ <<>> \in Seq(Lines) BY DEF Lines
<1> HIDE DEF q
<1>7. x \in EWriter /\ ~x.publish /\ x.due = w.due /\ x.pending = <<>> /\ x.queue = w.queue
  BY <1>1, <1>6 DEF EWriter
<1>8. y \in EWriter /\ y.publish = w.publish /\ y.due = w.due /\ y.pending = w.pending /\ y.queue = w.queue /\ y.out = q
  BY <1>1, <1>4 DEF EWriter
<1> HIDE DEF x, y
<1>9. w' \in EWriter BY <1>2, <1>7, <1>8
<1>10. WriterFacts'
  <2>1. CASE Len(w.out) = 1 BY <1>2, <1>3, <1>7, <2>1 DEF EventsInv, WriterFacts
  <2>2. CASE Len(w.out) # 1 BY <1>2, <1>3, <1>4, <1>8, <2>2 DEF EventsInv, WriterFacts
  <2> QED BY <2>1, <2>2
<1>11. EventsTyped' /\ LogFacts' BY <1>2, <1>5, <1>9 DEF EventsInv, EventsTyped, LogFacts
<1>12. RowFacts' /\ ReadFacts' BY <1>2 DEF EventsInv, RowFacts, ReadFacts
<1>13. WaitFacts' BY <1>2, WaitFactsKept DEF EventsInv, WaitOver, WaitLost
<1> QED BY <1>10, <1>11, <1>12, <1>13 DEF EventsInv

LEMMA EmitUserEventKeeps == ASSUME EventsInv, E!EmitUserEvent PROVE EventsInv'
<1> DEFINE ls == E!AppendLine(log.lines, n.event + 1)
           n1 == [n EXCEPT !.event = @ + 1]
<1>1. log.lines \in Lines /\ n \in [event : Nat, hold : Nat] BY EventsTypes
<1>2. E!AtomicWrite(ls) /\ n' = n1 /\ UNCHANGED <<elock, dm, w, meta, f, v>> BY DEF E!EmitUserEvent
<1>3. ls \in Lines /\ n1 \in [event : Nat, hold : Nat]
  <2>1. log.lines \in Seq(Int) /\ n.event + 1 \in Int BY <1>1 DEF Lines
  <2>2. Append(log.lines, n.event + 1) \in Lines BY <2>1 DEF Lines
  <2>3. ls \in Lines BY <2>2, RetainedTyped DEF E!AppendLine
  <2> QED BY <1>1, <2>3
<1> HIDE DEF ls, n1
<1>4. log' \in ELog /\ log'.ino # 0 BY <1>2, <1>3, AtomicWriteTyped
<1>5. EventsTyped' /\ LogFacts' BY <1>2, <1>3, <1>4 DEF EventsInv, EventsTyped, LogFacts
<1>6. RowFacts' /\ ReadFacts' /\ WriterFacts' BY <1>2 DEF EventsInv, RowFacts, ReadFacts, WriterFacts
<1>7. WaitFacts' BY <1>2, WaitFactsKept DEF EventsInv, WaitOver, WaitLost
<1> QED BY <1>5, <1>6, <1>7 DEF EventsInv

LEMMA HoldLockKeeps == ASSUME EventsInv, E!HoldLock PROVE EventsInv'
<1>1. n \in [event : Nat, hold : Nat] BY EventsTypes
<1>2. UNCHANGED <<log, dm, w, meta, f, v>> /\ elock' # "writer" BY DEF E!HoldLock
<1>3. n' \in [event : Nat, hold : Nat]
  <2>1. n' = n \/ n' = [n EXCEPT !.hold = @ + 1] BY DEF E!HoldLock
  <2> QED BY <1>1, <2>1
<1>4. WriterFacts' BY <1>2 DEF EventsInv, WriterFacts
<1>5. meta.state = "exited" => dm.pc = "done" BY DEF EventsInv, RowFacts
<1>6. w \in EWriter /\ dm \in EDaemon BY EventsTypes
<1> QED BY <1>2, <1>3, <1>4, <1>5, <1>6, WriterStepKeeps

(* The record goes, with the log or before a respawn. *)
LEMMA RecordGoesKeeps ==
  ASSUME EventsInv, dm.pc \in EOver, meta' = [meta EXCEPT !.state = "none"],
         log' = log \/ log' = [ino |-> 0, lines |-> <<>>], UNCHANGED <<elock, dm, w, f, v, n>>
  PROVE  EventsInv'
<1>1. meta \in ERow /\ log \in ELog BY EventsTypes
<1>2. meta' \in ERow /\ meta'.gen = meta.gen /\ meta'.state = "none" BY <1>1 DEF ERow
<1>3. <<>> \in Lines BY DEF Lines
<1>4. log' \in ELog /\ LogFacts' BY <1>1, <1>3 DEF ELog, LogFacts, EventsInv
<1>5. EventsTyped' BY <1>2, <1>4 DEF EventsInv, EventsTyped
<1>6. RowFacts' /\ ReadFacts' /\ WriterFacts' BY <1>2 DEF EventsInv, RowFacts, ReadFacts, WriterFacts
<1>7. WaitFacts' BY <1>2, WaitFactsKept DEF EventsInv, WaitOver, WaitLost
<1> QED BY <1>4, <1>5, <1>6, <1>7 DEF EventsInv

LEMMA RespawnPublishesKeeps == ASSUME EventsInv, E!RespawnPublishes PROVE EventsInv'
<1>1. dm \in EDaemon /\ v \in EWaiter BY EventsTypes
<1>2. /\ elock = "none" /\ E!AtomicWrite(<<>>) /\ w' = E!NewWriter /\ UNCHANGED <<elock, f, v, n>>
      /\ dm' = [gen |-> dm.gen + 1, pc |-> "run"] /\ meta' = [state |-> "running", gen |-> dm.gen + 1]
  BY DEF E!RespawnPublishes
<1>3. <<>> \in Lines BY DEF Lines
<1>4. log' \in ELog /\ log'.ino # 0 BY <1>2, <1>3, AtomicWriteTyped
<1>5. dm.gen + 1 \in Nat /\ v.gen \in Nat /\ dm.gen \in Nat BY <1>1 DEF EDaemon, EWaiter
<1>6. dm' \in EDaemon /\ meta' \in ERow BY <1>2, <1>5 DEF EDaemon, ERow
<1>7. EventsTyped' /\ LogFacts' BY <1>2, <1>4, <1>6, NewWriterTyped DEF EventsInv, EventsTyped, LogFacts
<1>8. ReadFacts' /\ WriterFacts' BY <1>2, NewWriterTyped DEF EventsInv, ReadFacts, WriterFacts, EOver
<1>9. v'.gen < dm'.gen /\ v'.gen <= dm'.gen BY <1>2, <1>5 DEF EventsInv, RowFacts
<1>10. RowFacts' BY <1>2, <1>9 DEF RowFacts
<1>11. WaitFacts' BY <1>2, <1>9, WaitFactsKept DEF EventsInv, WaitOver, WaitLost
<1> QED BY <1>7, <1>8, <1>10, <1>11 DEF EventsInv

LEMMA WorldKeeps ==
  ASSUME EventsInv, E!RemoveSession \/ E!RespawnCleans \/ E!RespawnReleases PROVE EventsInv'
<1>1. CASE E!RemoveSession BY <1>1, RecordGoesKeeps DEF E!RemoveSession, EOver
<1>2. CASE E!RespawnCleans BY <1>2, RecordGoesKeeps DEF E!RespawnCleans, EOver
<1>3. CASE E!RespawnReleases
  <2>1. UNCHANGED <<log, elock, dm, w, meta, f, v, n>> BY <1>3 DEF E!RespawnReleases
  <2> QED BY <2>1, WaitFactsKept DEF EventsInv, EventsTyped, LogFacts, WriterFacts, RowFacts, ReadFacts, WaitOver, WaitLost
<1> QED BY <1>1, <1>2, <1>3

----------------------------------------------------------------------------
(* The follower. *)

Follows(t) ==
  /\ t \in EFollower /\ t.offset = Len(t.snap) /\ ToSet(t.snap) \subseteq t.got \cup t.hist
  /\ t.exited => SawExit(t.got)
  /\ t.pc \in {"removed", "unclaimed"} => WaitOver
  /\ t.pc = "ended" => WaitOver \/ SawExit(t.got)

LEMMA FollowKeeps == ASSUME EventsInv, NEW t, E!Follow(t), Follows(t) PROVE EventsInv'
<1>1. f' = t /\ UNCHANGED <<log, elock, dm, w, meta, v, n>> BY DEF E!Follow
<1>2. EventsTyped' /\ LogFacts' BY <1>1 DEF EventsInv, EventsTyped, LogFacts, Follows
<1>3. RowFacts' /\ WriterFacts' BY <1>1 DEF EventsInv, RowFacts, WriterFacts
<1>4. ReadFacts' BY <1>1 DEF ReadFacts, Follows
<1>5. (WaitOver' <=> WaitOver) /\ (WaitLost' <=> WaitLost) BY <1>1 DEF WaitOver, WaitLost
<1>6. WaitFacts' BY <1>1, <1>5 DEF EventsInv, WaitFacts, Follows
<1> QED BY <1>2, <1>3, <1>4, <1>6 DEF EventsInv

(* The follower goes on with what it has. *)
LEMMA GoKeeps ==
  ASSUME EventsInv,
         NEW pc \in {"off", "scan", "present", "claimed", "missing", "removed", "retained", "vanish",
                     "unclaimed", "wait"},
         E!Go(pc), pc \in {"removed", "unclaimed"} => WaitOver
  PROVE  EventsInv'
<1> DEFINE t == [f EXCEPT !.pc = pc]
<1>1. E!Follow(t) BY DEF E!Go, E!Follow
<1>2. f \in EFollower BY EventsTypes
<1>3. /\ t \in EFollower /\ t.pc = pc /\ t.offset = f.offset /\ t.snap = f.snap /\ t.got = f.got
      /\ t.hist = f.hist /\ t.exited = f.exited BY <1>2 DEF EFollower
<1> HIDE DEF t
<1>4. Follows(t) BY <1>3 DEF Follows, EventsInv, ReadFacts, WaitFacts
<1> QED BY <1>1, <1>4, FollowKeeps

LEMMA ScanKeeps == ASSUME EventsInv, E!Scan PROVE EventsInv'
<1> DEFINE r == E!ReadNewLines(f)
           pc == IF v.want = "all" THEN "wait" ELSE "present"
           ex == \E g \in 1..MaxGen : E!Exit(g) \in r.got \ f.got
           r1 == [r EXCEPT !.pc = pc]
           t == [r1 EXCEPT !.exited = ex]
<1>1. E!Follow([r EXCEPT !.pc = pc, !.exited = ex]) BY DEF E!Scan
<1>2. /\ r \in EFollower /\ r.offset = Len(r.snap) /\ ToSet(r.snap) \subseteq r.got \cup r.hist
  BY ReadDoes
<1>3. ex \in BOOLEAN BY Zenon
<1>4. ex => SawExit(r.got) BY DEF E!Exit, SawExit
<1> HIDE DEF r, ex
<1>5. [r EXCEPT !.pc = pc, !.exited = ex] = t BY <1>2 DEF EFollower
<1>6. pc \in {"wait", "present"} OBVIOUS
<1> HIDE DEF pc
<1>7. /\ r1 \in EFollower /\ r1.pc = pc /\ r1.offset = r.offset /\ r1.snap = r.snap /\ r1.got = r.got /\ r1.hist = r.hist
  BY <1>2, <1>6 DEF EFollower
<1> HIDE DEF r1
<1>8. /\ t \in EFollower /\ t.pc = pc /\ t.offset = r.offset /\ t.snap = r.snap /\ t.got = r.got /\ t.hist = r.hist
      /\ t.exited = ex BY <1>3, <1>7 DEF EFollower
<1> HIDE DEF t
<1>9. Follows(t) BY <1>2, <1>4, <1>6, <1>8 DEF Follows
<1> QED BY <1>1, <1>5, <1>9, FollowKeeps

LEMMA PresentKeeps == ASSUME EventsInv, E!Present PROVE EventsInv'
<1> DEFINE pc == IF meta.state = "none" /\ f.seen THEN "claimed" ELSE "retained"
           sn == f.seen \/ meta.state # "none"
           r1 == [f EXCEPT !.pc = pc]
           t == [r1 EXCEPT !.seen = sn]
<1>1. f \in EFollower BY EventsTypes
<1>2. E!Follow([f EXCEPT !.pc = pc, !.seen = sn]) BY DEF E!Present
<1>3. sn \in BOOLEAN BY Zenon
<1> HIDE DEF sn
<1>4. [f EXCEPT !.pc = pc, !.seen = sn] = t BY <1>1 DEF EFollower
<1>5. pc \in {"claimed", "retained"} OBVIOUS
<1> HIDE DEF pc
<1>6. /\ r1 \in EFollower /\ r1.pc = pc /\ r1.offset = f.offset /\ r1.snap = f.snap /\ r1.got = f.got
      /\ r1.hist = f.hist /\ r1.exited = f.exited BY <1>1, <1>5 DEF EFollower
<1> HIDE DEF r1
<1>7. /\ t \in EFollower /\ t.pc = pc /\ t.offset = f.offset /\ t.snap = f.snap /\ t.got = f.got
      /\ t.hist = f.hist /\ t.exited = f.exited BY <1>3, <1>6 DEF EFollower
<1> HIDE DEF t
<1>8. Follows(t) BY <1>5, <1>7 DEF Follows, EventsInv, ReadFacts, WaitFacts
<1> QED BY <1>2, <1>4, <1>8, FollowKeeps

(* The end of a follower on a recorded or an observed exit, or on an entry *)
(* that is gone. *)
LEMMA EndsTyped ==
  ASSUME NEW r \in EFollower, NEW why \in {"exit", "removed", "vanished"}
  PROVE  LET t == E!Ends(r, why) IN
         /\ t \in EFollower /\ t.pc = "ended" /\ t.why = why /\ t.offset = r.offset /\ t.snap = r.snap
         /\ t.got = r.got /\ t.hist = r.hist /\ t.exited = r.exited
BY DEF E!Ends, EFollower

LEMMA RetainedExitKeeps == ASSUME EventsInv, E!RetainedExit PROVE EventsInv'
<1> DEFINE ret == meta.state = "exited"
           rd == E!ReadNewLines(f)
           r == IF ret THEN rd ELSE f
           why == IF f.exited \/ ret THEN "exit" ELSE "removed"
           x == E!Ends(r, why)
           y == [r EXCEPT !.pc = "vanish"]
<1>1. /\ f.pc \in {"removed", "retained"}
      /\ E!Follow(IF f.exited \/ ret \/ f.pc = "removed" THEN x ELSE y) BY DEF E!RetainedExit
<1>2. /\ rd \in EFollower /\ rd.offset = Len(rd.snap) /\ ToSet(rd.snap) \subseteq rd.got \cup rd.hist
      /\ f.got \subseteq rd.got /\ rd.exited = f.exited BY ReadDoes
<1> HIDE DEF rd
<1>3. /\ f \in EFollower /\ f.offset = Len(f.snap) /\ ToSet(f.snap) \subseteq f.got \cup f.hist
  BY EventsTypes DEF EventsInv, ReadFacts
<1>4. /\ r \in EFollower /\ r.offset = Len(r.snap) /\ ToSet(r.snap) \subseteq r.got \cup r.hist
      /\ f.got \subseteq r.got /\ r.exited = f.exited BY <1>2, <1>3
<1>5. f.exited => SawExit(r.got) BY <1>4 DEF EventsInv, WaitFacts, SawExit
<1>6. ret => WaitOver BY DEF EventsInv, RowFacts, WaitOver, EOver
<1>7. f.pc = "removed" => WaitOver BY DEF EventsInv, WaitFacts
<1>8. why \in {"exit", "removed", "vanished"} OBVIOUS
<1> HIDE DEF r, why, ret
<1>9. /\ x \in EFollower /\ x.pc = "ended" /\ x.offset = r.offset /\ x.snap = r.snap
      /\ x.got = r.got /\ x.hist = r.hist /\ x.exited = r.exited BY <1>4, <1>8, EndsTyped
<1>10. /\ y \in EFollower /\ y.pc = "vanish" /\ y.offset = r.offset /\ y.snap = r.snap
       /\ y.got = r.got /\ y.hist = r.hist /\ y.exited = r.exited BY <1>4 DEF EFollower
<1> HIDE DEF x, y
<1>11. CASE f.exited \/ ret \/ f.pc = "removed"
  <2>1. Follows(x) BY <1>4, <1>5, <1>6, <1>7, <1>9, <1>11 DEF Follows
  <2> QED BY <1>1, <1>11, <2>1, FollowKeeps
<1>12. CASE ~(f.exited \/ ret \/ f.pc = "removed")
  <2>1. Follows(y) BY <1>4, <1>5, <1>10 DEF Follows
  <2> QED BY <1>1, <1>12, <2>1, FollowKeeps
<1> QED BY <1>11, <1>12

LEMMA UnclaimedKeeps == ASSUME EventsInv, E!Unclaimed PROVE EventsInv'
<1> DEFINE r == E!ReadNewLines(f)
           x == E!Ends(r, "vanished")
           y == [f EXCEPT !.pc = "wait"]
<1>1. f.pc = "unclaimed" /\ E!Follow(IF claim THEN y ELSE x) BY DEF E!Unclaimed
<1>2. WaitOver BY <1>1 DEF EventsInv, WaitFacts
<1>3. /\ r \in EFollower /\ r.offset = Len(r.snap) /\ ToSet(r.snap) \subseteq r.got \cup r.hist
      /\ f.got \subseteq r.got /\ r.exited = f.exited BY ReadDoes
<1> HIDE DEF r
<1>4. f \in EFollower BY EventsTypes
<1>5. /\ x \in EFollower /\ x.pc = "ended" /\ x.offset = r.offset /\ x.snap = r.snap
      /\ x.got = r.got /\ x.hist = r.hist /\ x.exited = r.exited BY <1>3, EndsTyped
<1>6. /\ y \in EFollower /\ y.pc = "wait" /\ y.offset = f.offset /\ y.snap = f.snap
      /\ y.got = f.got /\ y.hist = f.hist /\ y.exited = f.exited BY <1>4 DEF EFollower
<1> HIDE DEF x, y
<1>7. f.exited => SawExit(f.got) /\ SawExit(r.got) BY <1>3 DEF EventsInv, WaitFacts, SawExit
<1>8. Follows(x) BY <1>2, <1>3, <1>5, <1>7 DEF Follows
<1>9. Follows(y) BY <1>6, <1>7 DEF Follows, EventsInv, ReadFacts
<1> QED BY <1>1, <1>8, <1>9, FollowKeeps

LEMMA LooksKeep ==
  ASSUME EventsInv, E!Claimed \/ E!Missing \/ E!Vanish \/ E!WaitForChange PROVE EventsInv'
<1>1. CASE E!Claimed
  <2>1. PICK pc \in {"retained", "missing"} : E!Go(pc) BY <1>1 DEF E!Claimed
  <2> QED BY <2>1, GoKeeps
<1>2. CASE E!Missing
  <2>1. CASE meta.state = "none"
    <3>1. E!Go("removed") BY <1>2, <2>1 DEF E!Missing
    <3>2. WaitOver BY <2>1 DEF EventsInv, RowFacts, WaitOver
    <3> QED BY <3>1, <3>2, GoKeeps
  <2>2. CASE meta.state # "none"
    <3>1. E!Go("retained") BY <1>2, <2>2 DEF E!Missing
    <3> QED BY <3>1, GoKeeps
  <2> QED BY <2>1, <2>2
<1>3. CASE E!Vanish
  <2>1. CASE meta.state = "running" /\ dm.pc \in {"done", "killed"}
    <3>1. E!Go("unclaimed") BY <1>3, <2>1 DEF E!Vanish
    <3>2. WaitOver BY <2>1 DEF WaitOver, EOver
    <3> QED BY <3>1, <3>2, GoKeeps
  <2>2. CASE ~(meta.state = "running" /\ dm.pc \in {"done", "killed"})
    <3>1. E!Go("wait") BY <1>3, <2>2 DEF E!Vanish
    <3> QED BY <3>1, GoKeeps
  <2> QED BY <2>1, <2>2
<1>4. CASE E!WaitForChange
  <2>1. E!Go("scan") BY <1>4 DEF E!WaitForChange
  <2> QED BY <2>1, GoKeeps
<1> QED BY <1>1, <1>2, <1>3, <1>4

----------------------------------------------------------------------------
(* The waiting command. *)

LEMMA WaiterKeeps ==
  ASSUME EventsInv, v' \in EWaiter, v'.gen = v.gen, v'.want = v.want,
         UNCHANGED <<log, elock, dm, w, meta, f, n>>,
         v.want = "exit" => /\ v'.pc = "over" => WaitOver
                            /\ v'.pc = "none" => WaitLost
                            /\ v'.result = "unseen" => ~v'.recorded
  PROVE  EventsInv'
<1>1. EventsTyped' /\ LogFacts' BY DEF EventsInv, EventsTyped, LogFacts
<1>2. RowFacts' /\ WriterFacts' /\ ReadFacts' BY DEF EventsInv, RowFacts, WriterFacts, ReadFacts
<1>3. (WaitOver' <=> WaitOver) /\ (WaitLost' <=> WaitLost) BY DEF WaitOver, WaitLost
<1>4. WaitFacts' BY <1>3 DEF EventsInv, WaitFacts
<1> QED BY <1>1, <1>2, <1>4 DEF EventsInv

LEMMA AnswerDoes ==
  ASSUME v \in EWaiter, NEW res \in {"seen", "refused", "timeout", "unseen"}, E!Answer(res)
  PROVE  /\ v' \in EWaiter /\ v'.gen = v.gen /\ v'.want = v.want /\ v'.pc = "done" /\ v'.result = res
         /\ v'.recorded <=> meta = [state |-> "exited", gen |-> v.gen]
<1> DEFINE rec0 == meta = [state |-> "exited", gen |-> v.gen]
           x == [v EXCEPT !.pc = "done", !.result = res]
           y == [x EXCEPT !.recorded = rec0]
<1>1. v' = [v EXCEPT !.pc = "done", !.result = res, !.recorded = rec0] BY DEF E!Answer
<1>2. rec0 \in BOOLEAN BY Zenon
<1>3. rec0 <=> meta = [state |-> "exited", gen |-> v.gen] OBVIOUS
<1> HIDE DEF rec0
<1>4. v' = y BY <1>1 DEF EWaiter
<1>5. x \in EWaiter /\ x.gen = v.gen /\ x.want = v.want /\ x.pc = "done" /\ x.result = res BY DEF EWaiter
<1> HIDE DEF x
<1>6. y \in EWaiter /\ y.gen = x.gen /\ y.want = x.want /\ y.pc = x.pc /\ y.result = x.result /\ y.recorded = rec0
  BY <1>2, <1>5 DEF EWaiter
<1> QED BY <1>3, <1>4, <1>5, <1>6

LEMMA WaitsDoes ==
  ASSUME v \in EWaiter, NEW pc \in {"target", "checked", "subscribe", "recv", "over", "none"}, E!Waits(pc)
  PROVE  /\ v' \in EWaiter /\ v'.gen = v.gen /\ v'.want = v.want /\ v'.pc = pc /\ v'.result = v.result
         /\ v'.recorded = v.recorded
BY DEF E!Waits, EWaiter

LEMMA Answered ==
  ASSUME EventsInv, NEW res \in {"seen", "refused", "timeout"}, E!Answer(res),
         UNCHANGED <<log, elock, dm, w, meta, f, n>>
  PROVE  EventsInv'
<1>1. v \in EWaiter BY EventsTypes
<1>2. v' \in EWaiter /\ v'.gen = v.gen /\ v'.want = v.want /\ v'.pc = "done" /\ v'.result = res BY <1>1, AnswerDoes
<1> QED BY <1>2, WaiterKeeps

LEMMA Waited ==
  ASSUME EventsInv, NEW pc \in {"target", "checked", "subscribe", "recv", "over", "none"}, E!Waits(pc),
         UNCHANGED <<log, elock, dm, w, meta, f, n>>,
         v.want = "exit" => (pc = "over" => WaitOver) /\ (pc = "none" => WaitLost)
  PROVE  EventsInv'
<1>1. v \in EWaiter BY EventsTypes
<1>2. /\ v' \in EWaiter /\ v'.gen = v.gen /\ v'.want = v.want /\ v'.pc = pc /\ v'.result = v.result
      /\ v'.recorded = v.recorded BY <1>1, WaitsDoes
<1>3. v.want = "exit" => (v.result = "unseen" => ~v.recorded) BY DEF EventsInv, WaitFacts
<1> QED BY <1>2, <1>3, WaiterKeeps

LEMMA PrintRecordedExitKeeps == ASSUME EventsInv, E!PrintRecordedExit PROVE EventsInv'
<1>1. v.pc \in {"recorded", "again", "over"} /\ UNCHANGED <<log, elock, dm, w, meta, f, n>> BY DEF E!PrintRecordedExit
<1>2. CASE v.want = "exit" /\ meta.state = "exited"
  <2>1. E!Answer("seen") BY <1>2 DEF E!PrintRecordedExit
  <2> QED BY <1>1, <2>1, Answered
<1>3. CASE ~(v.want = "exit" /\ meta.state = "exited")
  <2> DEFINE pc == CASE v.pc = "recorded" -> "target" [] v.pc = "again" -> "checked" [] OTHER -> "none"
  <2>1. E!Waits(pc) BY <1>3 DEF E!PrintRecordedExit
  <2>2. pc \in {"target", "checked", "none"} /\ (pc = "none" => v.pc = "over") BY <1>1
  <2>3. v.want = "exit" /\ v.pc = "over" => WaitLost BY <1>3 DEF EventsInv, WaitFacts, WaitOver, WaitLost
  <2> HIDE DEF pc
  <2> QED BY <1>1, <2>1, <2>2, <2>3, Waited
<1> QED BY <1>2, <1>3

LEMMA CheckWaitTargetKeeps == ASSUME EventsInv, E!CheckWaitTarget PROVE EventsInv'
<1>1. UNCHANGED <<log, elock, dm, w, meta, f, n>> BY DEF E!CheckWaitTarget
<1>2. E!Answer("refused") \/ E!Waits("subscribe") \/ E!Waits("recv") BY DEF E!CheckWaitTarget
<1> QED BY <1>1, <1>2, Answered, Waited

LEMMA RecvKeeps == ASSUME EventsInv, E!Recv PROVE EventsInv'
<1>1. UNCHANGED <<log, elock, dm, w, meta, f, n>> BY DEF E!Recv
<1>2. CASE E!Answer("seen") BY <1>1, <1>2, Answered
<1>3. CASE (\A e \in f.got : ~E!Wants(e)) /\ f.pc = "ended" /\ E!Waits("over")
  <2>1. v.want = "exit" => ~SawExit(f.got) BY <1>3 DEF E!Wants, SawExit
  <2>2. v.want = "exit" => WaitOver BY <1>3, <2>1 DEF EventsInv, WaitFacts
  <2> QED BY <1>1, <1>3, <2>2, Waited
<1> QED BY <1>2, <1>3 DEF E!Recv

LEMMA ReportNoneKeeps == ASSUME EventsInv, E!ReportNone PROVE EventsInv'
<1>1. v.pc = "none" /\ E!Answer("unseen") /\ UNCHANGED <<log, elock, dm, w, meta, f, n>> BY DEF E!ReportNone
<1>2. v \in EWaiter /\ dm \in EDaemon BY EventsTypes
<1>3. /\ v' \in EWaiter /\ v'.gen = v.gen /\ v'.want = v.want /\ v'.pc = "done"
      /\ v'.recorded <=> meta = [state |-> "exited", gen |-> v.gen] BY <1>1, <1>2, AnswerDoes
<1>4. v.want = "exit" => ~(meta = [state |-> "exited", gen |-> v.gen])
  <2>1. v.want = "exit" => WaitLost BY <1>1 DEF EventsInv, WaitFacts
  <2>2. meta.gen = dm.gen BY DEF EventsInv, RowFacts
  <2>3. v.gen \in Nat /\ dm.gen \in Nat BY <1>2 DEF EWaiter, EDaemon
  <2>4. meta = [state |-> "exited", gen |-> v.gen] => meta.state = "exited" /\ meta.gen = v.gen OBVIOUS
  <2> QED BY <2>1, <2>2, <2>3, <2>4 DEF WaitLost
<1> QED BY <1>1, <1>3, <1>4, WaiterKeeps

LEMMA SubscribeKeeps == ASSUME EventsInv, E!Subscribe PROVE EventsInv'
<1> DEFINE sn == meta.state # "none"
           h == ToSet(log.lines)
           t0 == [f EXCEPT !.pc = "scan", !.snap = log.lines, !.offset = Len(log.lines), !.hist = h]
           t == [t0 EXCEPT !.seen = sn]
           x == [v EXCEPT !.pc = "again", !.gen = meta.gen]
<1>1. /\ f \in EFollower /\ v \in EWaiter /\ meta \in ERow /\ log.lines \in Lines /\ Len(log.lines) \in Nat
      /\ dm \in EDaemon BY EventsTypes
<1>2. UNCHANGED <<log, elock, dm, w, meta, n>> /\ v' = x
      /\ f' = [f EXCEPT !.pc = "scan", !.snap = log.lines, !.offset = Len(log.lines), !.hist = h, !.seen = sn]
  BY SetsAgree DEF E!Subscribe, E!Lines
<1>3. sn \in BOOLEAN BY Zenon
<1>4. h \in SUBSET Int BY <1>1 DEF ToSet, Lines
<1> HIDE DEF sn, h
<1>5. f' = t BY <1>1, <1>2 DEF EFollower
<1>6. /\ t0 \in EFollower /\ t0.pc = "scan" /\ t0.snap = log.lines /\ t0.offset = Len(log.lines) /\ t0.hist = h
      /\ t0.got = f.got /\ t0.exited = f.exited BY <1>1, <1>4 DEF EFollower
<1> HIDE DEF t0
<1>7. /\ t \in EFollower /\ t.pc = t0.pc /\ t.snap = t0.snap /\ t.offset = t0.offset /\ t.hist = t0.hist
      /\ t.got = t0.got /\ t.exited = t0.exited BY <1>3, <1>6 DEF EFollower
<1>8. meta.gen \in Nat /\ meta.gen = dm.gen BY <1>1 DEF ERow, EventsInv, RowFacts
<1>9. x \in EWaiter /\ x.pc = "again" /\ x.gen = dm.gen /\ x.result = v.result /\ x.recorded = v.recorded /\ x.want = v.want
  BY <1>1, <1>8 DEF EWaiter
<1> HIDE DEF t, x
<1>10. EventsTyped' /\ LogFacts' BY <1>2, <1>5, <1>7, <1>9 DEF EventsInv, EventsTyped, LogFacts
<1>11. RowFacts'
  <2>1. dm.gen \in Nat BY <1>1 DEF EDaemon
  <2> QED BY <1>2, <1>8, <1>9, <2>1 DEF EventsInv, RowFacts
<1>12. WriterFacts' BY <1>2 DEF EventsInv, WriterFacts
<1>13. ReadFacts' BY <1>5, <1>6, <1>7 DEF ReadFacts, h
<1>14. WaitFacts' BY <1>2, <1>5, <1>6, <1>7, <1>9 DEF EventsInv, WaitFacts
<1> QED BY <1>10, <1>11, <1>12, <1>13, <1>14 DEF EventsInv

LEMMA EventsSteps == ASSUME EventsInv, E!EventsNext PROVE EventsInv'
<1>1. CASE E!TimesOut BY <1>1, Answered DEF E!TimesOut
<1> QED BY <1>1, QueueEventKeeps, FinalizeExitKeeps, SaveExitKeeps, CrashKeeps, WriterRunKeeps, WriterLocksKeeps,
     WriterGivesUpKeeps, WriterPublishesKeeps, EmitUserEventKeeps, HoldLockKeeps, WorldKeeps,
     RespawnPublishesKeeps, ScanKeeps, PresentKeeps, RetainedExitKeeps, UnclaimedKeeps, LooksKeep,
     PrintRecordedExitKeeps, CheckWaitTargetKeeps, SubscribeKeeps, RecvKeeps, ReportNoneKeeps
     DEF E!EventsNext

LEMMA EventsSay == ASSUME EventsInv PROVE E!ReadIsDelivered /\ E!UnseenIsRight
<1>1. E!ReadIsDelivered
  <2>1. f.snap \in Lines BY EventsTypes
  <2>2. SubSeq(f.snap, 1, Len(f.snap)) = f.snap BY <2>1 DEF Lines
  <2>3. f.offset = Len(f.snap) /\ ToSet(f.snap) \subseteq f.got \cup f.hist BY DEF EventsInv, ReadFacts
  <2> QED BY <2>2, <2>3, SetsAgree DEF E!ReadIsDelivered
<1>2. E!UnseenIsRight BY DEF EventsInv, WaitFacts, E!UnseenIsRight
<1> QED BY <1>1, <1>2

(* The step that ends a follower on a recorded exit. *)
LEMMA ExitSteps == ASSUME EventsInv, E!EventsNext PROVE E!ExitIsDelivered
<1> SUFFICES ASSUME f.pc # "ended", f'.pc = "ended", f'.why = "exit", meta.state = "exited"
             PROVE  E!ExitIsDelivered BY DEF E!ExitIsDelivered
<1>1. f \in EFollower /\ w \in EWriter BY EventsTypes
<1>2. f' # f OBVIOUS
<1>3. ASSUME NEW pc, E!Go(pc), pc # "ended" PROVE FALSE
  <2>1. f' = [f EXCEPT !.pc = pc] BY <1>3 DEF E!Go
  <2> QED BY <1>1, <1>3, <2>1 DEF EFollower
<1> DEFINE r == E!ReadNewLines(f)
<1>4. /\ r \in EFollower /\ r.hist = f.hist
      /\ ToSet(log.lines) \subseteq r.got \cup r.hist \/ E!LooksUnchanged BY ReadDoes
<1> HIDE DEF r
<1>5. ~E!Scan
  <2> SUFFICES ASSUME E!Scan PROVE FALSE OBVIOUS
  <2> DEFINE pc == IF v.want = "all" THEN "wait" ELSE "present"
             ex == \E g \in 1..MaxGen : E!Exit(g) \in r.got \ f.got
  <2>1. f' = [r EXCEPT !.pc = pc, !.exited = ex] BY DEF E!Scan, E!Follow, r
  <2>2. pc # "ended" OBVIOUS
  <2> HIDE DEF pc, ex
  <2>3. f'.pc = pc BY <1>4, <2>1 DEF EFollower
  <2> QED BY <2>2, <2>3
<1>6. ~E!Present
  <2> SUFFICES ASSUME E!Present PROVE FALSE OBVIOUS
  <2> DEFINE pc == IF meta.state = "none" /\ f.seen THEN "claimed" ELSE "retained"
             sn == f.seen \/ meta.state # "none"
  <2>1. f' = [f EXCEPT !.pc = pc, !.seen = sn] BY DEF E!Present, E!Follow
  <2>2. pc # "ended" OBVIOUS
  <2> HIDE DEF pc, sn
  <2>3. f'.pc = pc BY <1>1, <2>1 DEF EFollower
  <2> QED BY <2>2, <2>3
<1>7. ~(E!Claimed \/ E!Missing \/ E!Vanish \/ E!WaitForChange)
  <2> SUFFICES ASSUME E!Claimed \/ E!Missing \/ E!Vanish \/ E!WaitForChange PROVE FALSE OBVIOUS
  <2>1. \E pc : E!Go(pc) /\ pc # "ended" BY DEF E!Claimed, E!Missing, E!Vanish, E!WaitForChange
  <2> QED BY <1>3, <2>1
<1>8. ~E!Unclaimed
  <2> SUFFICES ASSUME E!Unclaimed PROVE FALSE OBVIOUS
  <2>1. f' = (IF claim THEN [f EXCEPT !.pc = "wait"] ELSE E!Ends(r, "vanished")) BY DEF E!Unclaimed, E!Follow, r
  <2>2. [f EXCEPT !.pc = "wait"].pc = "wait" BY <1>1 DEF EFollower
  <2>3. E!Ends(r, "vanished").why = "vanished" BY <1>4 DEF E!Ends, EFollower
  <2> QED BY <2>1, <2>2, <2>3
<1>9. ~E!Subscribe
  <2> SUFFICES ASSUME E!Subscribe PROVE FALSE OBVIOUS
  <2>1. f'.pc = "scan" BY SMTT(60), <1>1 DEF E!Subscribe, EFollower
  <2> QED BY <2>1
<1>10. E!RetainedExit
  <2>1. E!EventsNext /\ ~UNCHANGED f BY <1>2
  <2> QED BY <1>5, <1>6, <1>7, <1>8, <1>9, <2>1
    DEF E!EventsNext, E!QueueEvent, E!FinalizeExit, E!SaveExit, E!Crash, E!WriterRun, E!WriterLocks,
        E!WriterGivesUp, E!WriterPublishes, E!EmitUserEvent, E!HoldLock, E!RemoveSession, E!RespawnCleans,
        E!RespawnPublishes, E!RespawnReleases, E!PrintRecordedExit, E!CheckWaitTarget, E!Recv, E!TimesOut,
        E!ReportNone
<1>11. PICK why \in {"exit", "removed"} : f' = E!Ends(r, why)
  <2>1. f' = E!Ends(r, IF f.exited \/ meta.state = "exited" THEN "exit" ELSE "removed")
    BY <1>10 DEF E!RetainedExit, E!Follow, r
  <2> QED BY <2>1
<1>12. f'.got = r.got BY <1>4, <1>11 DEF E!Ends, EFollower
<1>13. w.queue \o w.pending = <<>>
  <2>1. dm.pc \in EOver BY DEF EventsInv, RowFacts, EOver
  <2>2. w.queue = <<>> /\ w.pending = <<>> BY <2>1 DEF EventsInv, WriterFacts
  <2> QED BY <2>2
<1>14. E!ToSet(w.queue \o w.pending) = {} BY <1>13 DEF E!ToSet
<1>15. E!Lines = ToSet(log.lines) BY SetsAgree DEF E!Lines
<1> QED BY <1>4, <1>12, <1>14, <1>15 DEF E!ExitIsDelivered

----------------------------------------------------------------------------
(* The bytes of a set of packets.  FoldSet is a function of the subsets; *)
(* that it exists, and does not depend on the order it takes the packets in, *)
(* is shown by induction on how many there are. *)

HeldBytes(S) == FoldSet(LAMBDA p, sum : sum + p.size, 0, S)
Some(s) == CHOOSE x \in s : TRUE
BytesOf(g, s) == IF s = {} THEN 0 ELSE g[s \ {Some(s)}] + Some(s).size
BytesBody(S, g) == [s \in SUBSET S |-> BytesOf(g, s)]

LEMMA BytesAreFold ==
  ASSUME NEW S, \E g : g = BytesBody(S, g)
  PROVE  \E g : g = BytesBody(S, g) /\ HeldBytes(S) = g[S]
BY DEF HeldBytes, FoldSet, MapThenFoldSet, BytesBody, BytesOf, Some

LEMMA SomeLess ==
  ASSUME NEW s, IsFiniteSet(s), NEW j \in Nat, Cardinality(s) <= j + 1, NEW y \in s
  PROVE  IsFiniteSet(s \ {y}) /\ Cardinality(s \ {y}) <= j
<1>1. IsFiniteSet(s \ {y}) /\ Cardinality(s \ {y}) = Cardinality(s) - 1 BY FS_RemoveElement
<1>2. Cardinality(s) \in Nat BY FS_CardinalityType
<1> QED BY <1>1, <1>2

LEMMA BytesExist ==
  ASSUME NEW S, IsFiniteSet(S)
  PROVE  \E g : g = BytesBody(S, g)
<1> DEFINE Upto(j, g) == \A s \in SUBSET S : Cardinality(s) <= j => g[s] = BytesOf(g, s)
           K == {j \in Nat : \E g : Upto(j, g)}
<1>0. \A s \in SUBSET S : IsFiniteSet(s) /\ Cardinality(s) \in Nat BY FS_Subset, FS_CardinalityType
<1>1. 0 \in K
  <2> DEFINE h == [s \in SUBSET S |-> 0]
  <2>1. \A s \in SUBSET S : Cardinality(s) <= 0 => s = {} BY <1>0, FS_EmptySet
  <2>2. Upto(0, h) BY <2>1 DEF BytesOf
  <2> QED BY <2>2
<1>2. ASSUME NEW j \in K PROVE j + 1 \in K
  <2>1. PICK g : Upto(j, g) OBVIOUS
  <2> DEFINE h == [s \in SUBSET S |-> BytesOf(g, s)]
  <2>2. ASSUME NEW s \in SUBSET S, Cardinality(s) <= j + 1 PROVE h[s] = BytesOf(h, s)
    <3>1. CASE s = {} BY <3>1 DEF BytesOf
    <3>2. CASE s # {}
      <4> DEFINE t == s \ {Some(s)}
      <4>1. Some(s) \in s BY <3>2 DEF Some
      <4>2. t \in SUBSET S /\ Cardinality(t) <= j BY <1>0, <2>2, <4>1, SomeLess
      <4>3. g[t] = BytesOf(g, t) /\ h[t] = BytesOf(g, t) BY <2>1, <4>2
      <4> HIDE DEF h
      <4>4. h[s] = BytesOf(g, s) BY DEF h
      <4> QED BY <3>2, <4>3, <4>4 DEF BytesOf
    <3> QED BY <3>1, <3>2
  <2> HIDE DEF h
  <2>3. Upto(j + 1, h) BY <2>2
  <2> QED BY <2>3
<1> HIDE DEF K
<1>3. Cardinality(S) \in K
  <2>1. K \subseteq Nat BY DEF K
  <2>2. \A k \in Nat : k \in K BY <1>1, <1>2, <2>1, InductNat
  <2> QED BY <1>0, <2>2
<1>4. PICK g : Upto(Cardinality(S), g) BY <1>3 DEF K
<1>5. \A s \in SUBSET S : g[s] = BytesOf(g, s) BY <1>4, FS_Subset
<1> DEFINE h == [s \in SUBSET S |-> g[s]]
<1>6. \A s \in SUBSET S : h[s] = BytesOf(h, s)
  <2> SUFFICES ASSUME NEW s \in SUBSET S PROVE h[s] = BytesOf(h, s) OBVIOUS
  <2>1. h[s] = g[s] /\ h[s \ {Some(s)}] = g[s \ {Some(s)}] OBVIOUS
  <2> QED BY <1>5, <2>1 DEF BytesOf
<1>7. h = BytesBody(S, h)
  <2>1. \A s \in SUBSET S : BytesBody(S, h)[s] = h[s] BY <1>6 DEF BytesBody
  <2> QED BY <2>1 DEF BytesBody
<1> QED BY <1>7

LEMMA BytesAgree ==
  ASSUME NEW S, IsFiniteSet(S), NEW T \in SUBSET S, NEW g, NEW h, g = BytesBody(S, g), h = BytesBody(T, h)
  PROVE  \A s \in SUBSET T : g[s] = h[s]
<1> DEFINE K == {j \in Nat : \A s \in SUBSET T : Cardinality(s) <= j => g[s] = h[s]}
<1>0. \A s \in SUBSET T : IsFiniteSet(s) /\ Cardinality(s) \in Nat BY FS_Subset, FS_CardinalityType
<1>1. \A s \in SUBSET T : g[s] = BytesOf(g, s) /\ h[s] = BytesOf(h, s) BY DEF BytesBody
<1>2. 0 \in K
  <2>1. \A s \in SUBSET T : Cardinality(s) <= 0 => s = {} BY <1>0, FS_EmptySet
  <2> QED BY <1>1, <2>1 DEF BytesOf
<1>3. ASSUME NEW j \in K PROVE j + 1 \in K
  <2> SUFFICES ASSUME NEW s \in SUBSET T, Cardinality(s) <= j + 1 PROVE g[s] = h[s] OBVIOUS
  <2>1. CASE s = {} BY <1>1, <2>1 DEF BytesOf
  <2>2. CASE s # {}
    <3>1. Some(s) \in s BY <2>2 DEF Some
    <3>2. s \ {Some(s)} \in SUBSET T /\ Cardinality(s \ {Some(s)}) <= j BY <1>0, <3>1, SomeLess
    <3>3. g[s \ {Some(s)}] = h[s \ {Some(s)}] BY <3>2
    <3> QED BY <1>1, <2>2, <3>3 DEF BytesOf
  <2> QED BY <2>1, <2>2
<1> HIDE DEF K
<1>4. Cardinality(T) \in K
  <2>1. K \subseteq Nat BY DEF K
  <2>2. \A k \in Nat : k \in K BY <1>2, <1>3, <2>1, InductNat
  <2> QED BY <1>0, <2>2
<1>5. IsFiniteSet(T) BY <1>0
<1> QED BY <1>4, <1>5, FS_Subset DEF K

LEMMA BytesAnyOrder ==
  ASSUME NEW S, IsFiniteSet(S), \A x \in S : x.size \in Nat, NEW g, g = BytesBody(S, g)
  PROVE  \A s \in SUBSET S : g[s] \in Nat /\ \A y \in s : g[s] = g[s \ {y}] + y.size
<1> DEFINE Right(s) == g[s] \in Nat /\ \A y \in s : g[s] = g[s \ {y}] + y.size
           K == {j \in Nat : \A s \in SUBSET S : Cardinality(s) <= j => Right(s)}
<1>0. \A s \in SUBSET S : IsFiniteSet(s) /\ Cardinality(s) \in Nat BY FS_Subset, FS_CardinalityType
<1>1. \A s \in SUBSET S : g[s] = BytesOf(g, s) BY DEF BytesBody
<1>2. 0 \in K
  <2>1. \A s \in SUBSET S : Cardinality(s) <= 0 => s = {} BY <1>0, FS_EmptySet
  <2>2. g[{}] = 0 BY <1>1 DEF BytesOf
  <2>3. Right({}) BY <2>2
  <2> HIDE DEF Right
  <2> QED BY <2>1, <2>3
<1>3. ASSUME NEW j \in K PROVE j + 1 \in K
  <2> SUFFICES ASSUME NEW s \in SUBSET S, Cardinality(s) <= j + 1 PROVE Right(s) OBVIOUS
  <2>1. CASE s = {} BY <1>1, <2>1 DEF BytesOf
  <2>2. CASE s # {}
    <3> DEFINE x == Some(s)
    <3>1. x \in s BY <2>2 DEF Some
    <3>2. g[s] = g[s \ {x}] + x.size BY <1>1, <2>2 DEF BytesOf
    <3> HIDE DEF x
    <3>3. \A y \in s : Cardinality(s \ {y}) <= j /\ s \ {y} \in SUBSET S BY <1>0, SomeLess
    <3>4. \A y \in s : Right(s \ {y}) BY <3>3
    <3>5. g[s] \in Nat
      <4>1. x.size \in Nat /\ g[s \ {x}] \in Nat BY <3>1, <3>4
      <4> QED BY <3>2, <4>1
    <3>6. ASSUME NEW y \in s, y # x PROVE g[s] = g[s \ {y}] + y.size
      <4>1. g[s \ {x}] = g[(s \ {x}) \ {y}] + y.size BY <3>1, <3>4, <3>6
      <4>2. g[s \ {y}] = g[(s \ {y}) \ {x}] + x.size BY <3>1, <3>4, <3>6
      <4>3. (s \ {x}) \ {y} = (s \ {y}) \ {x} OBVIOUS
      <4>4. g[(s \ {x}) \ {y}] \in Nat
        <5>1. s \ {x} \in SUBSET S /\ Cardinality(s \ {x}) <= j + 1 /\ y \in s \ {x}
          BY <1>0, <3>1, <3>3, <3>6
        <5>2. Cardinality((s \ {x}) \ {y}) <= j /\ (s \ {x}) \ {y} \in SUBSET S BY <1>0, <5>1, SomeLess
        <5> QED BY <5>2
      <4>5. x.size \in Nat /\ y.size \in Nat BY <3>1
      <4> DEFINE z == g[(s \ {x}) \ {y}]
      <4>6. g[s \ {x}] = z + y.size /\ g[s \ {y}] = z + x.size BY <4>1, <4>2, <4>3
      <4>7. z \in Nat BY <4>4
      <4> HIDE DEF z
      <4> QED BY <3>2, <4>5, <4>6, <4>7
    <3> QED BY <3>2, <3>5, <3>6
  <2> QED BY <2>1, <2>2
<1> HIDE DEF K
<1>4. Cardinality(S) \in K
  <2>1. K \subseteq Nat BY DEF K
  <2>2. \A k \in Nat : k \in K BY <1>2, <1>3, <2>1, InductNat
  <2> QED BY <1>0, <2>2
<1> QED BY <1>4, FS_Subset DEF K

(* Taking a packet out takes its bytes out. *)
LEMMA BytesTake ==
  ASSUME NEW S, IsFiniteSet(S), \A x \in S : x.size \in Nat, NEW y \in S
  PROVE  /\ HeldBytes(S) \in Nat /\ HeldBytes(S \ {y}) \in Nat
         /\ HeldBytes(S) = HeldBytes(S \ {y}) + y.size
<1> DEFINE T == S \ {y}
<1>1. IsFiniteSet(T) /\ T \in SUBSET S BY FS_RemoveElement
<1>2. PICK g : g = BytesBody(S, g) /\ HeldBytes(S) = g[S] BY BytesExist, BytesAreFold
<1>3. PICK h : h = BytesBody(T, h) /\ HeldBytes(T) = h[T] BY <1>1, BytesExist, BytesAreFold
<1>4. g[T] = h[T] BY <1>1, <1>2, <1>3, BytesAgree
<1>0. S \in SUBSET S OBVIOUS
<1> HIDE DEF T
<1>5. g[S] \in Nat /\ g[T] \in Nat BY <1>0, <1>1, <1>2, BytesAnyOrder
<1>6. g[S] = g[T] + y.size BY <1>0, <1>2, BytesAnyOrder DEF T
<1> QED BY <1>2, <1>3, <1>4, <1>5, <1>6 DEF T

LEMMA BytesNone == HeldBytes({}) = 0
<1>1. PICK g : g = BytesBody({}, g) /\ HeldBytes({}) = g[{}] BY FS_EmptySet, BytesExist, BytesAreFold
<1>2. g[{}] = BytesOf(g, {}) BY <1>1 DEF BytesBody
<1> QED BY <1>1, <1>2 DEF BytesOf

----------------------------------------------------------------------------
(* Client input: where each packet is, and what the budget counts. *)

InputTyped ==
  /\ unread \in [Clients -> Seq(PacketSet)] /\ reader \in [Clients -> ReaderStates]
  /\ mailbox \in Seq(PacketSet) /\ inputq \in Seq(PacketSet) /\ taken \in Seq(PacketSet)
  /\ writing \in Seq(PacketSet) /\ Len(writing) <= 1

(* The packets a reader has not passed on are the last ones of its client. *)
UnreadFacts ==
  \A c \in Clients :
    /\ Len(unread[c]) <= Len(Script[c])
    /\ \A i \in 1..Len(unread[c]) : unread[c][i] = Packets(c)[Sent(c) + i]
    /\ reader[c] = "granted" => unread[c] # <<>>

(* What is on its way, s, where u[c] packets of c were sent: each client's *)
(* in the order sent, and nothing missing of the clients not in out. *)
InLine(s, u) ==
  /\ \A i \in 1..Len(s) : s[i].at <= u[s[i].client]
  /\ \A i, j \in 1..Len(s) : i < j /\ s[i].client = s[j].client => s[i].at < s[j].at
HasAll(s, u, out) ==
  \A c \in Clients \ out : \A k \in 1..u[c] : \E i \in 1..Len(s) : s[i] = Packets(c)[k]

(* The budget counts the bytes of what is held, and nothing else. *)
HeldGood(S, bytes) ==
  /\ S \subseteq PacketSet /\ IsFiniteSet(S) /\ bytes = HeldBytes(S)
  /\ bytes <= Limit \/ Cardinality(S) <= 1

SentAll == [c \in Clients |-> Sent(c)]
InputInv ==
  /\ InputTyped /\ UnreadFacts /\ HeldGood(HeldPackets, pending)
  /\ InLine(OnTheWay, SentAll)
  /\ childUp => HasAll(OnTheWay, SentAll, Readonly \cup gone) /\ ~exited

LEMMA PacketsAre ==
  ASSUME NEW c \in Clients, NEW k \in 1..Len(Script[c])
  PROVE  /\ Packets(c)[k] \in PacketSet /\ Packets(c)[k].client = c /\ Packets(c)[k].at = k
         /\ Packets(c)[k].size \in Nat \ {0}
<1>1. Packets(c)[k] = [client |-> c, at |-> k, size |-> Script[c][k]] BY DEF Packets
<1>2. Script[c] \in Seq(Nat \ {0}) BY InputAssumption
<1>3. Script[c][k] \in Nat \ {0} BY <1>2
<1>4. Packets(c)[k] \in PacketSet BY DEF PacketSet
<1> QED BY <1>1, <1>3, <1>4

LEMMA PacketFacts ==
  ASSUME NEW p \in PacketSet
  PROVE  /\ p.client \in Clients /\ p.at \in 1..Len(Script[p.client]) /\ p.at \in Nat
         /\ p = Packets(p.client)[p.at] /\ p.size \in Nat \ {0}
<1>1. PICK c \in Clients : p \in {Packets(c)[i] : i \in 1..Len(Script[c])} BY DEF PacketSet
<1>2. PICK k \in 1..Len(Script[c]) : p = Packets(c)[k] BY <1>1
<1>3. p.client = c /\ p.at = k /\ p.size \in Nat \ {0} BY <1>2, PacketsAre
<1> QED BY <1>2, <1>3

LEMMA LineAppend ==
  ASSUME NEW s \in Seq(PacketSet), NEW u \in [Clients -> Nat], NEW c \in Clients,
         u[c] + 1 \in 1..Len(Script[c]), InLine(s, u)
  PROVE  InLine(Append(s, Packets(c)[u[c] + 1]), [u EXCEPT ![c] = @ + 1])
<1> DEFINE p == Packets(c)[u[c] + 1]
           t == Append(s, p)
           z == [u EXCEPT ![c] = @ + 1]
<1>1. p \in PacketSet /\ p.client = c /\ p.at = u[c] + 1 BY PacketsAre
<1> HIDE DEF p
<1>2. Len(t) = Len(s) + 1 /\ t[Len(s) + 1] = p /\ \A i \in 1..Len(s) : t[i] = s[i] BY <1>1
<1>3. Len(s) \in Nat OBVIOUS
<1>4. \A i \in 1..Len(s) : s[i] \in PacketSet /\ s[i].client \in Clients /\ s[i].at \in Nat BY PacketFacts
<1>5. \A x \in Clients : u[x] \in Nat /\ z[x] \in Nat /\ u[x] <= z[x] OBVIOUS
<1>6. z[c] = u[c] + 1 OBVIOUS
<1> HIDE DEF t, z
<1>7. ASSUME NEW i \in 1..Len(t) PROVE t[i].at <= z[t[i].client]
  <2>1. CASE i \in 1..Len(s)
    <3>1. s[i].at <= u[s[i].client] BY <2>1 DEF InLine
    <3>2. u[s[i].client] <= z[s[i].client] /\ u[s[i].client] \in Nat /\ z[s[i].client] \in Nat BY <1>4, <1>5, <2>1
    <3> QED BY <1>2, <1>4, <2>1, <3>1, <3>2
  <2>2. CASE i = Len(s) + 1 BY <1>1, <1>2, <1>6, <2>2
  <2> QED BY <1>2, <1>3, <1>7, <2>1, <2>2
<1>8. ASSUME NEW i \in 1..Len(t), NEW j \in 1..Len(t), i < j, t[i].client = t[j].client
      PROVE  t[i].at < t[j].at
  <2>0. i \in 1..Len(s) BY <1>2, <1>3, <1>8
  <2>1. CASE j \in 1..Len(s) BY <1>2, <1>8, <2>0, <2>1 DEF InLine
  <2>2. CASE j = Len(s) + 1
    <3>1. s[i].client = c /\ t[j].at = u[c] + 1 BY <1>1, <1>2, <1>8, <2>0, <2>2
    <3>2. s[i].at <= u[c] BY <2>0, <3>1 DEF InLine
    <3> QED BY <1>2, <1>4, <2>0, <3>1, <3>2
  <2> QED BY <1>2, <1>3, <1>8, <2>1, <2>2
<1> QED BY <1>7, <1>8 DEF InLine, t, z, p

LEMMA AllAppend ==
  ASSUME NEW s \in Seq(PacketSet), NEW u \in [Clients -> Nat], NEW c \in Clients, NEW out,
         u[c] + 1 \in 1..Len(Script[c]), HasAll(s, u, out)
  PROVE  HasAll(Append(s, Packets(c)[u[c] + 1]), [u EXCEPT ![c] = @ + 1], out)
<1> DEFINE p == Packets(c)[u[c] + 1]
           t == Append(s, p)
           z == [u EXCEPT ![c] = @ + 1]
<1>1. p \in PacketSet BY PacketsAre
<1> HIDE DEF p
<1>2. Len(t) = Len(s) + 1 /\ t[Len(s) + 1] = p /\ \A i \in 1..Len(s) : t[i] = s[i] BY <1>1
<1>3. Len(s) \in Nat OBVIOUS
<1>4. \A x \in Clients : u[x] \in Nat /\ z[x] = IF x = c THEN u[x] + 1 ELSE u[x] OBVIOUS
<1> HIDE DEF t, z
<1> SUFFICES ASSUME NEW x \in Clients \ out, NEW k \in 1..z[x] PROVE \E i \in 1..Len(t) : t[i] = Packets(x)[k]
  BY DEF HasAll, t, z, p
<1>5. CASE k \in 1..u[x]
  <2>1. PICK i \in 1..Len(s) : s[i] = Packets(x)[k] BY <1>5 DEF HasAll
  <2> QED BY <1>2, <1>3, <2>1
<1>6. CASE k \notin 1..u[x]
  <2>1. x = c /\ k = u[c] + 1 BY <1>4, <1>6
  <2> QED BY <1>2, <1>3, <2>1 DEF p
<1> QED BY <1>5, <1>6

(* A packet taken out at its place leaves the others in order. *)
LEMMA TakenOut ==
  ASSUME NEW a \in Seq(PacketSet), NEW b \in Seq(PacketSet), b # <<>>
  PROVE  LET s == a \o b  t == a \o Tail(b) IN
           /\ t \in Seq(PacketSet) /\ Len(s) = Len(t) + 1 /\ Len(t) \in Nat
           /\ Len(a) \in Nat /\ Len(a) <= Len(t) /\ s[Len(a) + 1] = Head(b)
           /\ \A i \in 1..Len(t) : t[i] = IF i <= Len(a) THEN s[i] ELSE s[i + 1]
<1> DEFINE s == a \o b
           r == Tail(b)
           t == a \o r
<1>1. /\ r \in Seq(PacketSet) /\ Len(r) = Len(b) - 1 /\ \A i \in 1..Len(r) : r[i] = b[i + 1]
  BY HeadTailProperties
<1>2. /\ Len(s) = Len(a) + Len(b)
      /\ \A i \in 1..(Len(a) + Len(b)) : s[i] = IF i <= Len(a) THEN a[i] ELSE b[i - Len(a)]
  BY ConcatProperties
<1>3. Head(b) = b[1] /\ Len(a) \in Nat /\ Len(b) \in Nat /\ Len(b) >= 1 OBVIOUS
<1> HIDE DEF r
<1>4. /\ t \in Seq(PacketSet) /\ Len(t) = Len(a) + Len(r)
      /\ \A i \in 1..(Len(a) + Len(r)) : t[i] = IF i <= Len(a) THEN a[i] ELSE r[i - Len(a)]
  BY <1>1, ConcatProperties
<1> HIDE DEF s, t
<1>5. s[Len(a) + 1] = Head(b) BY <1>2, <1>3
<1>6. ASSUME NEW i \in 1..Len(t) PROVE t[i] = IF i <= Len(a) THEN s[i] ELSE s[i + 1]
  <2>1. CASE i <= Len(a) BY SMTT(60), <1>1, <1>2, <1>3, <1>4, <2>1
  <2>2. CASE ~(i <= Len(a))
    <3>1. t[i] = r[i - Len(a)] /\ i - Len(a) \in 1..Len(r) BY <1>1, <1>3, <1>4, <2>2
    <3>2. r[i - Len(a)] = b[i - Len(a) + 1] BY <1>1, <3>1
    <3>3. s[i + 1] = b[i + 1 - Len(a)] BY <1>1, <1>2, <1>3, <1>4, <2>2
    <3>4. i + 1 - Len(a) = i - Len(a) + 1 BY <1>3
    <3> QED BY <2>2, <3>1, <3>2, <3>3, <3>4
  <2> QED BY <2>1, <2>2
<1>7. Len(s) = Len(t) + 1 /\ Len(t) \in Nat /\ Len(a) <= Len(t) BY <1>1, <1>2, <1>3, <1>4
<1> QED BY <1>3, <1>4, <1>5, <1>6, <1>7 DEF s, t, r

LEMMA LineDrop ==
  ASSUME NEW a \in Seq(PacketSet), NEW b \in Seq(PacketSet), b # <<>>, NEW u, InLine(a \o b, u)
  PROVE  InLine(a \o Tail(b), u)
<1> DEFINE s == a \o b
           t == a \o Tail(b)
<1>1. /\ Len(s) = Len(t) + 1 /\ Len(t) \in Nat /\ Len(a) \in Nat
      /\ \A i \in 1..Len(t) : t[i] = IF i <= Len(a) THEN s[i] ELSE s[i + 1] BY TakenOut
<1>2. InLine(s, u) OBVIOUS
<1> HIDE DEF s, t
<1> DEFINE at(i) == IF i <= Len(a) THEN i ELSE i + 1
<1>3. \A i \in 1..Len(t) : at(i) \in 1..Len(s) /\ t[i] = s[at(i)] BY <1>1
<1>4. \A i, j \in 1..Len(t) : i < j => at(i) < at(j) BY <1>1
<1> HIDE DEF at
<1>5. \A i \in 1..Len(t) : t[i].at <= u[t[i].client] BY <1>2, <1>3 DEF InLine
<1>6. ASSUME NEW i \in 1..Len(t), NEW j \in 1..Len(t), i < j, t[i].client = t[j].client
      PROVE  t[i].at < t[j].at BY <1>2, <1>3, <1>4, <1>6 DEF InLine
<1> QED BY <1>5, <1>6 DEF InLine, t

LEMMA AllDrop ==
  ASSUME NEW a \in Seq(PacketSet), NEW b \in Seq(PacketSet), b # <<>>, NEW u \in [Clients -> Nat], NEW out,
         HasAll(a \o b, u, out), Head(b).client \in out,
         \A c \in Clients : u[c] <= Len(Script[c])
  PROVE  HasAll(a \o Tail(b), u, out)
<1> DEFINE s == a \o b
           t == a \o Tail(b)
<1>1. /\ Len(s) = Len(t) + 1 /\ Len(t) \in Nat /\ Len(a) \in Nat /\ s[Len(a) + 1] = Head(b)
      /\ Len(a) <= Len(t)
      /\ \A i \in 1..Len(t) : t[i] = IF i <= Len(a) THEN s[i] ELSE s[i + 1] BY TakenOut
<1>2. HasAll(s, u, out) OBVIOUS
<1> HIDE DEF s, t
<1>3. ASSUME NEW x \in Clients \ out, NEW k \in 1..u[x] PROVE \E i \in 1..Len(t) : t[i] = Packets(x)[k]
  <2>1. PICK i \in 1..Len(s) : s[i] = Packets(x)[k] BY <1>2 DEF HasAll
  <2>2. u[x] \in Nat /\ u[x] <= Len(Script[x]) /\ Len(Script[x]) \in Nat BY InputAssumption
  <2>3. Packets(x)[k].client = x BY <2>2, PacketsAre
  <2>4. i # Len(a) + 1 BY <1>1, <2>1, <2>3
  <2>5. CASE i <= Len(a) BY SMTT(60), <1>1, <2>1, <2>5
  <2>6. CASE ~(i <= Len(a))
    <3>1. i - 1 \in 1..Len(t) /\ ~(i - 1 <= Len(a)) /\ i - 1 + 1 = i BY <1>1, <2>4, <2>6
    <3>2. t[i - 1] = s[i - 1 + 1] BY <1>1, <3>1
    <3> QED BY <2>1, <3>1, <3>2
  <2> QED BY <2>5, <2>6
<1> QED BY <1>3 DEF HasAll, t

LEMMA SentFacts ==
  ASSUME InputTyped, UnreadFacts
  PROVE  /\ SentAll \in [Clients -> Nat]
         /\ \A c \in Clients : /\ SentAll[c] = Sent(c) /\ Sent(c) <= Len(Script[c])
                               /\ Len(unread[c]) \in Nat /\ Len(Script[c]) \in Nat
<1>1. \A c \in Clients : Len(unread[c]) \in Nat /\ Len(Script[c]) \in Nat /\ Len(unread[c]) <= Len(Script[c])
  BY InputAssumption DEF InputTyped, UnreadFacts
<1>2. ASSUME NEW c \in Clients PROVE Sent(c) \in Nat /\ Sent(c) <= Len(Script[c])
  <2> DEFINE k == Len(Script[c])
             l == Len(unread[c])
  <2>1. k \in Nat /\ l \in Nat /\ l <= k BY <1>1
  <2>2. Sent(c) = k - l BY DEF Sent
  <2> HIDE DEF k, l
  <2> QED BY <2>1, <2>2 DEF k
<1> QED BY <1>1, <1>2 DEF SentAll

LEMMA HeadFacts ==
  ASSUME InputTyped, UnreadFacts, NEW c \in Clients, unread[c] # <<>>
  PROVE  /\ Sent(c) \in Nat /\ Sent(c) + 1 \in 1..Len(Script[c])
         /\ Head(unread[c]) = Packets(c)[Sent(c) + 1]
         /\ Head(unread[c]) \in PacketSet /\ Head(unread[c]).client = c /\ Head(unread[c]).at = Sent(c) + 1
<1>1. unread[c] \in Seq(PacketSet) BY DEF InputTyped
<1>2. Head(unread[c]) = unread[c][1] /\ Len(unread[c]) \in Nat /\ 1 \in 1..Len(unread[c]) BY <1>1
<1>3. Head(unread[c]) = Packets(c)[Sent(c) + 1] BY <1>2 DEF UnreadFacts
<1>4. Sent(c) \in Nat /\ Len(Script[c]) \in Nat BY SentFacts
<1>5. Sent(c) + 1 \in 1..Len(Script[c])
  <2> DEFINE k == Len(Script[c])
             l == Len(unread[c])
  <2>1. k \in Nat /\ l \in Nat /\ l >= 1 BY <1>2, <1>4
  <2>2. Sent(c) = k - l BY DEF Sent
  <2> HIDE DEF k, l
  <2> QED BY <1>4, <2>1, <2>2 DEF k
<1> QED BY <1>3, <1>4, <1>5, PacketsAre

LEMMA WayPlaces ==
  ASSUME InputTyped
  PROVE  LET t == Len(taken)
             o == Len(writing)
             q == Len(inputq)
         IN
           /\ t \in Nat /\ o \in Nat /\ q \in Nat /\ Len(mailbox) \in Nat
           /\ OnTheWay \in Seq(PacketSet) /\ Len(OnTheWay) = t + o + q + Len(mailbox)
           /\ \A i \in 1..o : OnTheWay[t + i] = writing[i]
           /\ \A i \in 1..q : OnTheWay[t + o + i] = inputq[i]
           /\ \A i \in 1..Len(mailbox) : OnTheWay[t + o + q + i] = mailbox[i]
<1> DEFINE a == taken \o writing
           b == a \o inputq
           t == Len(taken)
           o == Len(writing)
           q == Len(inputq)
<1>0. /\ taken \in Seq(PacketSet) /\ writing \in Seq(PacketSet) /\ inputq \in Seq(PacketSet)
      /\ mailbox \in Seq(PacketSet) BY DEF InputTyped
<1>1. t \in Nat /\ o \in Nat /\ q \in Nat /\ Len(mailbox) \in Nat BY <1>0
<1>2. /\ a \in Seq(PacketSet) /\ Len(a) = t + o
      /\ \A i \in 1..(t + o) : a[i] = IF i <= t THEN taken[i] ELSE writing[i - t]
  BY <1>0, ConcatProperties
<1> HIDE DEF a
<1>3. /\ b \in Seq(PacketSet) /\ Len(b) = Len(a) + q
      /\ \A i \in 1..(Len(a) + q) : b[i] = IF i <= Len(a) THEN a[i] ELSE inputq[i - Len(a)]
  <2>1. a \in Seq(PacketSet) /\ inputq \in Seq(PacketSet) BY <1>0, <1>2
  <2> QED BY <2>1, ConcatProperties
<1> HIDE DEF b
<1>4. OnTheWay = b \o mailbox BY DEF OnTheWay, a, b
<1>5. /\ OnTheWay \in Seq(PacketSet) /\ Len(OnTheWay) = Len(b) + Len(mailbox)
      /\ \A i \in 1..(Len(b) + Len(mailbox)) :
           OnTheWay[i] = IF i <= Len(b) THEN b[i] ELSE mailbox[i - Len(b)]
  <2>1. b \in Seq(PacketSet) /\ mailbox \in Seq(PacketSet) BY <1>0, <1>3
  <2> QED BY <1>4, <2>1, ConcatProperties
<1> HIDE DEF t, o, q
<1>6. ASSUME NEW i \in 1..o PROVE OnTheWay[t + i] = writing[i]
  <2>1. OnTheWay[t + i] = b[t + i] BY <1>1, <1>2, <1>3, <1>5
  <2>2. b[t + i] = a[t + i] BY SMTT(60), <1>1, <1>2, <1>3
  <2>3. a[t + i] = writing[t + i - t] BY <1>1, <1>2
  <2>4. t + i - t = i BY <1>1
  <2> QED BY <2>1, <2>2, <2>3, <2>4
<1>7. ASSUME NEW i \in 1..q PROVE OnTheWay[t + o + i] = inputq[i]
  <2>1. OnTheWay[t + o + i] = b[t + o + i] BY <1>1, <1>2, <1>3, <1>5
  <2>2. b[t + o + i] = inputq[t + o + i - (t + o)]
    <3>1. t + o + i \in 1..(Len(a) + q) /\ ~(t + o + i <= Len(a)) /\ Len(a) = t + o BY <1>1, <1>2
    <3> QED BY <1>3, <3>1
  <2>3. t + o + i - (t + o) = i BY <1>1
  <2> QED BY <2>1, <2>2, <2>3
<1>8. ASSUME NEW i \in 1..Len(mailbox) PROVE OnTheWay[t + o + q + i] = mailbox[i]
  <2>1. OnTheWay[t + o + q + i] = mailbox[t + o + q + i - (t + o + q)] BY <1>1, <1>2, <1>3, <1>5
  <2>2. t + o + q + i - (t + o + q) = i BY <1>1
  <2> QED BY <2>1, <2>2
<1>9. Len(OnTheWay) = t + o + q + Len(mailbox) BY <1>1, <1>2, <1>3, <1>5
<1> QED BY <1>1, <1>5, <1>6, <1>7, <1>8, <1>9 DEF t, o, q

(* A packet that is held is at one place of the queues, or is the next of a *)
(* reader that was granted it. *)
Queued == ToSet(writing) \cup ToSet(inputq) \cup ToSet(mailbox)

LEMMA QueuedFacts ==
  ASSUME InputInv, NEW p \in Queued
  PROVE  p \in PacketSet /\ p.at <= Sent(p.client)
<1> USE DEF InputInv
<1>1. \E i \in 1..Len(OnTheWay) : OnTheWay[i] = p
  <2>1. CASE p \in ToSet(writing)
    <3>1. PICK i \in 1..Len(writing) : writing[i] = p BY <2>1 DEF ToSet, InputTyped
    <3>2. Len(taken) + i \in 1..Len(OnTheWay) /\ OnTheWay[Len(taken) + i] = p BY <3>1, WayPlaces
    <3> QED BY <3>2
  <2>2. CASE p \in ToSet(inputq)
    <3>1. PICK i \in 1..Len(inputq) : inputq[i] = p BY <2>2 DEF ToSet, InputTyped
    <3> DEFINE j == Len(taken) + Len(writing) + i
    <3>2. j \in 1..Len(OnTheWay) /\ OnTheWay[j] = p BY <3>1, WayPlaces
    <3> QED BY <3>2
  <2>3. CASE p \in ToSet(mailbox)
    <3>1. PICK i \in 1..Len(mailbox) : mailbox[i] = p BY <2>3 DEF ToSet, InputTyped
    <3> DEFINE j == Len(taken) + Len(writing) + Len(inputq) + i
    <3>2. j \in 1..Len(OnTheWay) /\ OnTheWay[j] = p BY <3>1, WayPlaces
    <3> QED BY <3>2
  <2> QED BY <2>1, <2>2, <2>3 DEF Queued
<1>2. p \in PacketSet BY <1>1, WayPlaces
<1>3. p.at <= SentAll[p.client] BY <1>1 DEF InLine
<1> QED BY <1>2, <1>3, PacketFacts, SentFacts

LEMMA HeldAre == HeldPackets = {Head(unread[c]) : c \in Granted} \cup Queued
BY DEF HeldPackets, Queued

LEMMA WaySame ==
  ASSUME InputInv, OnTheWay' = OnTheWay, unread' = unread, gone \subseteq gone', childUp' => childUp /\ ~exited'
  PROVE  /\ InLine(OnTheWay, SentAll)'
         /\ childUp' => HasAll(OnTheWay, SentAll, Readonly \cup gone)' /\ ~exited'
<1>1. SentAll' = SentAll BY DEF SentAll, Sent
<1>2. InLine(OnTheWay, SentAll)' BY <1>1 DEF InputInv
<1>3. ASSUME childUp' PROVE HasAll(OnTheWay, SentAll, Readonly \cup gone)'
  BY <1>1, <1>3 DEF InputInv, HasAll
<1> QED BY <1>2, <1>3

(* The budget when a packet is granted, and when its hold is dropped. *)
LEMMA HeldGrows ==
  ASSUME NEW S, NEW bytes, HeldGood(S, bytes), NEW p \in PacketSet \ S,
         bytes = 0 \/ bytes + p.size <= Limit
  PROVE  HeldGood(S \cup {p}, bytes + p.size)
<1> DEFINE T == S \cup {p}
<1>1. IsFiniteSet(T) /\ T \subseteq PacketSet BY FS_AddElement DEF HeldGood
<1>2. \A x \in T : x.size \in Nat BY <1>1, PacketFacts
<1>3. T \ {p} = S OBVIOUS
<1>4. HeldBytes(T) = HeldBytes(T \ {p}) + p.size BY <1>1, <1>2, BytesTake
<1>5. HeldBytes(T) = bytes + p.size BY <1>3, <1>4 DEF HeldGood
<1>6. CASE bytes = 0
  <2>1. S = {}
    <3> SUFFICES ASSUME NEW x \in S PROVE FALSE OBVIOUS
    <3>1. IsFiniteSet(S) /\ \A y \in S : y.size \in Nat BY <1>2 DEF HeldGood
    <3>2. HeldBytes(S) = HeldBytes(S \ {x}) + x.size /\ HeldBytes(S \ {x}) \in Nat BY <3>1, BytesTake
    <3>3. x.size \in Nat \ {0} BY PacketFacts DEF HeldGood
    <3>4. HeldBytes(S) = 0 BY <1>6 DEF HeldGood
    <3> QED BY <3>2, <3>3, <3>4
  <2>2. T = {p} BY <2>1
  <2>3. Cardinality(T) = 1 BY <2>2, FS_Singleton
  <2> QED BY <1>1, <1>5, <2>3 DEF HeldGood
<1>7. CASE bytes + p.size <= Limit BY <1>1, <1>5, <1>7 DEF HeldGood
<1> QED BY <1>6, <1>7

LEMMA HeldShrinks ==
  ASSUME NEW S, NEW bytes, HeldGood(S, bytes), NEW p \in S
  PROVE  HeldGood(S \ {p}, bytes - p.size)
<1> DEFINE T == S \ {p}
<1>1. IsFiniteSet(T) /\ T \subseteq PacketSet /\ Cardinality(T) = Cardinality(S) - 1
  BY FS_RemoveElement DEF HeldGood
<1>2. \A x \in S : x.size \in Nat BY PacketFacts DEF HeldGood
<1>3. HeldBytes(S) = HeldBytes(T) + p.size /\ HeldBytes(T) \in Nat /\ HeldBytes(S) \in Nat
  BY <1>2, BytesTake DEF HeldGood
<1>4. HeldBytes(T) = bytes - p.size
  <2>1. bytes = HeldBytes(S) /\ p.size \in Nat BY <1>2 DEF HeldGood
  <2> QED BY <1>3, <2>1
<1>5. Cardinality(S) \in Nat BY FS_CardinalityType DEF HeldGood
<1>6. bytes <= Limit \/ Cardinality(S) <= 1 BY DEF HeldGood
<1>7. bytes - p.size <= Limit \/ Cardinality(T) <= 1
  <2>1. bytes \in Nat /\ p.size \in Nat /\ Limit \in Nat BY <1>2, <1>3, InputAssumption DEF HeldGood
  <2> QED BY <1>1, <1>5, <1>6, <2>1
<1> QED BY <1>1, <1>4, <1>7 DEF HeldGood

LEMMA InputBegins == InputInit => InputInv
<1> SUFFICES ASSUME InputInit PROVE InputInv OBVIOUS
<1> USE DEF InputInit
<1>1. ASSUME NEW c \in Clients
      PROVE  /\ Packets(c) \in Seq(PacketSet) /\ Len(Packets(c)) = Len(Script[c]) /\ Len(Script[c]) \in Nat
  <2>1. Script[c] \in Seq(Nat \ {0}) BY InputAssumption
  <2>2. Len(Script[c]) \in Nat BY <2>1
  <2>3. \A i \in 1..Len(Script[c]) : Packets(c)[i] \in PacketSet BY PacketsAre
  <2>4. Packets(c) \in [1..Len(Script[c]) -> PacketSet] BY <2>3 DEF Packets
  <2> QED BY <2>2, <2>4
<1>2. InputTyped
  <2>1. <<>> \in Seq(PacketSet) /\ Len(<<>>) <= 1 OBVIOUS
  <2>2. unread \in [Clients -> Seq(PacketSet)] BY <1>1
  <2>3. reader \in [Clients -> ReaderStates] BY DEF ReaderStates
  <2> QED BY <2>1, <2>2, <2>3 DEF InputTyped
<1>3. \A c \in Clients : Sent(c) = 0
  <2> SUFFICES ASSUME NEW c \in Clients PROVE Sent(c) = 0 OBVIOUS
  <2>1. Len(unread[c]) = Len(Script[c]) /\ Len(Script[c]) \in Nat BY <1>1
  <2> QED BY <2>1 DEF Sent
<1>4. UnreadFacts
  <2> SUFFICES ASSUME NEW c \in Clients
               PROVE  /\ Len(unread[c]) <= Len(Script[c])
                      /\ \A i \in 1..Len(unread[c]) : unread[c][i] = Packets(c)[Sent(c) + i]
                      /\ reader[c] = "granted" => unread[c] # <<>> BY DEF UnreadFacts
  <2>1. unread[c] = Packets(c) /\ Len(unread[c]) \in Nat BY <1>1
  <2>2. Len(unread[c]) <= Len(Script[c]) BY <1>1, <2>1
  <2>3. \A i \in 1..Len(unread[c]) : Sent(c) + i = i BY <1>3
  <2>4. reader[c] # "granted" OBVIOUS
  <2> QED BY <2>1, <2>2, <2>3, <2>4
<1>5. HeldPackets = {} /\ pending = 0
  <2>1. Granted = {} BY DEF Granted
  <2>2. ToSet(<<>>) = {} BY DEF ToSet
  <2> QED BY <2>1, <2>2 DEF HeldPackets
<1>6. HeldGood(HeldPackets, pending) BY <1>5, FS_EmptySet, BytesNone DEF HeldGood
<1>7. OnTheWay = <<>> /\ Len(OnTheWay) = 0
  <2>1. <<>> \in Seq(PacketSet) OBVIOUS
  <2>2. <<>> \o <<>> = <<>> BY <2>1, ConcatEmptySeq
  <2>3. OnTheWay = <<>> BY <2>2 DEF OnTheWay
  <2> QED BY <2>3
<1>8. InLine(OnTheWay, SentAll) BY <1>7 DEF InLine
<1>9. HasAll(OnTheWay, SentAll, Readonly \cup gone) BY <1>3 DEF HasAll, SentAll
<1> QED BY <1>2, <1>4, <1>6, <1>8, <1>9 DEF InputInv

LEMMA HoldKeeps == ASSUME InputInv, NEW c \in Clients, Hold(c) PROVE InputInv'
<1> USE DEF InputInv
<1> DEFINE p == Head(unread[c])
<1>1. /\ unread' = unread /\ mailbox' = mailbox /\ inputq' = inputq /\ writing' = writing /\ taken' = taken
      /\ gone' = gone /\ childUp' = childUp /\ exited' = exited BY DEF Hold
<1>2. unread[c] # <<>> /\ reader[c] # "granted" BY DEF Hold
<1>3. PICK st \in {"waiting", "granted"} : reader' = [reader EXCEPT ![c] = st] BY DEF Hold
<1>4. InputTyped' BY <1>1, <1>3 DEF InputTyped, ReaderStates
<1>5. UnreadFacts' BY <1>1, <1>2, <1>3 DEF UnreadFacts, Sent, InputTyped
<1>6. OnTheWay' = OnTheWay /\ Queued' = Queued BY <1>1 DEF OnTheWay, Queued
<1>7. /\ InLine(OnTheWay, SentAll)'
      /\ childUp' => HasAll(OnTheWay, SentAll, Readonly \cup gone)' /\ ~exited' BY <1>1, <1>6, WaySame
<1>8. CASE Fits(p.size) /\ pending' = pending + p.size /\ reader' = [reader EXCEPT ![c] = "granted"]
  <2>1. Granted' = Granted \cup {c} BY <1>8 DEF Granted, InputTyped
  <2>2. {Head(unread[x]) : x \in Granted}' = {Head(unread[x]) : x \in Granted} \cup {p} BY <1>1, <2>1
  <2>3. HeldPackets' = HeldPackets \cup {p} BY <1>6, <2>2, HeldAre DEF HeldPackets, Queued
  <2>4. /\ p \in PacketSet /\ p.client = c /\ p.at = Sent(c) + 1 /\ Sent(c) \in Nat BY <1>2, HeadFacts
  <2>5. p \notin Queued
    <3> SUFFICES ASSUME p \in Queued PROVE FALSE OBVIOUS
    <3>1. p.at <= Sent(p.client) BY QueuedFacts
    <3> QED BY <2>4, <3>1
  <2>6. \A x \in Granted : Head(unread[x]) # p
    <3> SUFFICES ASSUME NEW x \in Granted PROVE Head(unread[x]) # p OBVIOUS
    <3>1. x \in Clients /\ x # c /\ unread[x] # <<>> BY <1>2 DEF Granted, UnreadFacts
    <3>2. Head(unread[x]).client = x BY <3>1, HeadFacts
    <3> QED BY <2>4, <3>1, <3>2
  <2>7. p \notin HeldPackets BY <2>5, <2>6, HeldAre
  <2>8. pending = 0 \/ pending + p.size <= Limit BY <1>8 DEF Fits
  <2> HIDE DEF p
  <2>9. HeldGood(HeldPackets \cup {p}, pending + p.size) BY <2>4, <2>7, <2>8, HeldGrows
  <2> QED BY <1>4, <1>5, <1>7, <1>8, <2>3, <2>9
<1>9. CASE pending' = pending /\ reader' = [reader EXCEPT ![c] = "waiting"]
  <2>1. Granted' = Granted BY <1>2, <1>9 DEF Granted, InputTyped
  <2>2. HeldPackets' = HeldPackets BY <1>1, <2>1 DEF HeldPackets
  <2> QED BY <1>4, <1>5, <1>7, <1>9, <2>2
<1> QED BY <1>8, <1>9 DEF Hold

LEMMA SendPacketKeeps == ASSUME InputInv, NEW c \in Clients, SendPacket(c) PROVE InputInv'
<1> USE DEF InputInv
<1> DEFINE p == Head(unread[c])
<1>1. /\ inputq' = inputq /\ writing' = writing /\ taken' = taken /\ gone' = gone /\ childUp' = childUp
      /\ exited' = exited /\ pending' = pending /\ mailbox' = Append(mailbox, p)
      /\ unread' = [unread EXCEPT ![c] = Tail(unread[c])] /\ reader' = [reader EXCEPT ![c] = "reading"]
      /\ reader[c] = "granted" BY DEF SendPacket
<1>2. unread[c] # <<>> /\ unread[c] \in Seq(PacketSet) BY <1>1 DEF UnreadFacts, InputTyped
<1>3. /\ p = Packets(c)[Sent(c) + 1] /\ p \in PacketSet /\ Sent(c) \in Nat /\ Sent(c) + 1 \in 1..Len(Script[c])
  BY <1>2, HeadFacts
<1>4. /\ Tail(unread[c]) \in Seq(PacketSet) /\ Len(Tail(unread[c])) = Len(unread[c]) - 1
      /\ \A i \in 1..Len(Tail(unread[c])) : Tail(unread[c])[i] = unread[c][i + 1]
  BY <1>2, HeadTailProperties
<1> HIDE DEF p
<1>5. InputTyped' BY <1>1, <1>3, <1>4 DEF InputTyped, ReaderStates
<1>6. \A x \in Clients : unread'[x] = IF x = c THEN Tail(unread[c]) ELSE unread[x] BY <1>1 DEF InputTyped
<1>7. /\ \A x \in Clients : x # c => Sent(x)' = Sent(x)
      /\ Sent(c)' = Sent(c) + 1
  <2>1. \A x \in Clients : x # c => Sent(x)' = Sent(x) BY <1>6 DEF Sent
  <2> DEFINE k == Len(Script[c])
             l == Len(unread[c])
  <2>2. k \in Nat /\ l \in Nat BY SentFacts
  <2>3. Sent(c) = k - l /\ Sent(c)' = k - (l - 1) BY <1>4, <1>6 DEF Sent
  <2> HIDE DEF k, l
  <2> QED BY <2>1, <2>2, <2>3
<1>8. UnreadFacts'
  <2> SUFFICES ASSUME NEW x \in Clients
               PROVE  /\ Len(unread'[x]) <= Len(Script[x])
                      /\ \A i \in 1..Len(unread'[x]) : unread'[x][i] = Packets(x)[Sent(x)' + i]
                      /\ reader'[x] = "granted" => unread'[x] # <<>> BY DEF UnreadFacts
  <2>1. CASE x # c
    <3>1. unread'[x] = unread[x] /\ Sent(x)' = Sent(x) /\ reader'[x] = reader[x]
      BY <1>1, <1>6, <1>7, <2>1 DEF InputTyped
    <3> QED BY <3>1 DEF UnreadFacts
  <2>2. CASE x = c
    <3>1. unread'[c] = Tail(unread[c]) /\ reader'[c] = "reading" BY <1>1, <1>6 DEF InputTyped
    <3>2. Len(unread[c]) \in Nat /\ Len(Script[c]) \in Nat /\ Len(unread[c]) <= Len(Script[c])
      BY SentFacts DEF UnreadFacts
    <3>3. Len(unread'[c]) <= Len(Script[c]) BY <1>4, <3>1, <3>2
    <3>4. ASSUME NEW i \in 1..Len(unread'[c]) PROVE unread'[c][i] = Packets(c)[Sent(c)' + i]
      <4>1. unread'[c][i] = unread[c][i + 1] /\ i + 1 \in 1..Len(unread[c]) BY <1>4, <3>1, <3>2
      <4>2. unread[c][i + 1] = Packets(c)[Sent(c) + (i + 1)] BY <4>1 DEF UnreadFacts
      <4>3. Sent(c) + (i + 1) = Sent(c)' + i BY <1>3, <1>7
      <4> QED BY <4>1, <4>2, <4>3
    <3> QED BY <2>2, <3>1, <3>3, <3>4
  <2> QED BY <2>1, <2>2
<1>9. HeldPackets' = HeldPackets
  <2>1. Granted' = Granted \ {c} BY <1>1 DEF Granted, InputTyped
  <2>2. c \in Granted BY <1>1 DEF Granted
  <2>3. \A x \in Granted' : x # c /\ x \in Granted /\ unread'[x] = unread[x] BY <1>6, <2>1 DEF Granted
  <2>4. {Head(unread[x]) : x \in Granted} = {Head(unread[x]) : x \in Granted}' \cup {p}
    <3>1. \A x \in Granted : x = c \/ (x \in Granted' /\ unread'[x] = unread[x]) BY <2>1, <2>3
    <3> QED BY <2>2, <2>3, <3>1 DEF p
  <2>5. ToSet(mailbox') = ToSet(mailbox) \cup {p}
    <3>1. mailbox \in Seq(PacketSet) BY DEF InputTyped
    <3>2. /\ DOMAIN mailbox' = 1..(Len(mailbox) + 1) /\ DOMAIN mailbox = 1..Len(mailbox) /\ Len(mailbox) \in Nat
          /\ mailbox'[Len(mailbox) + 1] = p /\ \A i \in 1..Len(mailbox) : mailbox'[i] = mailbox[i]
      BY <1>1, <1>3, <3>1
    <3> QED BY <3>2 DEF ToSet
  <2> QED BY <1>1, <2>4, <2>5 DEF HeldPackets
<1> DEFINE u == SentAll
           z == [u EXCEPT ![c] = @ + 1]
<1>10. SentAll' = z
  <2>1. SentAll' \in [Clients -> Nat] /\ \A x \in Clients : SentAll'[x] = Sent(x)'
    BY <1>3, <1>7, SentFacts DEF SentAll
  <2>2. u \in [Clients -> Nat] /\ \A x \in Clients : u[x] = Sent(x) BY SentFacts
  <2> HIDE DEF u
  <2>3. z \in [Clients -> Nat] /\ \A x \in Clients : z[x] = IF x = c THEN Sent(c) + 1 ELSE Sent(x) BY <2>2
  <2>4. \A x \in Clients : SentAll'[x] = z[x] BY <1>7, <2>1, <2>3
  <2> HIDE DEF z
  <2> QED BY <2>1, <2>3, <2>4
<1>11. u \in [Clients -> Nat] /\ u[c] = Sent(c) BY SentFacts
<1>12. OnTheWay' = Append(OnTheWay, p) /\ OnTheWay \in Seq(PacketSet)
  <2> DEFINE a == taken \o writing \o inputq
  <2>1. taken \in Seq(PacketSet) /\ writing \in Seq(PacketSet) /\ inputq \in Seq(PacketSet) BY DEF InputTyped
  <2>2. taken \o writing \in Seq(PacketSet) BY <2>1, ConcatProperties
  <2>3. a \in Seq(PacketSet) /\ mailbox \in Seq(PacketSet) BY <2>1, <2>2, ConcatProperties DEF InputTyped
  <2>4. OnTheWay = a \o mailbox /\ OnTheWay' = a \o Append(mailbox, p) BY <1>1 DEF OnTheWay
  <2> HIDE DEF a
  <2>5. a \o Append(mailbox, p) = Append(a \o mailbox, p) BY <1>3, <2>3
  <2> QED BY <2>3, <2>4, <2>5, ConcatProperties
<1> HIDE DEF u
<1>13. InLine(Append(OnTheWay, p), z) BY <1>3, <1>11, <1>12, LineAppend DEF u
<1>14. ASSUME childUp PROVE HasAll(Append(OnTheWay, p), z, Readonly \cup gone)
  BY <1>3, <1>11, <1>12, <1>14, AllAppend DEF u
<1> QED BY <1>1, <1>5, <1>8, <1>9, <1>10, <1>12, <1>13, <1>14

(* Steps that move no packet. *)
LEMMA NothingMoves ==
  ASSUME InputInv, unread' = unread, mailbox' = mailbox, inputq' = inputq, writing' = writing, taken' = taken,
         pending' = pending, gone \subseteq gone', childUp' => childUp /\ ~exited',
         reader' \in [Clients -> ReaderStates],
         \A c \in Clients : reader'[c] = "granted" <=> reader[c] = "granted"
  PROVE  InputInv'
<1> USE DEF InputInv
<1>1. InputTyped' BY DEF InputTyped
<1>2. UnreadFacts' BY DEF UnreadFacts, Sent
<1>3. OnTheWay' = OnTheWay BY DEF OnTheWay
<1>4. Granted' = Granted BY DEF Granted
<1>5. HeldPackets' = HeldPackets BY <1>4 DEF HeldPackets
<1>6. HeldGood(HeldPackets, pending)' BY <1>5
<1> QED BY <1>1, <1>2, <1>3, <1>6, WaySame

LEMMA NotifyAllKeeps == ASSUME InputInv, NEW t, NotifyAll(t) PROVE InputInv'
<1>1. reader \in [Clients -> ReaderStates] BY DEF InputInv, InputTyped
<1>2. reader' = [c \in Clients |-> IF reader[c] = "waiting" THEN "woken" ELSE reader[c]] BY DEF NotifyAll
<1>3. reader' \in [Clients -> ReaderStates] BY <1>1, <1>2 DEF ReaderStates
<1>4. \A c \in Clients : reader'[c] = "granted" <=> reader[c] = "granted" BY <1>2
<1>5. childUp' => childUp /\ ~exited' BY DEF NotifyAll, InputInv
<1> QED BY <1>3, <1>4, <1>5, NothingMoves DEF NotifyAll

LEMMA WorldKeepsInput ==
  ASSUME InputInv, (\E c \in Clients : DropClient(c)) \/ ChildExits \/ OnChildExited
  PROVE  InputInv'
<1>1. reader \in [Clients -> ReaderStates] BY DEF InputInv, InputTyped
<1>2. ASSUME NEW c \in Clients, DropClient(c) PROVE InputInv'
  BY <1>1, <1>2, NothingMoves DEF DropClient, InputInv
<1>3. CASE ChildExits BY <1>1, <1>3, NothingMoves DEF ChildExits, InputInv
<1>4. CASE OnChildExited BY <1>1, <1>4, NothingMoves DEF OnChildExited, InputInv
<1> QED BY <1>2, <1>3, <1>4

LEMMA SetOfTail ==
  ASSUME NEW s \in Seq(PacketSet), s # <<>>
  PROVE  /\ ToSet(s) = {Head(s)} \cup ToSet(Tail(s)) /\ Head(s) = s[1]
         /\ Tail(s) \in Seq(PacketSet) /\ Head(s) \in PacketSet /\ Len(s) \in Nat /\ Len(s) >= 1
         /\ \A y \in ToSet(Tail(s)) : \E i \in 2..Len(s) : s[i] = y
<1>1. /\ Tail(s) \in Seq(PacketSet) /\ Len(Tail(s)) = Len(s) - 1
      /\ \A i \in 1..Len(Tail(s)) : Tail(s)[i] = s[i + 1] BY HeadTailProperties
<1>2. Head(s) = s[1] /\ Head(s) \in PacketSet /\ Len(s) \in Nat /\ Len(s) >= 1 OBVIOUS
<1>3. \A y \in ToSet(Tail(s)) : \E i \in 2..Len(s) : s[i] = y
  <2> SUFFICES ASSUME NEW y \in ToSet(Tail(s)) PROVE \E i \in 2..Len(s) : s[i] = y OBVIOUS
  <2>1. PICK i \in 1..Len(Tail(s)) : Tail(s)[i] = y BY <1>1 DEF ToSet
  <2>2. i + 1 \in 2..Len(s) /\ s[i + 1] = y BY <1>1, <1>2, <2>1
  <2> QED BY <2>2
<1>4. ASSUME NEW y \in ToSet(s) PROVE y = Head(s) \/ y \in ToSet(Tail(s))
  <2>1. PICK i \in 1..Len(s) : s[i] = y BY DEF ToSet
  <2>2. CASE i = 1 BY <1>2, <2>1, <2>2
  <2>3. CASE i # 1
    <3>1. i - 1 \in 1..Len(Tail(s)) /\ i - 1 + 1 = i BY <1>1, <1>2, <2>3
    <3>2. Tail(s)[i - 1] = y BY <1>1, <2>1, <3>1
    <3>3. i - 1 \in DOMAIN Tail(s) BY <1>1, <3>1
    <3> QED BY <3>2, <3>3 DEF ToSet
  <2> QED BY <2>2, <2>3
<1>5. \A y \in ToSet(Tail(s)) : y \in ToSet(s)
  <2> SUFFICES ASSUME NEW y \in ToSet(Tail(s)) PROVE y \in ToSet(s) OBVIOUS
  <2>1. PICK i \in 2..Len(s) : s[i] = y BY <1>3
  <2>2. i \in DOMAIN s BY <2>1
  <2> QED BY <2>1, <2>2 DEF ToSet
<1>6. Head(s) \in ToSet(s)
  <2>1. 1 \in DOMAIN s BY <1>2
  <2> QED BY <1>2, <2>1 DEF ToSet
<1> QED BY <1>1, <1>2, <1>3, <1>4, <1>5, <1>6

LEMMA SetOfAppend ==
  ASSUME NEW s \in Seq(PacketSet), NEW p \in PacketSet
  PROVE  Append(s, p) \in Seq(PacketSet) /\ ToSet(Append(s, p)) = ToSet(s) \cup {p}
<1> DEFINE t == Append(s, p)
<1>1. /\ t \in Seq(PacketSet) /\ DOMAIN t = 1..(Len(s) + 1) /\ DOMAIN s = 1..Len(s) /\ Len(s) \in Nat
      /\ t[Len(s) + 1] = p /\ \A i \in 1..Len(s) : t[i] = s[i] OBVIOUS
<1> HIDE DEF t
<1>2. ToSet(t) = ToSet(s) \cup {p} BY <1>1 DEF ToSet
<1> QED BY <1>1, <1>2 DEF t

LEMMA SetOfOne == ASSUME NEW p PROVE ToSet(<<p>>) = {p} /\ ToSet(<<>>) = {}
<1>1. DOMAIN <<p>> = 1..1 /\ <<p>>[1] = p /\ 1..1 = {1} OBVIOUS
<1>2. ToSet(<<p>>) = {p} BY <1>1 DEF ToSet
<1>3. ToSet(<<>>) = {} BY DEF ToSet
<1> QED BY <1>2, <1>3

(* A packet is at one place of the queues only. *)
LEMMA OnePlace ==
  ASSUME InputInv, NEW i \in 1..Len(OnTheWay), NEW j \in 1..Len(OnTheWay), i # j
  PROVE  OnTheWay[i] # OnTheWay[j]
<1> SUFFICES ASSUME OnTheWay[i] = OnTheWay[j] PROVE FALSE OBVIOUS
<1>1. OnTheWay \in Seq(PacketSet) /\ Len(OnTheWay) \in Nat BY WayPlaces DEF InputInv
<1>2. OnTheWay[i].at \in Nat BY <1>1, PacketFacts
<1>3. i < j \/ j < i OBVIOUS
<1>4. OnTheWay[i].at < OnTheWay[i].at BY <1>3 DEF InputInv, InLine
<1> QED BY <1>2, <1>4

LEMMA NotGranted ==
  ASSUME InputInv, NEW p \in Queued
  PROVE  p \notin {Head(unread[c]) : c \in Granted}
<1> SUFFICES ASSUME NEW c \in Granted, p = Head(unread[c]) PROVE FALSE OBVIOUS
<1>1. c \in Clients /\ unread[c] # <<>> BY DEF Granted, InputInv, UnreadFacts
<1>2. p.client = c /\ p.at = Sent(c) + 1 /\ Sent(c) \in Nat BY <1>1, HeadFacts DEF InputInv
<1>3. p.at <= Sent(p.client) BY QueuedFacts
<1> QED BY <1>2, <1>3

LEMMA MailHeadAlone ==
  ASSUME InputInv, mailbox # <<>>
  PROVE  Head(mailbox) \notin ToSet(writing) \cup ToSet(inputq) \cup ToSet(Tail(mailbox))
<1>0. InputTyped /\ mailbox \in Seq(PacketSet) BY DEF InputInv, InputTyped
<1> DEFINE p == Head(mailbox)
           k == Len(taken) + Len(writing) + Len(inputq) + 1
<1>1. p = mailbox[1] /\ Len(mailbox) \in Nat /\ Len(mailbox) >= 1 BY <1>0, SetOfTail
<1>2. k \in 1..Len(OnTheWay) /\ OnTheWay[k] = p BY <1>0, <1>1, WayPlaces
<1>3. p \notin ToSet(writing)
  <2> SUFFICES ASSUME p \in ToSet(writing) PROVE FALSE OBVIOUS
  <2>1. PICK i \in 1..Len(writing) : writing[i] = p BY <1>0 DEF ToSet, InputTyped
  <2> DEFINE j == Len(taken) + i
  <2>2. j \in 1..Len(OnTheWay) /\ OnTheWay[j] = p /\ j # k BY <1>0, <1>1, <2>1, WayPlaces
  <2> QED BY <1>2, <2>2, OnePlace
<1>4. p \notin ToSet(inputq)
  <2> SUFFICES ASSUME p \in ToSet(inputq) PROVE FALSE OBVIOUS
  <2>1. PICK i \in 1..Len(inputq) : inputq[i] = p BY <1>0 DEF ToSet, InputTyped
  <2> DEFINE j == Len(taken) + Len(writing) + i
  <2>2. j \in 1..Len(OnTheWay) /\ OnTheWay[j] = p /\ j # k BY <1>0, <1>1, <2>1, WayPlaces
  <2> QED BY <1>2, <2>2, OnePlace
<1>5. p \notin ToSet(Tail(mailbox))
  <2> SUFFICES ASSUME p \in ToSet(Tail(mailbox)) PROVE FALSE OBVIOUS
  <2>1. PICK i \in 2..Len(mailbox) : mailbox[i] = p BY <1>0, SetOfTail
  <2> DEFINE j == Len(taken) + Len(writing) + Len(inputq) + i
  <2>2. j \in 1..Len(OnTheWay) /\ OnTheWay[j] = p /\ j # k BY <1>0, <1>1, <2>1, WayPlaces
  <2> QED BY <1>2, <2>2, OnePlace
<1> QED BY <1>3, <1>4, <1>5

LEMMA WritingAlone ==
  ASSUME InputInv, writing # <<>>
  PROVE  /\ writing = <<Head(writing)>> /\ Head(writing) \in PacketSet
         /\ Head(writing) \notin ToSet(inputq) \cup ToSet(mailbox)
<1>0. InputTyped /\ writing \in Seq(PacketSet) BY DEF InputInv, InputTyped
<1> DEFINE p == Head(writing)
           k == Len(taken) + 1
<1>1. p = writing[1] /\ p \in PacketSet /\ Len(writing) \in Nat /\ Len(writing) >= 1 BY <1>0, SetOfTail
<1>2. Len(writing) = 1
  <2>1. Len(writing) <= 1 BY <1>0 DEF InputTyped
  <2>2. Len(writing) \in Nat /\ Len(writing) >= 1 BY <1>1
  <2> QED BY <2>1, <2>2
<1>3. k \in 1..Len(OnTheWay) /\ OnTheWay[k] = p BY <1>0, <1>1, WayPlaces
<1>4. p \notin ToSet(inputq)
  <2> SUFFICES ASSUME p \in ToSet(inputq) PROVE FALSE OBVIOUS
  <2>1. PICK i \in 1..Len(inputq) : inputq[i] = p BY <1>0 DEF ToSet, InputTyped
  <2> DEFINE j == Len(taken) + Len(writing) + i
  <2>2. j \in 1..Len(OnTheWay) /\ OnTheWay[j] = p /\ j # k BY <1>0, <1>1, <2>1, WayPlaces
  <2> QED BY <1>3, <2>2, OnePlace
<1>5. p \notin ToSet(mailbox)
  <2> SUFFICES ASSUME p \in ToSet(mailbox) PROVE FALSE OBVIOUS
  <2>1. PICK i \in 1..Len(mailbox) : mailbox[i] = p BY <1>0 DEF ToSet, InputTyped
  <2> DEFINE j == Len(taken) + Len(writing) + Len(inputq) + i
  <2>2. j \in 1..Len(OnTheWay) /\ OnTheWay[j] = p /\ j # k BY <1>0, <1>1, <2>1, WayPlaces
  <2> QED BY <1>3, <2>2, OnePlace
<1>6. writing = <<p>>
  <2>1. <<p>> \in Seq(PacketSet) /\ Len(<<p>>) = 1 /\ <<p>>[1] = p BY <1>1
  <2>2. \A i \in 1..Len(writing) : writing[i] = <<p>>[i] BY <1>1, <1>2, <2>1
  <2> HIDE DEF p
  <2> QED BY <1>0, <1>2, <2>1, <2>2, SeqEqual
<1> QED BY <1>1, <1>4, <1>5, <1>6

LEMMA OnDataKeeps == ASSUME InputInv, OnData PROVE InputInv'
<1> USE DEF InputInv
<1> DEFINE p == Head(mailbox)
           a == taken \o writing
           b == a \o inputq
<1>1. /\ mailbox # <<>> /\ mailbox' = Tail(mailbox) /\ unread' = unread /\ reader' = reader /\ writing' = writing
      /\ gone' = gone /\ childUp' = childUp /\ exited' = exited /\ taken' = taken BY DEF OnData
<1>2. /\ taken \in Seq(PacketSet) /\ writing \in Seq(PacketSet) /\ inputq \in Seq(PacketSet)
      /\ mailbox \in Seq(PacketSet) BY DEF InputTyped
<1>3. /\ ToSet(mailbox) = {p} \cup ToSet(Tail(mailbox)) /\ Tail(mailbox) \in Seq(PacketSet) /\ p \in PacketSet
  BY <1>1, <1>2, SetOfTail
<1>4. a \in Seq(PacketSet) BY <1>2, ConcatProperties
<1> HIDE DEF a
<1>5. b \in Seq(PacketSet) BY <1>2, <1>4, ConcatProperties
<1> HIDE DEF b
<1>6. OnTheWay = b \o mailbox BY DEF OnTheWay, a, b
<1>7. UnreadFacts' BY <1>1 DEF UnreadFacts, Sent
<1>8. Granted' = Granted BY <1>1 DEF Granted
<1>9. CASE Accepts(p) /\ inputq' = Append(inputq, p) /\ pending' = pending
  <2>1. InputTyped' BY <1>1, <1>3, <1>9 DEF InputTyped
  <2>2. ToSet(inputq') = ToSet(inputq) \cup {p} BY <1>2, <1>3, <1>9, SetOfAppend
  <2>3. HeldPackets' = HeldPackets BY <1>1, <1>3, <1>8, <2>2 DEF HeldPackets
  <2>4. OnTheWay' = OnTheWay
    <3> DEFINE r == Tail(mailbox)
    <3>1. OnTheWay' = (a \o Append(inputq, p)) \o r BY <1>1, <1>9 DEF OnTheWay, a
    <3>2. a \o Append(inputq, p) = Append(b, p) BY <1>2, <1>3, <1>4 DEF b
    <3>3. Append(b, p) = b \o <<p>> BY <1>3, <1>5, AppendIsConcat
    <3>4. <<p>> \in Seq(PacketSet) BY <1>3
    <3>5. (b \o <<p>>) \o r = b \o (<<p>> \o r) BY <1>3, <1>5, <3>4, ConcatAssociative
    <3>6. <<p>> \o r = mailbox BY <1>1, <1>2, HeadTailAppend
    <3> QED BY <1>6, <3>1, <3>2, <3>3, <3>5, <3>6
  <2>5. HeldGood(HeldPackets, pending)' BY <1>9, <2>3
  <2>6. childUp' => childUp /\ ~exited' BY <1>1
  <2> QED BY <1>1, <1>7, <2>1, <2>4, <2>5, <2>6, WaySame
<1>10. CASE ~Accepts(p) /\ ReleaseHold("actor", p) /\ inputq' = inputq
  <2>1. InputTyped' BY <1>1, <1>3, <1>10 DEF InputTyped
  <2>2. pending' = pending - p.size BY <1>10 DEF ReleaseHold
  <2>3. p \in Queued BY <1>3 DEF Queued
  <2>4. p \notin ToSet(writing) \cup ToSet(inputq) \cup ToSet(Tail(mailbox)) BY <1>1, MailHeadAlone
  <2>5. p \notin {Head(unread[c]) : c \in Granted} BY <2>3, NotGranted
  <2> HIDE DEF p
  <2>6. {Head(unread[c]) : c \in Granted}' = {Head(unread[c]) : c \in Granted} BY <1>1, <1>8
  <2>7. HeldPackets' = HeldPackets \ {p} /\ p \in HeldPackets
    BY <1>1, <1>3, <1>10, <2>4, <2>5, <2>6 DEF HeldPackets
  <2>8. HeldGood(HeldPackets, pending)'
    <3>1. HeldGood(HeldPackets \ {p}, pending - p.size) BY <2>7, HeldShrinks
    <3> QED BY <2>2, <2>7, <3>1
  <2>9. OnTheWay' = b \o Tail(mailbox) BY <1>1, <1>10 DEF OnTheWay, a, b
  <2>10. SentAll' = SentAll BY <1>1 DEF SentAll, Sent
  <2>11. InLine(OnTheWay, SentAll)'
    <3>1. InLine(b \o Tail(mailbox), SentAll) BY <1>1, <1>2, <1>5, <1>6, LineDrop
    <3> QED BY <2>9, <2>10, <3>1
  <2>12. ASSUME childUp PROVE HasAll(OnTheWay, SentAll, Readonly \cup gone)'
    <3>1. Head(mailbox).client \in Readonly \cup gone BY <1>10, <2>12 DEF Accepts, p
    <3>2. SentAll \in [Clients -> Nat] /\ \A c \in Clients : SentAll[c] <= Len(Script[c]) BY SentFacts
    <3>3. HasAll(b \o mailbox, SentAll, Readonly \cup gone) BY <1>6, <2>12
    <3>4. HasAll(b \o Tail(mailbox), SentAll, Readonly \cup gone) BY <1>1, <1>2, <1>5, <3>1, <3>2, <3>3, AllDrop
    <3> QED BY <1>1, <2>9, <2>10, <3>4
  <2> QED BY <1>1, <1>7, <2>1, <2>8, <2>11, <2>12
<1> QED BY <1>9, <1>10 DEF OnData

LEMMA BeginWriteKeeps == ASSUME InputInv, BeginWrite PROVE InputInv'
<1> USE DEF InputInv
<1> DEFINE p == Head(inputq)
           r == Tail(inputq)
<1>1. /\ inputq # <<>> /\ writing = <<>> /\ writing' = <<p>> /\ inputq' = r /\ unread' = unread /\ reader' = reader
      /\ mailbox' = mailbox /\ pending' = pending /\ gone' = gone /\ childUp' = childUp /\ exited' = exited
      /\ taken' = taken BY DEF BeginWrite
<1>2. /\ taken \in Seq(PacketSet) /\ inputq \in Seq(PacketSet) /\ mailbox \in Seq(PacketSet)
  BY DEF InputTyped
<1>3. ToSet(inputq) = {p} \cup ToSet(r) /\ r \in Seq(PacketSet) /\ p \in PacketSet
  BY <1>1, <1>2, SetOfTail
<1>4. <<p>> \o r = inputq BY <1>1, <1>2, HeadTailAppend
<1> HIDE DEF p, r
<1>5. <<p>> \in Seq(PacketSet) /\ Len(<<p>>) <= 1 BY <1>3
<1>6. InputTyped' BY <1>1, <1>3, <1>5 DEF InputTyped
<1>7. UnreadFacts' BY <1>1 DEF UnreadFacts, Sent
<1>8. Granted' = Granted BY <1>1 DEF Granted
<1>9. HeldPackets' = HeldPackets BY <1>1, <1>3, <1>8, SetOfOne DEF HeldPackets
<1>10. OnTheWay' = OnTheWay
  <2>1. (taken \o <<p>>) \o r = taken \o (<<p>> \o r) BY SMTT(60), <1>2, <1>3, <1>5, ConcatAssociative
  <2>2. taken \o <<>> = taken BY <1>2, ConcatEmptySeq
  <2> QED BY <1>1, <1>4, <2>1, <2>2 DEF OnTheWay
<1>11. HeldGood(HeldPackets, pending)' BY <1>1, <1>9
<1>12. childUp' => childUp /\ ~exited' BY <1>1
<1> QED BY <1>1, <1>6, <1>7, <1>10, <1>11, <1>12, WaySame

LEMMA EndWriteKeeps == ASSUME InputInv, EndWrite PROVE InputInv'
<1> USE DEF InputInv
<1> DEFINE p == Head(writing)
<1>1. /\ writing # <<>> /\ writing' = <<>> /\ unread' = unread /\ reader' = reader /\ inputq' = inputq
      /\ mailbox' = mailbox /\ gone' = gone /\ childUp' = childUp /\ exited' = exited
      /\ taken' = (IF childUp THEN taken \o writing ELSE taken) /\ pending' = pending - p.size
  BY DEF EndWrite, ReleaseHold
<1>2. /\ taken \in Seq(PacketSet) /\ writing \in Seq(PacketSet) /\ inputq \in Seq(PacketSet)
      /\ mailbox \in Seq(PacketSet) BY DEF InputTyped
<1>3. writing = <<p>> /\ p \in PacketSet /\ p \notin ToSet(inputq) \cup ToSet(mailbox) BY <1>1, WritingAlone
<1>4. ToSet(writing) = {p} /\ ToSet(writing') = {} BY <1>1, <1>3, SetOfOne
<1>5. p \in Queued BY <1>4 DEF Queued
<1>6. p \notin {Head(unread[c]) : c \in Granted} BY <1>5, NotGranted
<1>7. {Head(unread[c]) : c \in Granted}' = {Head(unread[c]) : c \in Granted} BY <1>1 DEF Granted
<1> HIDE DEF p
<1>8. HeldPackets' = HeldPackets \ {p} /\ p \in HeldPackets BY <1>1, <1>3, <1>4, <1>6, <1>7 DEF HeldPackets
<1>9. HeldGood(HeldPackets, pending)'
  <2>1. HeldGood(HeldPackets \ {p}, pending - p.size) BY <1>8, HeldShrinks
  <2> QED BY <1>1, <1>8, <2>1
<1>10. UnreadFacts' BY <1>1 DEF UnreadFacts, Sent
<1>11. taken \o writing \in Seq(PacketSet) /\ <<>> \in Seq(PacketSet) /\ Len(<<>>) <= 1 BY <1>2, ConcatProperties
<1>12. InputTyped' BY <1>1, <1>2, <1>11 DEF InputTyped
<1>13. CASE childUp
  <2>1. (taken \o writing) \o <<>> = taken \o writing BY <1>11, ConcatEmptySeq
  <2>2. OnTheWay' = OnTheWay BY <1>1, <1>13, <2>1 DEF OnTheWay
  <2>3. childUp' => childUp /\ ~exited' BY <1>1
  <2> QED BY <1>1, <1>9, <1>10, <1>12, <2>2, <2>3, WaySame
<1>14. CASE ~childUp
  <2> DEFINE rest == inputq \o mailbox
             b == writing \o rest
  <2>1. rest \in Seq(PacketSet) BY <1>2, ConcatProperties
  <2>2. OnTheWay = taken \o b
    <3> DEFINE a == taken \o writing
    <3>0. a \in Seq(PacketSet) BY <1>11
    <3>1. OnTheWay = (a \o inputq) \o mailbox BY DEF OnTheWay
    <3>2. a \o rest = taken \o b
      <4> HIDE DEF rest
      <4> QED BY SMTT(60), <1>2, <2>1, ConcatAssociative
    <3> HIDE DEF a
    <3>3. (a \o inputq) \o mailbox = a \o (inputq \o mailbox) BY SMTT(60), <1>2, <3>0, ConcatAssociative
    <3>4. OnTheWay = a \o rest BY <3>1, <3>3
    <3> HIDE DEF rest, b
    <3> QED BY <3>2, <3>4
  <2>3. OnTheWay' = taken \o rest
    <3>1. taken \o <<>> = taken BY <1>2, ConcatEmptySeq
    <3>2. OnTheWay' = (taken \o inputq) \o mailbox BY <1>1, <1>14, <3>1 DEF OnTheWay
    <3> QED BY SMTT(60), <1>2, <3>2, ConcatAssociative
  <2> HIDE DEF rest
  <2>4. b \in Seq(PacketSet) BY <1>2, <2>1, ConcatProperties
  <2>5. Tail(b) = rest /\ b # <<>>
    <3>1. /\ <<p>> \in Seq(PacketSet) /\ Len(<<p>>) = 1 /\ Len(rest) \in Nat BY <1>3, <2>1
    <3>2. /\ Len(b) = 1 + Len(rest)
          /\ \A i \in 1..(1 + Len(rest)) : b[i] = IF i <= 1 THEN <<p>>[i] ELSE rest[i - 1]
      BY <1>3, <2>1, <3>1, ConcatProperties
    <3>3. b # <<>> BY <2>4, <3>1, <3>2
    <3> HIDE DEF b
    <3>4. /\ Tail(b) \in Seq(PacketSet) /\ Len(Tail(b)) = Len(b) - 1
          /\ \A i \in 1..Len(Tail(b)) : Tail(b)[i] = b[i + 1] BY <2>4, <3>3, HeadTailProperties
    <3>5. Len(Tail(b)) = Len(rest) BY <3>1, <3>2, <3>4
    <3>6. \A i \in 1..Len(Tail(b)) : Tail(b)[i] = rest[i]
      <4> SUFFICES ASSUME NEW i \in 1..Len(Tail(b)) PROVE Tail(b)[i] = rest[i] OBVIOUS
      <4>1. i + 1 \in 1..(1 + Len(rest)) /\ ~(i + 1 <= 1) /\ i + 1 - 1 = i BY <3>1, <3>5
      <4> QED BY <3>2, <3>4, <4>1
    <3> QED BY <2>1, <3>3, <3>4, <3>5, <3>6, SeqEqual
  <2> HIDE DEF b
  <2>6. InLine(taken \o Tail(b), SentAll) BY <1>2, <2>2, <2>4, <2>5, LineDrop
  <2>7. SentAll' = SentAll BY <1>1 DEF SentAll, Sent
  <2>8. InLine(OnTheWay, SentAll)' BY <2>3, <2>5, <2>6, <2>7
  <2> QED BY <1>1, <1>9, <1>10, <1>12, <1>14, <2>8
<1> QED BY <1>13, <1>14

LEMMA InputSteps == ASSUME InputInv, InputNext PROVE InputInv'
BY HoldKeeps, SendPacketKeeps, NotifyAllKeeps, OnDataKeeps, WorldKeepsInput, BeginWriteKeeps, EndWriteKeeps
   DEF InputNext, Threads

LEMMA InputStutters == ASSUME InputInv, UNCHANGED invars PROVE InputInv'
BY NothingMoves DEF InputInv, InputTyped, invars

LEMMA InputSays == ASSUME InputInv PROVE BudgetBoundsInput /\ NothingDroppedOrReordered
<1> USE DEF InputInv
<1>1. BudgetBoundsInput BY DEF HeldGood, HeldBytes, BudgetBoundsInput
<1>2. ASSUME NEW c \in Clients \ (Readonly \cup gone), childUp
      PROVE  LET mine == {i \in DOMAIN OnTheWay : OnTheWay[i].client = c} IN
               /\ unread[c] = SubSeq(Packets(c), Sent(c) + 1, Len(Script[c]))
               /\ {OnTheWay[i] : i \in mine} = {Packets(c)[j] : j \in 1..Sent(c)}
               /\ \A i, j \in mine : i < j => OnTheWay[i].at < OnTheWay[j].at
  <2> DEFINE mine == {i \in DOMAIN OnTheWay : OnTheWay[i].client = c}
             t == Len(Script[c])
             l == Len(unread[c])
             s == SubSeq(Packets(c), Sent(c) + 1, t)
  <2>1. OnTheWay \in Seq(PacketSet) BY WayPlaces
  <2>2. DOMAIN OnTheWay = 1..Len(OnTheWay) BY <2>1
  <2>3. /\ unread[c] \in Seq(PacketSet) /\ t \in Nat /\ l \in Nat /\ l <= t /\ SentAll[c] = Sent(c)
        /\ Sent(c) = t - l BY SentFacts DEF InputTyped, UnreadFacts, Sent
  <2>4. \A k \in 1..t : Packets(c)[k] \in PacketSet BY PacketsAre
  <2>5. Packets(c) \in Seq(PacketSet) /\ Len(Packets(c)) = t
    <3>1. Packets(c) \in [1..t -> PacketSet] BY <2>4 DEF Packets
    <3> QED BY <2>3, <3>1
  <2>6. s \in Seq(PacketSet) /\ Len(s) = l /\ \A i \in 1..l : s[i] = Packets(c)[Sent(c) + i]
    <3> DEFINE e == Sent(c) + 1
    <3> HIDE DEF t, l
    <3>1. e \in 1..(t + 1) /\ e \in Int /\ t \in Int /\ (l = 0 => e > t) /\ (l # 0 => e <= t) /\ t - e + 1 = l
      BY <2>3
    <3>2. \A i \in 1..l : e + i - 1 = Sent(c) + i /\ e + i - 1 \in 1..t BY <2>3
    <3> HIDE DEF e
    <3>3. /\ SubSeq(Packets(c), e, t) \in Seq(PacketSet)
          /\ Len(SubSeq(Packets(c), e, t)) = l
          /\ \A i \in 1..l : SubSeq(Packets(c), e, t)[i] = Packets(c)[e + i - 1]
      BY <2>3, <2>5, <3>1, <3>2
    <3> QED BY <3>2, <3>3 DEF e
  <2> HIDE DEF s
  <2>7. unread[c] = s
    <3>1. \A i \in 1..Len(unread[c]) : unread[c][i] = s[i] BY <2>6 DEF UnreadFacts
    <3> QED BY <2>3, <2>6, <3>1, SeqEqual
  <2>8. \A i \in mine : OnTheWay[i] \in {Packets(c)[j] : j \in 1..Sent(c)}
    <3> SUFFICES ASSUME NEW i \in mine PROVE OnTheWay[i] \in {Packets(c)[j] : j \in 1..Sent(c)} OBVIOUS
    <3>1. i \in 1..Len(OnTheWay) /\ OnTheWay[i].client = c /\ OnTheWay[i] \in PacketSet BY <2>1, <2>2
    <3>2. /\ OnTheWay[i].at \in 1..t /\ OnTheWay[i] = Packets(c)[OnTheWay[i].at] BY <3>1, PacketFacts
    <3>3. OnTheWay[i].at <= Sent(c) BY <2>3, <3>1 DEF InLine
    <3>4. OnTheWay[i].at \in 1..Sent(c)
      <4>1. Sent(c) \in Int /\ OnTheWay[i].at \in Nat /\ OnTheWay[i].at >= 1 BY <2>3, <3>1, <3>2, PacketFacts
      <4> QED BY <3>3, <4>1
    <3> QED BY <3>2, <3>4
  <2>9. ASSUME NEW k \in 1..Sent(c) PROVE Packets(c)[k] \in {OnTheWay[i] : i \in mine}
    <3>1. k \in 1..SentAll[c] BY <2>3
    <3>2. PICK i \in 1..Len(OnTheWay) : OnTheWay[i] = Packets(c)[k] BY <1>2, <3>1 DEF HasAll
    <3>3. k \in 1..t BY <2>3
    <3>4. Packets(c)[k].client = c BY <3>3, PacketsAre
    <3> QED BY <2>2, <3>2, <3>4
  <2>10. \A i, j \in mine : i < j => OnTheWay[i].at < OnTheWay[j].at BY <2>2 DEF InLine
  <2> HIDE DEF mine
  <2>11. {OnTheWay[i] : i \in mine} = {Packets(c)[j] : j \in 1..Sent(c)} BY <2>8, <2>9
  <2> QED BY <2>7, <2>10, <2>11 DEF s, mine
<1> QED BY <1>1, <1>2 DEF NothingDroppedOrReordered

----------------------------------------------------------------------------
(* The session's run: each component keeps its invariant while it is the *)
(* one looked at. *)

SessionPart ==
  /\ part = "record" => RecordInv
  /\ part = "patch" => PatchInv
  /\ part = "events" => EventsInv
  /\ part = "input" => InputInv
  /\ part = "substrate" => SubstrateInv

LEMMA RecordStutters == ASSUME RecordInv, UNCHANGED recordVars PROVE RecordInv'
<1>1. R!State' = R!State BY DEF R!State, recordVars
<1> QED BY <1>1 DEF RecordInv

LEMMA PatchStutters == ASSUME PatchInv, UNCHANGED patchVars PROVE PatchInv'
<1>1. PatchTyped' /\ PatchLocked' BY DEF PatchInv, PatchTyped, PatchLocked, Holding, patchVars
<1>2. PatchTold' BY DEF PatchInv, PatchTold, Telling, ChangeOf, M!Emits, M!Change, M!Requested, patchVars
<1>3. M!NoPatchIsLost' BY DEF PatchInv, M!NoPatchIsLost, patchVars
<1> QED BY <1>1, <1>2, <1>3 DEF PatchInv

LEMMA EventsStutter == ASSUME EventsInv, UNCHANGED eventsVars PROVE EventsInv'
BY DEF EventsInv, EventsTyped, LogFacts, WriterFacts, RowFacts, ReadFacts, WaitFacts, WaitOver, WaitLost,
       eventsVars

LEMMA SessionBegins == Init => SessionPart
BY RecordBegins, PatchBegins, EventsBegin, InputBegins, SubstrateBegins DEF Init, SessionPart

LEMMA SessionMoves ==
  ASSUME [Next]_vars
  PROVE  /\ part' = part
         /\ part = "record" => R!RecordNext \/ UNCHANGED recordVars
         /\ part = "patch" => M!PatchNext \/ UNCHANGED patchVars
         /\ part = "events" => E!EventsNext \/ UNCHANGED eventsVars
         /\ part = "input" => InputNext \/ UNCHANGED invars
         /\ part = "substrate" => X!SubstrateNext \/ UNCHANGED X!xvars
<1>1. CASE UNCHANGED vars
  BY <1>1 DEF vars, substrateVars, X!xvars, X!childvars, X!termvars, X!threadvars, X!fencevars, X!streamvars,
     X!callvars, X!inputvars
<1>2. CASE Next
  BY <1>2 DEF Next, InputMoves, ClientsMoves, RecordMoves, SubstrateMoves, EventsMoves, PatchMoves
<1> QED BY <1>1, <1>2

LEMMA SessionSteps == ASSUME SessionPart, [Next]_vars PROVE SessionPart'
BY SessionMoves, RecordSteps, RecordStutters, PatchSteps, PatchStutters, EventsSteps, EventsStutter,
   InputSteps, InputStutters, SubstrateSteps, SubstrateStutters
   DEF SessionPart

(* Whatever the child, the clients, the timers, other commands and the *)
(* readers of the log do, and in any order: the record agrees with the *)
(* daemon or a retry is armed, a change of a record is at most one event *)
(* ahead of the log and has the creation lock, readers have passed on what *)
(* they read, the budget counts the input that is held, and the streams of *)
(* the terminal have each byte once, with room for what was read *)
(* (lifecycle.rs, mutate.rs, follow.rs, input_budget.rs, substrate.rs). *)
THEOREM SessionInvariance == Spec => []SessionPart
<1>1. SessionPart /\ [Next]_vars => SessionPart' BY SessionSteps
<1> QED BY <1>1, SessionBegins, PTL DEF Spec

(* The record follows the daemon: clients, exit and startup outcome are on *)
(* record or still to be retried, and a tree stopped at the startup deadline *)
(* is continued or killed (lifecycle.rs, status.rs); every change another *)
(* command makes has its event, and no change is lost to another writer, to *)
(* a launch or to a busy lock (mutate.rs). *)
THEOREM RecordTrue == Spec => []RecordIsTrue
<1>1. SessionPart => RecordIsTrue BY RecordSays, PatchSays DEF SessionPart, RecordIsTrue
<1> QED BY <1>1, SessionInvariance, PTL

(* However the readers of the clients, the actor and the writer interleave, *)
(* and whoever leaves: the daemon holds no more unwritten input than the *)
(* budget, or one packet, and the child of a session gets every packet of a *)
(* writable client that stays, whole and in the order sent (input_budget.rs, *)
(* on_data, write_input). *)
THEOREM InputKept == Spec => []InputIsKept
<1>1. SessionPart => InputIsKept BY InputSays DEF SessionPart, InputIsKept
<1> QED BY <1>1, SessionInvariance, PTL

(* However the threads of the pty interleave, and whatever the child does *)
(* with its terminal: a stream has bytes the child wrote, in order and within *)
(* its room, and before it is told of the end all that was written while the *)
(* reader was not yet slow to believe it; and a signal reaches the child or *)
(* nobody, also when its pid was given to another process (substrate.rs, *)
(* exact.rs). *)
THEOREM OwnChild == Spec => []ChildIsOwn
<1>1. SessionPart => ChildIsOwn BY SubstrateSays DEF SessionPart, ChildIsOwn
<1> QED BY <1>1, SessionInvariance, PTL

(* However the log is truncated, replaced, removed and written again between *)
(* two reads, a line the follower passed was delivered, and a waiter that *)
(* reports the lines as unseen is right (follow.rs, cli/events.rs). *)
THEOREM Delivered == Spec => []EventsAreDelivered
<1>1. SessionPart => EventsAreDelivered BY EventsSay DEF SessionPart, EventsAreDelivered
<1> QED BY <1>1, SessionInvariance, PTL

(* A daemon that lost its name touches neither the record, the side file nor *)
(* the files of its successor, a terminal startup value is replaced only by *)
(* a request that expects it (lifecycle.rs), and a follower that ends on a recorded exit delivered it *)
(* (follow.rs). *)
THEOREM OrderlyEnds == Spec => EndsAreOrderly
<1> DEFINE Orderly ==
      /\ part = "record" => R!SuccessorUntouched /\ R!FirstTerminalStands
      /\ part = "events" => E!ExitIsDelivered
<1>1. ASSUME SessionPart, [Next]_vars PROVE [Orderly]_vars
  <2>1. CASE UNCHANGED vars BY <2>1
  <2>2. CASE Next /\ part = "record"
    <3>1. R!RecordNext BY <2>2 DEF Next, InputMoves, ClientsMoves, RecordMoves, SubstrateMoves,
                                EventsMoves, PatchMoves
    <3> QED BY <1>1, <2>2, <3>1, RecordSteps, KeptSays DEF SessionPart
  <2>3. CASE Next /\ part = "events"
    <3>1. E!EventsNext BY <2>3 DEF Next, InputMoves, ClientsMoves, RecordMoves, SubstrateMoves,
                                EventsMoves, PatchMoves
    <3> QED BY <1>1, <2>3, <3>1, ExitSteps DEF SessionPart
  <2> QED BY <1>1, <2>1, <2>2, <2>3
<1> QED BY <1>1, SessionInvariance, PTL DEF Spec, EndsAreOrderly
=============================================================================
