----------------------- MODULE OperationActorProofs -----------------------
(***************************************************************************)
(* Proofs about the threads of an operation's daemon, for any set of       *)
(* transfer requests and any number of owner inputs, kills and failed      *)
(* writes.                                                                 *)
(***************************************************************************)
EXTENDS OperationActor, FiniteSetTheorems, SequenceTheorems,
        WellFoundedInduction, TLAPS

----------------------------------------------------------------------------
(* The inductive invariant, in layers: each is proved from the ones above. *)

(* What the queues and the record can hold. *)
Ids == TransferIds \cup {None}
Inputs == OwnerCommands \cup {Of("eof")}
EventSet == {Of(k) : k \in Events \ {"transfer"}}
              \cup {For("transfer", t) : t \in TransferIds}
FrameKinds == {"accepted", "decision", "held", "ready", "retirement",
               "transferred", "not-held", "already-decided",
               "wrong-incarnation", "malformed", "rejected"}
FrameSet == [kind : FrameKinds, id : Ids]
Commands == {"publish", "fork", "ready-point", "stop"}
Messages == {"child-exited", "kill", "transferred", "end"}

Types ==
  /\ TypeOK
  /\ socket \in Seq(Inputs) /\ inbox \in Seq(EventSet)
  /\ frames \in Seq(FrameSet)
  /\ cmds \in Seq(Commands) /\ msgs \in Seq(Messages)

(* The actor ends with its events and its channel. *)
EndInv ==
  /\ (stage = "done") <=> (channel = "closed")
  /\ stage = "done" => doing = "events" /\ inbox = <<>>

Queued(K) == \E i \in DOMAIN inbox : inbox[i].kind \in K
Single(K) == \A i, j \in DOMAIN inbox :
               inbox[i].kind \in K /\ inbox[j].kind \in K => i = j
Ordered(c) == \E i \in DOMAIN cmds : cmds[i] = c
OrderedOnce(c) == \A i, j \in DOMAIN cmds : cmds[i] = c /\ cmds[j] = c => i = j

(* What the record says at each stage, and that the gate is opened last. *)
RecordInv ==
  /\ stage = "deciding" => rec.state = "pending" /\ disk.state = "pending"
  /\ doing \in {"committing", "releasing", "finishing"} => stage = "ready"
  /\ doing \in {"releasing", "finishing"} =>
       /\ rec.state = "transferred" /\ disk.state = "transferred"
       /\ rec.by = current /\ disk.by = current
  /\ gate = "released" =>
       disk.state = "transferred" /\ (stage = "done" \/ doing = "finishing")
  /\ proc = "running" => gate = "released"
  /\ rec.held /\ stage # "done" => stage \in {"held", "ready"}

(* The sync is one event, and a withdrawal that came before it is before *)
(* it. *)
Synced == {"synced"}
Enders == {"malformed", "eof"}
Overtaken ==
  \A i \in DOMAIN inbox : inbox[i].kind = "synced" =>
    \E j \in 1..(i-1) : inbox[j].kind \in Withdrawals
SyncInv ==
  /\ syncCmd => ~Queued(Synced) /\ stage \in {"deciding", "done"}
  /\ Queued(Synced) => stage = "deciding"
  /\ Single(Synced)
  /\ ~reading /\ stage = "deciding" => Queued(Enders)
  /\ withdrawnAtSync =>
       \/ stage = "done" /\ disk.state \in {"pending", "cancelled"}
       \/ stage = "deciding" /\ Overtaken

(* An effect is in one place: with the worker's commands, with the worker, *)
(* or reported and not yet read. *)
PublishPlaces == {"asking-publish", "publishing"}
ForkPlaces == {"asking-fork", "forking"}
AskingPlaces == {"asking-publish", "asking-fork", "asking-ready"}
PublishResults == {"published", "publish-failed"}
ForkResults == {"forked", "fork-failed"}
ForkFailed == {"fork-failed"}
CommitPublish == {"commit-publish"}
CommitFork == {"commit-fork"}
ReadyPoints == {"ready-point"}
WorkerKinds == {"commit-publish", "commit-fork", "published", "publish-failed",
                "forked", "fork-failed", "ready-point"}

PublishInv ==
  /\ Ordered("publish") => worker \notin PublishPlaces /\ ~Queued(PublishResults)
  /\ worker \in PublishPlaces => ~Queued(PublishResults)
  /\ OrderedOnce("publish") /\ Single(PublishResults)
  /\ tickets["publish"] = "none" =>
       ~Ordered("publish") /\ worker \notin PublishPlaces /\ ~Queued(PublishResults)
  /\ Ordered("publish") \/ worker \in PublishPlaces \/ Queued(PublishResults)
       => tickets["fork"] = "none"
ForkInv ==
  /\ Ordered("fork") => worker \notin ForkPlaces /\ ~Queued(ForkResults)
  /\ worker \in ForkPlaces => ~Queued(ForkResults)
  /\ OrderedOnce("fork") /\ Single(ForkResults)
  /\ tickets["fork"] = "none" =>
       ~Ordered("fork") /\ worker \notin ForkPlaces /\ ~Queued(ForkResults)
  /\ stage = "deciding" => tickets["publish"] = "none" /\ tickets["fork"] = "none"
RequestInv ==
  /\ Queued(CommitPublish) => worker = "asking-publish" /\ answer = "none"
  /\ Queued(CommitFork) => worker = "asking-fork" /\ answer = "none"
  /\ Queued(ReadyPoints) => worker = "asking-ready" /\ answer = "none"
  /\ Single(CommitPublish) /\ Single(CommitFork) /\ Single(ReadyPoints)
  /\ worker \notin AskingPlaces => answer = "none"
(* An effect happens only under its committed ticket. *)
GrantInv ==
  /\ worker = "publishing" \/ (worker = "asking-publish" /\ answer = "yes")
       => tickets["publish"] = "committed"
  /\ worker = "forking" \/ (worker = "asking-fork" /\ answer = "yes")
       => tickets["fork"] = "committed"
  /\ tickets["publish"] = "committed" \/ row => published
  /\ doing = "unwinding" => ~InFlight(tickets)
(* While the actor decides, it knows the child, or its fork is in flight. *)
ChildInv ==
  Up /\ stage # "done" =>
    /\ Ordered("fork") \/ worker \in ForkPlaces \/ Queued(ForkFailed)
         \/ tickets["fork"] = "none" => proc = "none"
    /\ proc # "none" =>
         hasChild \/ doing = "finishing" \/ tickets["fork"] = "committed"
VerifiedInv ==
  /\ rec.retirement = "verified" => stage = "done"
  /\ disk.retirement = "verified" =>
       /\ stage = "done" /\ ~InFlight(tickets)
       /\ ~row /\ proc \in {"none", "gone"}
TicketInv ==
  PublishInv /\ ForkInv /\ RequestInv /\ GrantInv /\ ChildInv /\ VerifiedInv

(* What the owner was told, and what is left to be answered. *)
FrameInv ==
  /\ stage = "ready" => \E j \in DOMAIN frames : frames[j].kind = "ready"
  /\ \A i \in DOMAIN frames : frames[i].kind = "transferred" =>
       /\ stage = "done" /\ disk.state = "transferred" /\ disk.by = frames[i].id
       /\ \E j \in 1..i : frames[j].kind = "ready"
Naming(s, id) == {i \in DOMAIN s : s[i].id = id}
Count(s, id) == Cardinality(Naming(s, id))
One(b) == IF b THEN 1 ELSE 0
Committing == {"committing", "releasing", "finishing"}
Owed(id) ==
  Count(frames, id) + Count(inbox, id) + Count(socket, id)
    + One(deferred = id) + One(doing \in Committing /\ current = id)
CountInv == \A id \in TransferIds : Owed(id) <= asked[id]

(* Where the child's exit is. *)
Told(c) == \E i \in DOMAIN msgs : msgs[i] = c
ExitInv ==
  bridged /\ Up =>
    \/ exited \/ shutdown # "none" \/ Told("child-exited")
    \/ deferredExit /\ (transferred => Told("transferred"))

Inv ==
  /\ Types /\ EndInv /\ RecordInv /\ SyncInv /\ TicketInv
  /\ FrameInv /\ CountInv /\ ExitInv

----------------------------------------------------------------------------
(* Events, and what reading the socket yields. *)

LEMMA EventFacts ==
  /\ \A e \in EventSet : /\ e.kind \in Events /\ e.id \in Ids
                         /\ e.kind = "transfer" => e.id \in TransferIds
                         /\ e.kind # "transfer" => e.id = None
  /\ \A k \in Events \ {"transfer"} : Of(k) \in EventSet /\ Of(k).kind = k /\ Of(k).id = None
  /\ Inputs \subseteq EventSet
  /\ \A e \in Inputs : e.kind \in {"cancel", "rejected", "malformed", "eof", "transfer"}
<1>1. \A e \in EventSet : /\ e.kind \in Events /\ e.id \in Ids
                          /\ e.kind = "transfer" => e.id \in TransferIds
                          /\ e.kind # "transfer" => e.id = None
  <2> SUFFICES ASSUME NEW e \in EventSet
               PROVE  /\ e.kind \in Events /\ e.id \in Ids
                      /\ e.kind = "transfer" => e.id \in TransferIds
                      /\ e.kind # "transfer" => e.id = None OBVIOUS
  <2>1. CASE \E k \in Events \ {"transfer"} : e = Of(k) BY <2>1 DEF Of, Ids
  <2>2. CASE \E t \in TransferIds : e = For("transfer", t) BY <2>2 DEF For, Ids, Events
  <2> QED BY <2>1, <2>2 DEF EventSet
<1>2. \A k \in Events \ {"transfer"} : Of(k) \in EventSet /\ Of(k).kind = k /\ Of(k).id = None
  BY DEF EventSet, Of
<1>3. Inputs \subseteq EventSet BY DEF Inputs, OwnerCommands, EventSet, Events
<1>4. \A e \in Inputs : e.kind \in {"cancel", "rejected", "malformed", "eof", "transfer"}
  BY DEF Inputs, OwnerCommands, Of, For
<1> QED BY <1>1, <1>2, <1>3, <1>4

(* A set of numbers with a member has a least one. *)
LEMMA Least ==
  ASSUME NEW T \in SUBSET Nat, T # {}
  PROVE  \E x \in T : \A y \in T : x <= y
<1> DEFINE R == OpToRel(<, Nat)
<1>1. \E x \in T : \A y \in T : ~(<<y, x>> \in R) BY WFMin, NatLessThanWellFounded
<1>2. \A x, y \in T : y < x => <<y, x>> \in R BY DEF OpToRel
<1>3. \E x \in T : \A y \in T : ~(y < x)
  <2> HIDE DEF R
  <2> QED BY <1>1, <1>2, Zenon
<1>4. \A x, y \in T : ~(y < x) => x <= y OBVIOUS
<1> QED BY <1>3, <1>4, Zenon

(* What read_available hands on is the beginning of what is queued, up to *)
(* an input that stops it. *)
LEMMA ReadOutIs ==
  ASSUME socket \in Seq(Inputs)
  PROVE  \E n \in 0..Len(socket) :
           /\ ReadOut \in Seq(Inputs) /\ Len(ReadOut) = n
           /\ \A i \in 1..n : ReadOut[i] = socket[i]
           /\ ~reading => n = 0
           /\ reading => \/ n = Len(socket) /\ \A i \in 1..n : ~StopsReading(socket[i])
                         \/ n > 0 /\ StopsReading(socket[n])
<1> DEFINE last == {i \in DOMAIN socket : StopsReading(socket[i])}
           first == CHOOSE i \in last : \A j \in last : i <= j
<1>0. /\ DOMAIN socket = 1..Len(socket) /\ Len(socket) \in Nat
      /\ \A i \in 1..Len(socket) : socket[i] \in Inputs OBVIOUS
<1>1. CASE ~reading
  <2>1. ReadOut = <<>> BY <1>1 DEF ReadOut
  <2>2. 0 \in 0..Len(socket) /\ ReadOut \in Seq(Inputs) /\ Len(ReadOut) = 0 BY <1>0, <2>1
  <2> WITNESS 0 \in 0..Len(socket)
  <2> QED BY <1>1, <2>2
<1>2. CASE reading /\ last = {}
  <2>1. ReadOut = socket BY <1>2 DEF ReadOut
  <2>2. Len(socket) \in 0..Len(socket) /\ \A i \in 1..Len(socket) : ~StopsReading(socket[i])
    BY <1>0, <1>2
  <2> WITNESS Len(socket) \in 0..Len(socket)
  <2> QED BY <1>2, <2>1, <2>2
<1>3. CASE reading /\ last # {}
  <2>1. last \in SUBSET Nat BY <1>0
  <2>2. first \in last BY <1>3, <2>1, Least
  <2>3. ReadOut = SubSeq(socket, 1, first) BY <1>3 DEF ReadOut
  <2> HIDE DEF first
  <2>4. first \in 1..Len(socket) /\ StopsReading(socket[first]) BY <1>0, <2>2
  <2>5. /\ ReadOut \in Seq(Inputs) /\ Len(ReadOut) = first
        /\ \A i \in 1..first : ReadOut[i] = socket[i]
    <3>1. \A i \in 1..first : socket[i] \in Inputs BY <1>0, <2>4
    <3> QED BY <2>3, <2>4, <3>1, SubSeqProperties
  <2> HIDE DEF last
  <2>6. first \in 0..Len(socket) /\ first > 0 BY <1>0, <2>4
  <2> USE <2>6
  <2> WITNESS first \in 0..Len(socket)
  <2> QED BY <1>3, <2>4, <2>5, <2>6, Zenon
<1> QED BY <1>1, <1>2, <1>3

----------------------------------------------------------------------------
(* What a step can do to the actor's events and the worker's commands. *)

LEMMA AppendFacts ==
  ASSUME NEW S, NEW s \in Seq(S), NEW e \in S
  PROVE  /\ Append(s, e) \in Seq(S)
         /\ DOMAIN s = 1..Len(s) /\ DOMAIN Append(s, e) = 1..(Len(s) + 1)
         /\ Len(s) \in Nat /\ Append(s, e)[Len(s) + 1] = e
         /\ \A i \in 1..Len(s) : Append(s, e)[i] = s[i]
OBVIOUS

LEMMA TailFacts ==
  ASSUME NEW S, NEW s \in Seq(S), s # <<>>
  PROVE  /\ Tail(s) \in Seq(S) /\ Head(s) \in S /\ Head(s) = s[1]
         /\ DOMAIN s = 1..Len(s) /\ DOMAIN Tail(s) = 1..(Len(s) - 1)
         /\ Len(s) \in Nat \ {0}
         /\ \A i \in 1..(Len(s) - 1) : Tail(s)[i] = s[i + 1]
OBVIOUS

LEMMA InboxKeeps ==
  ASSUME inbox' = inbox
  PROVE  \A K : (Queued(K)' <=> Queued(K)) /\ (Single(K)' <=> Single(K))
BY DEF Queued, Single

LEMMA InboxClears ==
  ASSUME inbox' = <<>>
  PROVE  \A K : ~Queued(K)' /\ Single(K)'
BY DEF Queued, Single

LEMMA InboxEmpty ==
  ASSUME inbox = <<>>
  PROVE  \A K : ~Queued(K)
BY DEF Queued

LEMMA InboxAdds ==
  ASSUME inbox \in Seq(EventSet), NEW e \in EventSet, inbox' = Append(inbox, e)
  PROVE  /\ inbox' \in Seq(EventSet)
         /\ \A K : /\ Queued(K)' <=> (Queued(K) \/ e.kind \in K)
                   /\ Single(K) /\ (e.kind \notin K \/ ~Queued(K)) => Single(K)'
<1> DEFINE n == Len(inbox)
<1>1. /\ inbox' \in Seq(EventSet)
      /\ DOMAIN inbox = 1..n /\ DOMAIN inbox' = 1..(n + 1)
      /\ n \in Nat /\ inbox'[n + 1] = e
      /\ \A i \in 1..n : inbox'[i] = inbox[i] BY AppendFacts
<1> HIDE DEF n
<1>2. ASSUME NEW K PROVE Queued(K)' <=> (Queued(K) \/ e.kind \in K) BY <1>1 DEF Queued
<1>3. ASSUME NEW K, Single(K), e.kind \notin K \/ ~Queued(K) PROVE Single(K)'
  BY <1>1, <1>3 DEF Queued, Single
<1> QED BY <1>1, <1>2, <1>3

LEMMA InboxTakes ==
  ASSUME inbox \in Seq(EventSet), inbox # <<>>, inbox' = Tail(inbox)
  PROVE  /\ inbox' \in Seq(EventSet) /\ Head(inbox) \in EventSet
         /\ \A K : /\ Head(inbox).kind \in K => Queued(K)
                   /\ Queued(K)' => Queued(K)
                   /\ Single(K) => Single(K)'
                   /\ Head(inbox).kind \in K /\ Single(K) => ~Queued(K)'
                   /\ Head(inbox).kind \notin K => (Queued(K) => Queued(K)')
<1> DEFINE n == Len(inbox)
<1>1. /\ inbox' \in Seq(EventSet) /\ Head(inbox) \in EventSet
      /\ Head(inbox) = inbox[1]
      /\ DOMAIN inbox = 1..n /\ DOMAIN inbox' = 1..(n - 1)
      /\ n \in Nat \ {0}
      /\ \A i \in 1..(n - 1) : inbox'[i] = inbox[i + 1] BY TailFacts
<1> HIDE DEF n
<1>2. ASSUME NEW K, Head(inbox).kind \in K PROVE Queued(K) BY <1>1, <1>2 DEF Queued
<1>3. ASSUME NEW K, Queued(K)' PROVE Queued(K)
  <2>1. PICK i \in 1..(n - 1) : inbox'[i].kind \in K BY <1>1, <1>3 DEF Queued
  <2>2. i + 1 \in 1..n /\ inbox[i + 1].kind \in K BY <1>1, <2>1
  <2> QED BY <1>1, <2>2 DEF Queued
<1>4. ASSUME NEW K, Single(K) PROVE Single(K)'
  <2> SUFFICES ASSUME NEW i \in 1..(n - 1), NEW j \in 1..(n - 1),
                      inbox'[i].kind \in K, inbox'[j].kind \in K
               PROVE  i = j BY <1>1 DEF Single
  <2>1. /\ i + 1 \in 1..n /\ inbox[i + 1].kind \in K
        /\ j + 1 \in 1..n /\ inbox[j + 1].kind \in K BY <1>1
  <2>2. i + 1 = j + 1 BY <1>1, <1>4, <2>1 DEF Single
  <2> QED BY <2>2
<1>5. ASSUME NEW K, Head(inbox).kind \in K, Single(K), Queued(K)' PROVE FALSE
  <2>1. PICK i \in 1..(n - 1) : inbox'[i].kind \in K BY <1>1, <1>5 DEF Queued
  <2>2. i + 1 \in 1..n /\ inbox[i + 1].kind \in K BY <1>1, <2>1
  <2>3. 1 \in 1..n /\ inbox[1].kind \in K BY <1>1, <1>5
  <2>4. i + 1 = 1 BY <1>1, <1>5, <2>2, <2>3 DEF Single
  <2> QED BY <2>4
<1>6. ASSUME NEW K, Head(inbox).kind \notin K, Queued(K) PROVE Queued(K)'
  <2>1. PICK i \in 1..n : inbox[i].kind \in K BY <1>1, <1>6 DEF Queued
  <2>2. i # 1 BY <1>1, <1>6, <2>1
  <2>3. i - 1 \in 1..(n - 1) /\ (i - 1) + 1 = i BY <1>1, <2>2
  <2>4. inbox'[i - 1].kind \in K BY <1>1, <2>1, <2>3
  <2> QED BY <1>1, <2>3, <2>4 DEF Queued
<1> QED BY <1>1, <1>2, <1>3, <1>4, <1>5, <1>6

LEMMA CmdsKeep ==
  ASSUME cmds' = cmds
  PROVE  \A c : (Ordered(c)' <=> Ordered(c)) /\ (OrderedOnce(c)' <=> OrderedOnce(c))
BY DEF Ordered, OrderedOnce

LEMMA CmdsAdd ==
  ASSUME cmds \in Seq(Commands), NEW d \in Commands, cmds' = Append(cmds, d)
  PROVE  /\ cmds' \in Seq(Commands)
         /\ \A c : /\ Ordered(c)' <=> (Ordered(c) \/ c = d)
                   /\ OrderedOnce(c) /\ (c # d \/ ~Ordered(c)) => OrderedOnce(c)'
<1> DEFINE n == Len(cmds)
<1>1. /\ cmds' \in Seq(Commands)
      /\ DOMAIN cmds = 1..n /\ DOMAIN cmds' = 1..(n + 1)
      /\ n \in Nat /\ cmds'[n + 1] = d
      /\ \A i \in 1..n : cmds'[i] = cmds[i] BY AppendFacts
<1> HIDE DEF n
<1>2. ASSUME NEW c PROVE Ordered(c)' <=> (Ordered(c) \/ c = d) BY <1>1 DEF Ordered
<1>3. ASSUME NEW c, OrderedOnce(c), c # d \/ ~Ordered(c) PROVE OrderedOnce(c)'
  BY <1>1, <1>3 DEF Ordered, OrderedOnce
<1> QED BY <1>1, <1>2, <1>3

LEMMA CmdsTake ==
  ASSUME cmds \in Seq(Commands), cmds # <<>>, cmds' = Tail(cmds)
  PROVE  /\ cmds' \in Seq(Commands) /\ Head(cmds) \in Commands
         /\ \A c : /\ Head(cmds) = c => Ordered(c)
                   /\ Ordered(c)' => Ordered(c)
                   /\ OrderedOnce(c) => OrderedOnce(c)'
                   /\ Head(cmds) = c /\ OrderedOnce(c) => ~Ordered(c)'
<1> DEFINE n == Len(cmds)
<1>1. /\ cmds' \in Seq(Commands) /\ Head(cmds) \in Commands
      /\ Head(cmds) = cmds[1]
      /\ DOMAIN cmds = 1..n /\ DOMAIN cmds' = 1..(n - 1)
      /\ n \in Nat \ {0}
      /\ \A i \in 1..(n - 1) : cmds'[i] = cmds[i + 1] BY TailFacts
<1> HIDE DEF n
<1>2. ASSUME NEW c, Head(cmds) = c PROVE Ordered(c) BY <1>1, <1>2 DEF Ordered
<1>3. ASSUME NEW c, Ordered(c)' PROVE Ordered(c)
  <2>1. PICK i \in 1..(n - 1) : cmds'[i] = c BY <1>1, <1>3 DEF Ordered
  <2>2. i + 1 \in 1..n /\ cmds[i + 1] = c BY <1>1, <2>1
  <2> QED BY <1>1, <2>2 DEF Ordered
<1>4. ASSUME NEW c, OrderedOnce(c) PROVE OrderedOnce(c)'
  <2> SUFFICES ASSUME NEW i \in 1..(n - 1), NEW j \in 1..(n - 1),
                      cmds'[i] = c, cmds'[j] = c
               PROVE  i = j BY <1>1 DEF OrderedOnce
  <2>1. /\ i + 1 \in 1..n /\ cmds[i + 1] = c
        /\ j + 1 \in 1..n /\ cmds[j + 1] = c BY <1>1
  <2>2. i + 1 = j + 1 BY <1>1, <1>4, <2>1 DEF OrderedOnce
  <2> QED BY <2>2
<1>5. ASSUME NEW c, Head(cmds) = c, OrderedOnce(c), Ordered(c)' PROVE FALSE
  <2>1. PICK i \in 1..(n - 1) : cmds'[i] = c BY <1>1, <1>5 DEF Ordered
  <2>2. i + 1 \in 1..n /\ cmds[i + 1] = c BY <1>1, <2>1
  <2>3. 1 \in 1..n /\ cmds[1] = c BY <1>1, <1>5
  <2>4. i + 1 = 1 BY <1>1, <1>5, <2>2, <2>3 DEF OrderedOnce
  <2> QED BY <2>4
<1> QED BY <1>1, <1>2, <1>3, <1>4, <1>5

----------------------------------------------------------------------------
(* Types, and the end of the actor. *)

Base == Types /\ EndInv

Queues ==
  /\ socket \in Seq(Inputs) /\ inbox \in Seq(EventSet)
  /\ frames \in Seq(FrameSet)
  /\ cmds \in Seq(Commands) /\ msgs \in Seq(Messages)
Flags ==
  /\ reading \in BOOLEAN /\ syncCmd \in BOOLEAN /\ withdrawnAtSync \in BOOLEAN
  /\ retiring \in BOOLEAN /\ serving \in BOOLEAN /\ published \in BOOLEAN
  /\ hasChild \in BOOLEAN /\ row \in BOOLEAN /\ ack \in BOOLEAN
  /\ bridged \in BOOLEAN /\ transferred \in BOOLEAN /\ deferredExit \in BOOLEAN
  /\ exited \in BOOLEAN /\ killed \in BOOLEAN
ActorTypes ==
  /\ channel \in {"open", "closed"}
  /\ stage \in {"deciding", "starting", "held", "ready", "done"}
  /\ doing \in {"events", "unwinding", "committing", "releasing", "finishing"}
  /\ rec \in Records /\ disk \in Records
  /\ tickets \in [Kinds -> TicketStates]
  /\ deferred \in Ids /\ current \in Ids
  /\ doing \in {"committing", "releasing", "finishing"} => current # None
OtherTypes ==
  /\ asked \in [TransferIds -> Nat]
  /\ worker \in {"idle", "asking-publish", "asking-fork", "asking-ready", "publishing",
                 "forking", "reading-ack", "serving", "stopped"}
  /\ answer \in {"none", "yes", "no"}
  /\ proc \in {"none", "preparing", "held", "running", "gone"}
  /\ gate \in {"open", "shut", "released"}
  /\ shutdown \in {"none", "kill", "ended"}

LEMMA TypeParts == Types <=> Queues /\ Flags /\ ActorTypes /\ OtherTypes
<1>1. ASSUME inbox \in Seq(EventSet) PROVE \A i \in DOMAIN inbox : inbox[i].kind \in Events
  BY <1>1, EventFacts
<1>2. (\A b \in {retiring, serving, published, hasChild, row, ack, bridged, transferred,
               deferredExit, exited, killed} : b \in BOOLEAN) <=>
      (/\ retiring \in BOOLEAN /\ serving \in BOOLEAN /\ published \in BOOLEAN
       /\ hasChild \in BOOLEAN /\ row \in BOOLEAN /\ ack \in BOOLEAN
       /\ bridged \in BOOLEAN /\ transferred \in BOOLEAN /\ deferredExit \in BOOLEAN
       /\ exited \in BOOLEAN /\ killed \in BOOLEAN) BY ZenonT(60), Zenon
<1> QED BY <1>1, <1>2, Zenon DEF Types, TypeOK, Queues, Flags, ActorTypes, OtherTypes, Ids
LEMMA TypePartsNext == (Queues /\ Flags /\ ActorTypes /\ OtherTypes)' => Types'
BY TypeParts, PTL

----------------------------------------------------------------------------
(* The steps of the actor, by what they do: several handlers end in the *)
(* same few ways. *)

Handled == Up /\ stage # "done" /\ doing = "events" /\ inbox # <<>>
Kind == Head(inbox).kind
EffectResults == {"published", "publish-failed", "forked", "fork-failed"}
Written == {"ok", "lost", "landed"}

(* Frames that name at most one request, x, and that once. *)
ModestFrames == [kind : FrameKinds \ {"ready", "transferred"}, id : Ids]
Names(new, x) ==
  /\ new \in Seq(ModestFrames)
  /\ \A i \in DOMAIN new : new[i].id \in {None, x}
  /\ \A i, j \in DOMAIN new : new[i].id # None /\ new[j].id # None => i = j
Says(x) == \E new \in Seq(ModestFrames) : Names(new, x) /\ frames' = frames \o new

(* An event is answered or ignored, and nothing else changes. *)
Passes ==
  /\ Handled /\ Consume /\ Quiet /\ ActorFrame
  /\ stage = "deciding" => Kind \notin Withdrawals
  /\ Says(Head(inbox).id)

(* The operation is cancelled before the launch. *)
Cancels ==
  /\ Handled /\ stage = "deciding"
  /\ \E out \in Written : Write([rec EXCEPT !.state = "cancelled"], out)
  /\ Says(None) /\ EndActor
  /\ UNCHANGED <<tickets, planVars, answer, row, childVars, transferred>>
  /\ ActorFrame

(* It is launched. *)
Launches ==
  /\ Handled /\ stage = "deciding" /\ Kind = "synced"
  /\ tickets' = [tickets EXCEPT !["publish"] = "issued"]
  /\ \E out \in Written :
       /\ Write([rec EXCEPT !.state = "launched"], out)
       /\ IF out = "ok"
            THEN /\ stage' = "starting" /\ cmds' = Append(cmds, "publish")
                 /\ inbox' = Tail(inbox)
                 /\ UNCHANGED <<doing, channel, msgs>>
            ELSE EndActor
  /\ Says(None)
  /\ UNCHANGED <<planVars, answer, row, childVars, transferred>>
  /\ ActorFrame

(* An effect ends while a retirement waits for it. *)
Concludes ==
  /\ Handled /\ retiring /\ Kind \in EffectResults
  /\ tickets' = Completed /\ doing' = Resumes /\ Consume
  /\ hasChild' = IF Kind = "forked" THEN TRUE ELSE hasChild
  /\ UNCHANGED <<frames, recordVars, retiring, serving, published, deferred,
                 current, answer, row, childVars, transferred>>
  /\ ActorFrame

(* A retirement begins. *)
Settled(t) == [k \in Kinds |-> IF t[k] = "issued" THEN "revoked" ELSE t[k]]
Retires ==
  /\ Handled
  /\ stage = "deciding" => Kind \notin Withdrawals
  /\ tickets' = Settled(IF Kind \in EffectResults THEN Completed ELSE tickets)
  /\ deferred' = None /\ Says(deferred)
  /\ \E out \in Written :
       /\ Write([rec EXCEPT !.retirement = "requested"], out)
       /\ IF out = "ok"
            THEN /\ retiring' = TRUE /\ Consume
                 /\ doing' = IF InFlight(tickets') THEN "events" ELSE "unwinding"
            ELSE EndActor /\ UNCHANGED retiring
  /\ hasChild' = IF Kind = "forked" THEN TRUE ELSE hasChild
  /\ UNCHANGED <<serving, published, current, answer, row, childVars, transferred>>
  /\ ActorFrame

(* The publication is recorded and the fork ordered. *)
OrdersFork ==
  /\ Handled /\ Kind = "published"
  /\ tickets' = [Completed EXCEPT !["fork"] = "issued"]
  /\ \E out \in Written :
       /\ Write(rec, out)
       /\ IF out = "ok"
            THEN /\ cmds' = Append(cmds, "fork") /\ inbox' = Tail(inbox)
                 /\ UNCHANGED <<stage, doing, channel, msgs>>
            ELSE EndActor
  /\ UNCHANGED <<frames, planVars, answer, row, childVars, transferred>>
  /\ ActorFrame

(* The child is recorded. *)
RecordsChild ==
  /\ Handled /\ Kind = "forked"
  /\ tickets' = Completed /\ hasChild' = TRUE
  /\ \E out \in Written :
       /\ Write(rec, out)
       /\ IF out = "ok" THEN Consume /\ UNCHANGED doing ELSE EndActor
  /\ UNCHANGED <<frames, retiring, serving, published, deferred, current,
                 answer, row, childVars, transferred>>
  /\ ActorFrame

(* The child is prepared. *)
Holds ==
  /\ Handled /\ Kind = "prepared" /\ stage = "starting"
  /\ \E out \in Written :
       /\ Write([rec EXCEPT !.held = TRUE], out)
       /\ IF out = "ok"
            THEN /\ stage' = "held" /\ cmds' = Append(cmds, "ready-point")
                 /\ inbox' = Tail(inbox)
                 /\ UNCHANGED <<doing, channel, msgs>>
            ELSE EndActor
  /\ Says(None)
  /\ UNCHANGED <<tickets, planVars, answer, row, childVars, transferred>>
  /\ ActorFrame

(* A transfer is accepted. *)
Accepts ==
  /\ Handled /\ Kind = "transfer" /\ stage # "deciding" /\ rec.held
  /\ deferred = None
  /\ IF stage = "held"
       THEN deferred' = Head(inbox).id /\ UNCHANGED <<current, doing>>
       ELSE current' = Head(inbox).id /\ doing' = "committing" /\ UNCHANGED deferred
  /\ Consume
  /\ UNCHANGED <<frames, recordVars, tickets, retiring, serving, published,
                 hasChild, answer, row, childVars, transferred>>
  /\ ActorFrame

ActorCase ==
  \/ Passes \/ Cancels \/ Launches \/ OnCommit \/ Concludes \/ Retires
  \/ OrdersFork \/ RecordsChild \/ Holds \/ OnReadyPoint \/ Accepts
  \/ CompleteRetirement \/ CommitTransfer \/ ReleaseTransfer \/ FinishTransfer

LEMMA FrameFacts ==
  ASSUME frames \in Seq(FrameSet)
  PROVE  /\ \A x : Names(<<>>, x)
         /\ \A x \in Ids, c \in FrameKinds \ {"ready", "transferred"} :
              /\ Names(<<For(c, x)>>, x) /\ Names(<<Of(c)>>, x)
         /\ frames \o <<>> = frames
         /\ UNCHANGED frames => \A x : Says(x)
         /\ \A new, x : Names(new, x) /\ Send(new) => Says(x)
<1>1. \A x : Names(<<>>, x) BY DEF Names
<1>2. ASSUME NEW x \in Ids, NEW c \in FrameKinds \ {"ready", "transferred"}
      PROVE  /\ Names(<<For(c, x)>>, x) /\ Names(<<Of(c)>>, x)
  BY <1>2 DEF Names, For, Of, ModestFrames, Ids
<1>3. frames \o <<>> = frames BY ConcatEmptySeq
<1>4. <<>> \in Seq(ModestFrames) OBVIOUS
<1>5. UNCHANGED frames => \A x : Says(x) BY <1>1, <1>3, <1>4 DEF Says
<1>6. \A new, x : Names(new, x) /\ Send(new) => Says(x) BY DEF Says, Send, Names
<1> QED BY <1>1, <1>2, <1>3, <1>5, <1>6

(* A frame that names nobody may come before and after. *)
LEMMA NamesConcat ==
  ASSUME NEW x, NEW a, NEW b, Names(a, x), Names(b, x),
         (\A i \in DOMAIN a : a[i].id = None) \/ (\A i \in DOMAIN b : b[i].id = None)
  PROVE  Names(a \o b, x)
<1>1. /\ a \in Seq(ModestFrames) /\ b \in Seq(ModestFrames) BY DEF Names
<1>2. /\ a \o b \in Seq(ModestFrames)
      /\ DOMAIN a = 1..Len(a) /\ DOMAIN b = 1..Len(b)
      /\ Len(a) \in Nat /\ Len(b) \in Nat
      /\ DOMAIN (a \o b) = 1..(Len(a) + Len(b))
      /\ \A i \in 1..(Len(a) + Len(b)) :
           (a \o b)[i] = IF i <= Len(a) THEN a[i] ELSE b[i - Len(a)] BY <1>1, ConcatProperties
<1> DEFINE c == a \o b
           m == Len(a)
           n == Len(b)
<1> HIDE DEF c, m, n
<1>3. /\ c \in Seq(ModestFrames) /\ DOMAIN c = 1..(m + n) /\ m \in Nat /\ n \in Nat
      /\ DOMAIN a = 1..m /\ DOMAIN b = 1..n
      /\ \A i \in 1..(m + n) : /\ i <= m => i \in DOMAIN a /\ c[i] = a[i]
                               /\ ~(i <= m) => i - m \in DOMAIN b /\ c[i] = b[i - m] BY <1>2 DEF c, m, n
<1>4. \A i \in DOMAIN c : c[i].id \in {None, x} BY <1>3 DEF Names
<1>5. \A i, j \in DOMAIN c : c[i].id # None /\ c[j].id # None => i = j
  <2> SUFFICES ASSUME NEW i \in 1..(m + n), NEW j \in 1..(m + n),
                      c[i].id # None, c[j].id # None
               PROVE  i = j BY <1>3
  <2>1. CASE i <= m /\ j <= m BY <1>3, <2>1 DEF Names
  <2>2. CASE ~(i <= m) /\ ~(j <= m)
    <3>1. i - m = j - m BY ZenonT(60), <1>3, <2>2 DEF Names
    <3> QED BY <1>3, <3>1
  <2>3. CASE i <= m /\ ~(j <= m) BY <1>3, <2>3
  <2>4. CASE ~(i <= m) /\ j <= m BY <1>3, <2>4
  <2> QED BY <2>1, <2>2, <2>3, <2>4
<1> QED BY <1>3, <1>4, <1>5 DEF Names, c

Plain == {<<>>} \cup {<<For(c, None)>> : c \in FrameKinds \ {"ready", "transferred"}}

LEMMA RetireFrames ==
  ASSUME NEW x \in Ids, NEW before \in Plain, NEW cause \in Plain,
         NEW lost, lost = IF x = None THEN <<>> ELSE Reject("not-held", x)
  PROVE  Names(before \o lost \o cause, x)
<1>1. \A p \in Plain : Names(p, x) /\ \A i \in DOMAIN p : p[i].id = None
  <2> SUFFICES ASSUME NEW p \in Plain
               PROVE  Names(p, x) /\ \A i \in DOMAIN p : p[i].id = None OBVIOUS
  <2>1. CASE p = <<>> BY <2>1 DEF Names
  <2>2. ASSUME NEW c \in FrameKinds \ {"ready", "transferred"}, p = <<For(c, None)>>
        PROVE  Names(p, x) /\ \A i \in DOMAIN p : p[i].id = None
    BY <2>2 DEF Names, For, ModestFrames, Ids
  <2> QED BY <2>1, <2>2 DEF Plain
<1>2. Names(lost, x)
  <2>1. CASE x = None BY <2>1 DEF Names
  <2>2. CASE x # None BY <2>2 DEF Names, Reject, For, ModestFrames, FrameKinds
  <2> QED BY <2>1, <2>2
<1>3. Names(before \o lost, x) BY <1>1, <1>2, NamesConcat
<1> QED BY <1>1, <1>3, NamesConcat

LEMMA PlainFacts ==
  /\ <<>> \in Plain /\ <<Of("decision")>> \in Plain
  /\ Reject("malformed", None) \in Plain /\ Reject("already-decided", None) \in Plain
BY DEF Plain, Of, For, Reject, FrameKinds

(* What Actor::retire does, for each of the handlers that call it. *)
LEMMA RetireIs ==
  ASSUME Base, NEW before \in Plain, NEW cause \in Plain, NEW t,
         Handled, Retire(before, t, cause), ActorFrame,
         t = IF Kind \in EffectResults THEN Completed ELSE tickets,
         hasChild' = IF Kind = "forked" THEN TRUE ELSE hasChild,
         stage = "deciding" => Kind \notin Withdrawals
  PROVE  Retires
<1> DEFINE lost == IF deferred = None THEN <<>> ELSE Reject("not-held", deferred)
<1>0. deferred \in Ids /\ frames \in Seq(FrameSet) BY TypeParts DEF Base, Queues, ActorTypes
<1>1. /\ tickets' = Settled(t) /\ deferred' = None
      /\ UNCHANGED <<serving, published, current, answer, row, childVars, transferred>>
  BY DEF Retire, Settled
<1>2. PICK out \in Outcomes :
        /\ Write([rec EXCEPT !.retirement = "requested"], out)
        /\ Send(before \o lost \o IF out = "ok" THEN cause ELSE <<>>)
        /\ IF out = "ok"
             THEN /\ retiring' = TRUE
                  /\ doing' = IF InFlight(Settled(t)) THEN "events" ELSE "unwinding"
                  /\ Consume
             ELSE EndActor /\ UNCHANGED retiring BY DEF Retire, Settled
<1>3. out \in Written BY DEF Outcomes, Written
<1>4. (IF out = "ok" THEN cause ELSE <<>>) \in Plain BY PlainFacts
<1>5. Says(deferred)
  <2> DEFINE last == IF out = "ok" THEN cause ELSE <<>>
  <2> HIDE DEF last, lost
  <2>1. Names(before \o lost \o last, deferred) BY <1>0, <1>4, RetireFrames DEF last, lost
  <2>2. Send(before \o lost \o last) BY <1>2 DEF last
  <2> QED BY <1>0, <2>1, <2>2, FrameFacts
<1> QED BY <1>1, <1>2, <1>3, <1>5 DEF Retires

LEMMA ActorCases ==
  ASSUME Base, ActorStep
  PROVE  ActorCase
<1>0. /\ frames \in Seq(FrameSet) /\ inbox \in Seq(EventSet)
      /\ hasChild \in BOOLEAN /\ deferred \in Ids BY TypeParts DEF Base, Queues, ActorTypes, Flags
<1>h. ASSUME NEW K, Handling(K) PROVE Handled /\ Kind \in K BY <1>h DEF Handling, Handled, ActorUp, Kind
<1>w. \A out \in Outcomes : out \in Written BY DEF Outcomes, Written
<1>p. ASSUME NEW before \in Plain, stage = "deciding", Handled, ActorFrame,
             CancelBeforeLaunch(before)
      PROVE  Cancels
  <2>1. PICK out \in Outcomes :
          /\ Write([rec EXCEPT !.state = "cancelled"], out)
          /\ Send(IF out = "ok" THEN before \o <<Of("decision")>> ELSE before)
    BY <1>p DEF CancelBeforeLaunch
  <2>2. Names(before \o <<>> \o <<Of("decision")>>, None) /\ Names(before \o <<>> \o <<>>, None)
    BY PlainFacts, RetireFrames, Zenon DEF Ids
  <2>3. before \o <<>> = before
    <3>1. before \in Seq(ModestFrames)
      <4>1. CASE before = <<>> BY <4>1
      <4>2. ASSUME NEW c \in FrameKinds \ {"ready", "transferred"}, before = <<For(c, None)>>
            PROVE  before \in Seq(ModestFrames) BY <4>2 DEF For, ModestFrames, Ids
      <4> QED BY <4>1, <4>2 DEF Plain
    <3> QED BY <3>1, ConcatEmptySeq
  <2>4. before \o <<>> \o <<Of("decision")>> = before \o <<Of("decision")>> BY <2>3
  <2>5. Says(None) BY <1>0, <2>1, <2>2, <2>3, <2>4, FrameFacts
  <2> QED BY <1>p, <1>w, <2>1, <2>5 DEF Cancels, CancelBeforeLaunch
<1>1. ASSUME Decide PROVE ActorCase
  <2>1. Handled /\ Kind = "synced" /\ stage = "deciding" /\ ActorFrame BY <1>1, <1>h DEF Decide
  <2>2. CASE CancelBeforeLaunch(<<>>) BY <1>p, <2>1, <2>2, PlainFacts DEF ActorCase
  <2>3. ASSUME NEW out \in Outcomes,
          /\ Write([rec EXCEPT !.state = "launched"], out)
          /\ tickets' = [tickets EXCEPT !["publish"] = "issued"]
          /\ IF out = "ok"
               THEN /\ stage' = "starting" /\ cmds' = Append(cmds, "publish")
                    /\ inbox' = Tail(inbox) /\ Send(<<Of("decision")>>)
                    /\ UNCHANGED <<doing, channel, msgs>>
               ELSE EndActor /\ UNCHANGED frames
          /\ UNCHANGED <<planVars, answer, row, childVars, transferred>>
        PROVE  Launches
    <3>1. Says(None) BY <1>0, <2>3, FrameFacts DEF Ids, FrameKinds
    <3> QED BY <1>w, <2>1, <2>3, <3>1 DEF Launches
  <2> QED BY <1>1, <2>2, <2>3 DEF Decide, ActorCase
<1>2. ASSUME OnPublished PROVE ActorCase
  <2>1. Handled /\ Kind = "published" /\ ActorFrame BY <1>2, <1>h DEF OnPublished
  <2>2. CASE retiring /\ tickets' = Completed /\ doing' = Resumes /\ Consume
                 /\ UNCHANGED <<frames, recordVars>>
    BY <1>2, <2>1, <2>2 DEF OnPublished, ActorCase, Concludes, EffectResults, planVars
  <2>3. ASSUME NEW out \in Outcomes,
             /\ tickets' = [Completed EXCEPT !["fork"] = "issued"]
             /\ Write(rec, out)
             /\ IF out = "ok"
                  THEN /\ cmds' = Append(cmds, "fork") /\ inbox' = Tail(inbox)
                       /\ UNCHANGED <<stage, doing, channel, msgs>>
                  ELSE EndActor
             /\ UNCHANGED frames
        PROVE OrdersFork BY <1>2, <1>w, <2>1, <2>3 DEF OnPublished, OrdersFork
  <2> QED BY <1>2, <2>2, <2>3 DEF OnPublished, ActorCase
<1>3. ASSUME OnForked PROVE ActorCase
  <2>1. Handled /\ Kind = "forked" /\ ActorFrame /\ hasChild' = TRUE BY <1>3, <1>h DEF OnForked
  <2>2. CASE /\ retiring
             /\ tickets' = Completed /\ doing' = Resumes
             /\ Consume
             /\ UNCHANGED <<frames, recordVars, retiring, serving, published, deferred,
                       current, answer, row, childVars, transferred>>
    BY <2>1, <2>2 DEF ActorCase, Concludes, EffectResults
  <2>3. CASE Retire(<<>>, Completed, <<>>)
    <3>1. Kind \in EffectResults /\ Kind \notin Withdrawals BY <2>1 DEF EffectResults, Withdrawals
    <3> QED BY <2>1, <2>3, <3>1, PlainFacts, RetireIs DEF ActorCase
  <2>4. CASE
        /\ ~retiring
        /\ tickets' = Completed
        /\ \E out \in Outcomes :
             /\ Write(rec, out)
             /\ IF out = "ok" THEN Consume /\ UNCHANGED doing ELSE EndActor
        /\ UNCHANGED <<frames, retiring, serving, published, deferred, current,
                       answer, row, childVars, transferred>>
    BY <1>w, <2>1, <2>4 DEF ActorCase, RecordsChild
  <2> QED BY <1>3, <2>2, <2>3, <2>4 DEF OnForked
<1>4. ASSUME OnEffectFailed PROVE ActorCase
  <2>1. Handled /\ Kind \in {"publish-failed", "fork-failed"} /\ ActorFrame
    BY <1>4, <1>h DEF OnEffectFailed
  <2>0. Kind \in EffectResults /\ Kind \notin Withdrawals /\ Kind # "forked"
    BY <2>1 DEF EffectResults, Withdrawals
  <2>2. CASE /\ retiring
        /\ tickets' = Completed /\ doing' = Resumes
        /\ Consume
        /\ UNCHANGED <<frames, recordVars, planVars, answer, row, childVars, transferred>>
    BY <2>0, <2>1, <2>2 DEF ActorCase, Concludes, planVars
  <2>3. CASE Retire(<<>>, Completed, <<>>) /\ UNCHANGED hasChild
    BY <2>0, <2>1, <2>3, PlainFacts, RetireIs DEF ActorCase
  <2> QED BY <1>4, <2>2, <2>3 DEF OnEffectFailed
<1>q. ASSUME NEW x, Handled, Consume, Quiet, ActorFrame, UNCHANGED frames,
             stage = "deciding" => Kind \notin Withdrawals
      PROVE  ActorCase BY <1>0, <1>q, FrameFacts DEF ActorCase, Passes
<1>5. ASSUME OnAck PROVE ActorCase
  <2>1. Handled /\ Kind \in {"prepared", "child-lost"} /\ ActorFrame BY <1>5, <1>h DEF OnAck
  <2>0. Kind \notin EffectResults /\ Kind \notin Withdrawals /\ Kind # "forked"
    BY <2>1 DEF EffectResults, Withdrawals
  <2>2. CASE Consume /\ Quiet /\ UNCHANGED frames BY <1>q, <2>0, <2>1, <2>2
  <2>3. ASSUME NEW out \in Outcomes, stage = "starting", Kind = "prepared",
               /\ Write([rec EXCEPT !.held = TRUE], out)
               /\ IF out = "ok"
                    THEN /\ stage' = "held" /\ cmds' = Append(cmds, "ready-point")
                         /\ inbox' = Tail(inbox) /\ Send(<<Of("held")>>)
                         /\ UNCHANGED <<doing, channel, msgs>>
                    ELSE EndActor /\ UNCHANGED frames,
               UNCHANGED <<tickets, planVars, answer, row, childVars, transferred>>
        PROVE  Holds
    <3>1. Says(None) BY <1>0, <2>3, FrameFacts DEF Ids, FrameKinds
    <3> QED BY <1>w, <2>1, <2>3, <3>1 DEF Holds
  <2>4. CASE Retire(<<>>, tickets, <<>>) /\ UNCHANGED hasChild
    BY <2>0, <2>1, <2>4, PlainFacts, RetireIs DEF ActorCase
  <2> QED BY <1>5, <2>2, <2>3, <2>4 DEF OnAck, ActorCase, Kind
<1>6. ASSUME OnChildExited PROVE ActorCase
  <2>1. Handled /\ Kind = "child-exited" /\ ActorFrame BY <1>6, <1>h DEF OnChildExited
  <2>0. Kind \notin EffectResults /\ Kind \notin Withdrawals /\ Kind # "forked"
    BY <2>1 DEF EffectResults, Withdrawals
  <2>2. CASE Consume /\ Quiet /\ UNCHANGED frames BY <1>q, <2>0, <2>1, <2>2
  <2>4. CASE Retire(<<>>, tickets, <<>>) /\ UNCHANGED hasChild
    BY <2>0, <2>1, <2>4, PlainFacts, RetireIs DEF ActorCase
  <2> QED BY <1>6, <2>2, <2>4 DEF OnChildExited
<1>7. ASSUME OnShutdown PROVE ActorCase
  <2>1. Handled /\ Kind = "shutdown" /\ ActorFrame BY <1>7, <1>h DEF OnShutdown
  <2>0. Kind \notin EffectResults /\ Kind \notin Withdrawals /\ Kind # "forked"
    BY <2>1 DEF EffectResults, Withdrawals
  <2>2. CASE Consume /\ Quiet /\ UNCHANGED frames BY <1>q, <2>0, <2>1, <2>2
  <2>3. CASE stage = "deciding" /\ CancelBeforeLaunch(<<>>) BY <1>p, <2>1, <2>3, PlainFacts DEF ActorCase
  <2>4. CASE Retire(<<>>, tickets, <<>>) /\ UNCHANGED hasChild
    BY <2>0, <2>1, <2>4, PlainFacts, RetireIs DEF ActorCase
  <2> QED BY <1>7, <2>2, <2>3, <2>4 DEF OnShutdown
<1>r. ASSUME NEW c \in FrameKinds \ {"ready", "transferred"}, NEW x \in {None, Head(inbox).id},
             Handled, Consume, Quiet, ActorFrame, Send(Reject(c, x)),
             stage = "deciding" => Kind \notin Withdrawals
      PROVE  ActorCase
  <2>1. Head(inbox).id \in Ids BY <1>0, <1>r, EventFacts, TailFacts DEF Handled
  <2>2. Names(Reject(c, x), Head(inbox).id) BY <1>0, <2>1, FrameFacts DEF Reject, For, Of
  <2> QED BY <1>0, <1>r, <2>2, FrameFacts DEF ActorCase, Passes
<1>8. ASSUME OnOwnerDeciding PROVE ActorCase
  <2>0. stage = "deciding" /\ ActorFrame BY <1>8 DEF OnOwnerDeciding
  <2>1. CASE Handling({"eof", "cancel"}) /\ CancelBeforeLaunch(<<>>)
    BY <1>h, <1>p, <2>0, <2>1, PlainFacts DEF ActorCase
  <2>2. CASE Handling({"malformed"}) /\ CancelBeforeLaunch(Reject("malformed", None))
    BY <1>h, <1>p, <2>0, <2>2, PlainFacts DEF ActorCase
  <2>3. CASE /\ Handling({"transfer"})
             /\ Send(Reject("not-held", Head(inbox).id))
             /\ Consume /\ Quiet BY <1>h, <1>r, <2>0, <2>3 DEF FrameKinds, Withdrawals
  <2> QED BY <1>8, <2>1, <2>2, <2>3 DEF OnOwnerDeciding
<1>9. ASSUME OnWithdrawal PROVE ActorCase
  <2>1. Handled /\ Kind \in Withdrawals /\ ActorFrame /\ stage # "deciding"
    BY <1>9, <1>h DEF OnWithdrawal
  <2>0. Kind \notin EffectResults /\ Kind # "forked" BY <2>1 DEF EffectResults, Withdrawals
  <2> DEFINE refused == CASE Kind = "malformed" -> Reject("malformed", None)
                          [] Kind = "cancel" /\ retiring -> Reject("already-decided", None)
                          [] OTHER -> <<>>
  <2>2. \/ Send(refused) /\ Consume /\ Quiet
        \/ Retire(refused, tickets, <<Of("decision")>>) /\ UNCHANGED hasChild
    BY <1>9 DEF OnWithdrawal, Kind
  <2>3. refused \in {Reject("malformed", None), Reject("already-decided", None), <<>>}
    BY <2>1 DEF Withdrawals
  <2> HIDE DEF refused
  <2>4. CASE Send(refused) /\ Consume /\ Quiet
    <3>1. CASE refused = <<>> BY <1>0, <1>q, <2>1, <2>4, <3>1, FrameFacts DEF Send
    <3>2. CASE refused = Reject("malformed", None) \/ refused = Reject("already-decided", None)
      BY <1>r, <2>1, <2>4, <3>2 DEF FrameKinds
    <3> QED BY <2>3, <3>1, <3>2
  <2>5. CASE Retire(refused, tickets, <<Of("decision")>>) /\ UNCHANGED hasChild
    BY <2>0, <2>1, <2>3, <2>5, PlainFacts, RetireIs DEF ActorCase
  <2> QED BY <2>2, <2>4, <2>5
<1>10. ASSUME OnTransfer PROVE ActorCase
  <2>1. Handled /\ Kind = "transfer" /\ ActorFrame /\ stage # "deciding" BY <1>10, <1>h DEF OnTransfer
  <2> DEFINE id == Head(inbox).id
  <2>2. CASE /\ TransferRefused(id) # "no"
             /\ Send(Reject(TransferRefused(id), id)) /\ Consume /\ Quiet
    <3>1. TransferRefused(id) \in FrameKinds \ {"ready", "transferred"}
      BY <2>2 DEF TransferRefused, FrameKinds
    <3> QED BY <1>r, <2>1, <2>2, <3>1
  <2>3. CASE TransferRefused(id) = "no"
    <3>1. rec.held /\ deferred = None BY <2>3 DEF TransferRefused
    <3> QED BY <1>10, <2>1, <2>3, <3>1 DEF OnTransfer, ActorCase, Accepts
  <2> QED BY <1>10, <2>2, <2>3 DEF OnTransfer
<1>11. ASSUME OnRejected PROVE ActorCase
  <2>1. Handled /\ Kind = "rejected" /\ ActorFrame BY <1>11, <1>h DEF OnRejected
  <2> QED BY <1>11, <1>r, <2>1 DEF OnRejected, FrameKinds, Withdrawals
<1>12. ASSUME OnCommit \/ OnReadyPoint \/ CompleteRetirement \/ CommitTransfer
              \/ ReleaseTransfer \/ FinishTransfer
       PROVE  ActorCase BY <1>12 DEF ActorCase
<1> QED BY <1>1, <1>2, <1>3, <1>4, <1>5, <1>6, <1>7, <1>8, <1>9, <1>10, <1>11, <1>12
        DEF ActorStep

----------------------------------------------------------------------------
(* Types are kept, one lemma for each kind of step. *)

USE DEF ownerVars, ioVars, outVars, recordVars, stateVars, planVars, workVars,
        childVars, serveVars, killVars

LEMMA WriteTypes ==
  ASSUME rec \in Records, disk \in Records, NEW next \in Records, NEW out, Write(next, out)
  PROVE  rec' \in Records /\ disk' \in Records
BY DEF Write

LEMMA RecordTypes ==
  ASSUME rec \in Records
  PROVE  /\ \A s \in {"cancelled", "launched"} : [rec EXCEPT !.state = s] \in Records
         /\ [rec EXCEPT !.held = TRUE] \in Records
         /\ \A r \in {"requested", "verified", "incomplete"} :
              [rec EXCEPT !.retirement = r] \in Records
         /\ \A x \in Ids : [rec EXCEPT !.state = "transferred", !.by = x] \in Records
BY DEF Records, Ids

LEMMA SendTypes ==
  ASSUME frames \in Seq(FrameSet), NEW new \in Seq(FrameSet), frames' = frames \o new
  PROVE  frames' \in Seq(FrameSet)
BY ConcatProperties

LEMMA SaysTypes ==
  ASSUME frames \in Seq(FrameSet), NEW x, Says(x)
  PROVE  frames' \in Seq(FrameSet)
<1>1. PICK new \in Seq(ModestFrames) : frames' = frames \o new BY DEF Says
<1>2. \A m \in ModestFrames : m \in FrameSet BY DEF ModestFrames, FrameSet
<1>3. new \in Seq(FrameSet) BY <1>2
<1> QED BY <1>1, <1>3, SendTypes

LEMMA EndActorTypes ==
  ASSUME cmds \in Seq(Commands), msgs \in Seq(Messages), EndActor
  PROVE  /\ cmds' \in Seq(Commands) /\ msgs' \in Seq(Messages)
         /\ inbox' = <<>> /\ inbox' \in Seq(EventSet)
         /\ stage' = "done" /\ doing' = "events" /\ channel' = "closed"
         /\ cmds' \in {cmds, Append(cmds, "stop")}
         /\ msgs' \in {msgs, Append(msgs, "end")}
BY SMTT(60) DEF EndActor, Commands, Messages

LEMMA ConsumeTypes ==
  ASSUME inbox \in Seq(EventSet), inbox # <<>>, inbox' = Tail(inbox)
  PROVE  /\ inbox' \in Seq(EventSet) /\ Head(inbox) \in EventSet
         /\ Head(inbox).id \in Ids
         /\ Head(inbox).kind = "transfer" => Head(inbox).id \in TransferIds
BY TailFacts, EventFacts

LEMMA PostTypes ==
  ASSUME inbox \in Seq(EventSet), NEW k \in Events \ {"transfer"}, Post(Of(k))
  PROVE  /\ inbox' \in Seq(EventSet)
         /\ stage = "done" => inbox' = inbox
         /\ stage # "done" => inbox' = Append(inbox, Of(k))
BY EventFacts, AppendFacts DEF Post, ActorUp

LEMMA OwnerSendsBase ==
  ASSUME Base, OwnerSends
  PROVE  Base'
<1>0. Queues /\ Flags /\ ActorTypes /\ OtherTypes /\ EndInv BY TypeParts DEF Base
<1>1. PICK input \in Inputs :
        /\ socket' = Append(socket, input)
        /\ asked' = [t \in TransferIds |-> asked[t] + IF input.id = t THEN 1 ELSE 0]
  BY DEF OwnerSends, Inputs
<1>4. Queues' BY <1>0, <1>1, AppendFacts DEF Queues, OwnerSends
<1>5. OtherTypes' BY <1>0, <1>1 DEF OtherTypes, OwnerSends
<1>6. Flags' BY <1>0 DEF Flags, OwnerSends
<1>7. ActorTypes' BY <1>0 DEF ActorTypes, OwnerSends
<1>8. EndInv' BY <1>0 DEF EndInv, OwnerSends
<1> QED BY <1>4, <1>5, <1>6, <1>7, <1>8, TypePartsNext DEF Base

LEMMA ChildBase ==
  ASSUME Base, ChildPrepares \/ ChildExecs \/ ChildLeaves \/ ChildDies
  PROVE  Base'
<1>0. Queues /\ Flags /\ ActorTypes /\ OtherTypes /\ EndInv BY TypeParts DEF Base
<1>1. ack' \in BOOLEAN BY <1>0, Zenon DEF Flags, ChildPrepares, ChildExecs, ChildLeaves, ChildDies
<1>4. Queues' BY <1>0 DEF Queues, ChildPrepares, ChildExecs, ChildLeaves, ChildDies, ChildOnly
<1>5. OtherTypes' BY <1>0 DEF OtherTypes, ChildPrepares, ChildExecs, ChildLeaves, ChildDies, ChildOnly
<1>6. Flags' BY <1>0, <1>1 DEF Flags, ChildPrepares, ChildExecs, ChildLeaves, ChildDies, ChildOnly
<1>7. ActorTypes' BY <1>0 DEF ActorTypes, ChildPrepares, ChildExecs, ChildLeaves, ChildDies, ChildOnly
<1>8. EndInv' BY <1>0 DEF EndInv, ChildPrepares, ChildExecs, ChildLeaves, ChildDies, ChildOnly
<1> QED BY <1>4, <1>5, <1>6, <1>7, <1>8, TypePartsNext DEF Base

LEMMA BridgeBase ==
  ASSUME Base, BridgeReports
  PROVE  Base'
<1>0. Queues /\ Flags /\ ActorTypes /\ OtherTypes /\ EndInv BY TypeParts DEF Base
<1>4. Queues' BY <1>0, AppendFacts DEF Queues, BridgeReports, Messages
<1>5. OtherTypes' BY <1>0 DEF OtherTypes, BridgeReports
<1>6. Flags' BY <1>0 DEF Flags, BridgeReports
<1>7. ActorTypes' BY <1>0 DEF ActorTypes, BridgeReports
<1>8. EndInv' BY <1>0 DEF EndInv, BridgeReports
<1> QED BY <1>4, <1>5, <1>6, <1>7, <1>8, TypePartsNext DEF Base

LEMMA SignalBase ==
  ASSUME Base, Signal
  PROVE  Base'
<1>0. Queues /\ Flags /\ ActorTypes /\ OtherTypes /\ EndInv BY TypeParts DEF Base
<1>1. "shutdown" \in Events \ {"transfer"} BY DEF Events
<1>2. inbox' \in Seq(EventSet) /\ (stage = "done" => inbox' = inbox)
  BY <1>0, <1>1, PostTypes DEF Signal, Queues, ActorUp
<1>3. msgs' \in Seq(Messages)
  <2>1. msgs' = msgs \/ msgs' = Append(msgs, "kill") BY DEF Signal
  <2>2. "kill" \in Messages BY DEF Messages
  <2>3. msgs \in Seq(Messages) BY <1>0 DEF Queues
  <2> QED BY <2>1, <2>2, <2>3, AppendFacts
<1>4. Queues' BY <1>0, <1>2, <1>3 DEF Queues, Signal
<1>5. OtherTypes' BY <1>0 DEF OtherTypes, Signal
<1>6. Flags' BY <1>0 DEF Flags, Signal
<1>7. ActorTypes' BY <1>0 DEF ActorTypes, Signal
<1>8. EndInv' BY <1>0, <1>2 DEF EndInv, Signal
<1> QED BY <1>4, <1>5, <1>6, <1>7, <1>8, TypePartsNext DEF Base

LEMMA ListenerBase ==
  ASSUME Base, ListenerFails
  PROVE  Base'
<1>0. Queues /\ Flags /\ ActorTypes /\ OtherTypes /\ EndInv BY TypeParts DEF Base
<1>4. Queues' BY <1>0, AppendFacts DEF Queues, ListenerFails, Messages
<1>5. OtherTypes' BY <1>0 DEF OtherTypes, ListenerFails
<1>6. Flags' BY <1>0 DEF Flags, ListenerFails
<1>7. ActorTypes' BY <1>0 DEF ActorTypes, ListenerFails
<1>8. EndInv' BY <1>0 DEF EndInv, ListenerFails
<1> QED BY <1>4, <1>5, <1>6, <1>7, <1>8, TypePartsNext DEF Base

LEMMA IoBase ==
  ASSUME Base, IoReads \/ IoSyncs
  PROVE  Base'
<1>0. Queues /\ Flags /\ ActorTypes /\ OtherTypes /\ EndInv BY TypeParts DEF Base
<1>1. PICK after \in {<<>>, <<Of("synced")>>} : ReadAvailable(after) BY DEF IoReads, IoSyncs
<1>2. after \in Seq(EventSet)
  <2>1. Of("synced") \in EventSet BY EventFacts DEF Events
  <2>2. <<>> \in Seq(EventSet) /\ <<Of("synced")>> \in Seq(EventSet) BY <2>1
  <2> QED BY <2>2
<1>3. ReadOut \in Seq(EventSet) BY <1>0, ReadOutIs, EventFacts DEF Queues
<1>9. /\ inbox' \in Seq(EventSet) /\ socket' \in Seq(Inputs)
      /\ reading' \in BOOLEAN /\ (stage = "done" => inbox' = inbox)
  BY <1>0, <1>1, <1>2, <1>3, ConcatProperties DEF ReadAvailable, Queues, ActorUp
<1>10. syncCmd' \in BOOLEAN /\ withdrawnAtSync' \in BOOLEAN BY <1>0 DEF Flags, IoReads, IoSyncs
<1>4. Queues' BY <1>0, <1>9 DEF Queues, IoReads, IoSyncs, IoOnly
<1>5. OtherTypes' BY <1>0 DEF OtherTypes, IoReads, IoSyncs, IoOnly
<1>11. IoOnly BY DEF IoReads, IoSyncs
<1>6. Flags' BY <1>0, <1>9, <1>10, <1>11 DEF Flags, IoOnly
<1>7. ActorTypes' BY <1>0 DEF ActorTypes, IoReads, IoSyncs, IoOnly
<1>8. EndInv' BY <1>0, <1>9 DEF EndInv, IoReads, IoSyncs, IoOnly
<1> QED BY <1>4, <1>5, <1>6, <1>7, <1>8, TypePartsNext DEF Base

LEMMA TakeCommandBase ==
  ASSUME Base, TakeCommand
  PROVE  Base'
<1>0. Queues /\ Flags /\ ActorTypes /\ OtherTypes /\ EndInv BY TypeParts DEF Base
<1>1. PICK k \in {"ready-point", "publish-failed", "commit-publish", "fork-failed", "commit-fork"} :
        Post(Of(k)) BY DEF TakeCommand
<1>2. inbox' \in Seq(EventSet) /\ (stage = "done" => inbox' = inbox)
  BY <1>0, <1>1, PostTypes DEF Queues, Events
<1>3. cmds' \in Seq(Commands) BY <1>0, TailFacts DEF TakeCommand, Queues
<1>4. Queues' BY <1>0, <1>2, <1>3 DEF Queues, TakeCommand, WorkerOnly
<1>5. OtherTypes' BY <1>0 DEF OtherTypes, TakeCommand, WorkerOnly
<1>6. Flags' BY <1>0 DEF Flags, TakeCommand, WorkerOnly
<1>7. ActorTypes' BY <1>0 DEF ActorTypes, TakeCommand, WorkerOnly
<1>8. EndInv' BY <1>0, <1>2 DEF EndInv, TakeCommand, WorkerOnly
<1> QED BY <1>4, <1>5, <1>6, <1>7, <1>8, TypePartsNext DEF Base

LEMMA TakeAnswerBase ==
  ASSUME Base, TakeAnswer
  PROVE  Base'
<1>0. Queues /\ Flags /\ ActorTypes /\ OtherTypes /\ EndInv BY TypeParts DEF Base
<1>4. Queues' BY <1>0 DEF Queues, TakeAnswer, WorkerOnly
<1>5. OtherTypes' BY <1>0 DEF OtherTypes, TakeAnswer, WorkerOnly
<1>6. Flags' BY <1>0 DEF Flags, TakeAnswer, WorkerOnly
<1>7. ActorTypes' BY <1>0 DEF ActorTypes, TakeAnswer, WorkerOnly
<1>8. EndInv' BY <1>0 DEF EndInv, TakeAnswer, WorkerOnly
<1> QED BY <1>4, <1>5, <1>6, <1>7, <1>8, TypePartsNext DEF Base

LEMMA PublishEffectBase ==
  ASSUME Base, PublishEffect
  PROVE  Base'
<1>0. Queues /\ Flags /\ ActorTypes /\ OtherTypes /\ EndInv BY TypeParts DEF Base
<1>1. PICK k \in {"published", "publish-failed"} : Post(Of(k)) BY DEF PublishEffect
<1>2. inbox' \in Seq(EventSet) /\ (stage = "done" => inbox' = inbox)
  BY <1>0, <1>1, PostTypes DEF Queues, Events
<1>3. row' \in BOOLEAN BY DEF PublishEffect
<1>4. Queues' BY <1>0, <1>2 DEF Queues, PublishEffect, WorkerOnly
<1>5. OtherTypes' BY <1>0 DEF OtherTypes, PublishEffect, WorkerOnly
<1>6. Flags' BY <1>0, <1>3 DEF Flags, PublishEffect, WorkerOnly
<1>7. ActorTypes' BY <1>0 DEF ActorTypes, PublishEffect, WorkerOnly
<1>8. EndInv' BY <1>0, <1>2 DEF EndInv, PublishEffect, WorkerOnly
<1> QED BY <1>4, <1>5, <1>6, <1>7, <1>8, TypePartsNext DEF Base

LEMMA ForkEffectBase ==
  ASSUME Base, ForkEffect
  PROVE  Base'
<1>0. Queues /\ Flags /\ ActorTypes /\ OtherTypes /\ EndInv BY TypeParts DEF Base
<1>1. PICK k \in {"forked", "fork-failed"} : Post(Of(k)) BY DEF ForkEffect
<1>2. inbox' \in Seq(EventSet) /\ (stage = "done" => inbox' = inbox)
  BY <1>0, <1>1, PostTypes DEF Queues, Events
<1>4. Queues' BY <1>0, <1>2 DEF Queues, ForkEffect, WorkerOnly
<1>5. OtherTypes' BY <1>0 DEF OtherTypes, ForkEffect, WorkerOnly
<1>6. Flags' BY <1>0 DEF Flags, ForkEffect, WorkerOnly
<1>7. ActorTypes' BY <1>0 DEF ActorTypes, ForkEffect, WorkerOnly
<1>8. EndInv' BY <1>0, <1>2 DEF EndInv, ForkEffect, WorkerOnly
<1> QED BY <1>4, <1>5, <1>6, <1>7, <1>8, TypePartsNext DEF Base

LEMMA ReadAckBase ==
  ASSUME Base, ReadAck
  PROVE  Base'
<1>0. Queues /\ Flags /\ ActorTypes /\ OtherTypes /\ EndInv BY TypeParts DEF Base
<1>1. PICK k \in {"prepared", "child-lost"} : Post(Of(k)) BY DEF ReadAck
<1>2. inbox' \in Seq(EventSet) /\ (stage = "done" => inbox' = inbox)
  BY <1>0, <1>1, PostTypes DEF Queues, Events
<1>4. Queues' BY <1>0, <1>2 DEF Queues, ReadAck, WorkerOnly
<1>5. OtherTypes' BY <1>0 DEF OtherTypes, ReadAck, WorkerOnly
<1>6. Flags' BY <1>0 DEF Flags, ReadAck, WorkerOnly
<1>7. ActorTypes' BY <1>0 DEF ActorTypes, ReadAck, WorkerOnly
<1>8. EndInv' BY <1>0, <1>2 DEF EndInv, ReadAck, WorkerOnly
<1> QED BY <1>4, <1>5, <1>6, <1>7, <1>8, TypePartsNext DEF Base

LEMMA WorkerStopsBase ==
  ASSUME Base, WorkerStops
  PROVE  Base'
<1>0. Queues /\ Flags /\ ActorTypes /\ OtherTypes /\ EndInv BY TypeParts DEF Base
<1>4. Queues' BY <1>0 DEF Queues, WorkerStops, ProcessEnds, WorkerOnly
<1>5. OtherTypes' BY <1>0 DEF OtherTypes, WorkerStops, ProcessEnds, WorkerOnly
<1>6. Flags' BY <1>0 DEF Flags, WorkerStops, ProcessEnds, WorkerOnly
<1>7. ActorTypes' BY <1>0 DEF ActorTypes, WorkerStops, ProcessEnds, WorkerOnly
<1>8. EndInv' BY <1>0 DEF EndInv, WorkerStops, ProcessEnds, WorkerOnly
<1> QED BY <1>4, <1>5, <1>6, <1>7, <1>8, TypePartsNext DEF Base

LEMMA ServeChildExitedBase ==
  ASSUME Base, ServeChildExited
  PROVE  Base'
<1>0. Queues /\ Flags /\ ActorTypes /\ OtherTypes /\ EndInv BY TypeParts DEF Base
<1>1. inbox' = inbox \/ Post(Of("child-exited")) BY DEF ServeChildExited
<1>2. inbox' \in Seq(EventSet) /\ (stage = "done" => inbox' = inbox)
  BY <1>0, <1>1, PostTypes DEF Queues, Events
<1>3. exited' \in BOOLEAN /\ deferredExit' \in BOOLEAN BY <1>0, Zenon DEF Flags, ServeChildExited
<1>4. Queues' BY <1>0, <1>2, TailFacts DEF Queues, ServeChildExited, Served, ServeOnly
<1>5. OtherTypes' BY <1>0 DEF OtherTypes, ServeChildExited, Served, ServeOnly
<1>6. Flags' BY <1>0, <1>3 DEF Flags, ServeChildExited, Served, ServeOnly
<1>7. ActorTypes' BY <1>0 DEF ActorTypes, ServeChildExited, Served, ServeOnly
<1>8. EndInv' BY <1>0, <1>2 DEF EndInv, ServeChildExited, Served, ServeOnly
<1> QED BY <1>4, <1>5, <1>6, <1>7, <1>8, TypePartsNext DEF Base

LEMMA ServeKillBase ==
  ASSUME Base, ServeKill
  PROVE  Base'
<1>0. Queues /\ Flags /\ ActorTypes /\ OtherTypes /\ EndInv BY TypeParts DEF Base
<1>1. inbox' = inbox \/ Post(Of("shutdown")) BY DEF ServeKill
<1>2. inbox' \in Seq(EventSet) /\ (stage = "done" => inbox' = inbox)
  BY <1>0, <1>1, PostTypes DEF Queues, Events
<1>4. Queues' BY <1>0, <1>2, TailFacts DEF Queues, ServeKill, Served, ServeOnly
<1>5. OtherTypes' BY <1>0 DEF OtherTypes, ServeKill, Served, ServeOnly
<1>6. Flags' BY <1>0 DEF Flags, ServeKill, Served, ServeOnly
<1>7. ActorTypes' BY <1>0 DEF ActorTypes, ServeKill, Served, ServeOnly
<1>8. EndInv' BY <1>0, <1>2 DEF EndInv, ServeKill, Served, ServeOnly
<1> QED BY <1>4, <1>5, <1>6, <1>7, <1>8, TypePartsNext DEF Base

LEMMA ServeTransferredBase ==
  ASSUME Base, ServeTransferred
  PROVE  Base'
<1>0. Queues /\ Flags /\ ActorTypes /\ OtherTypes /\ EndInv BY TypeParts DEF Base
<1>1. exited' \in BOOLEAN BY <1>0, Zenon DEF Flags, ServeTransferred
<1>4. Queues' BY <1>0, TailFacts DEF Queues, ServeTransferred, Served, ServeOnly
<1>5. OtherTypes' BY <1>0 DEF OtherTypes, ServeTransferred, Served, ServeOnly
<1>6. Flags' BY ZenonT(60), <1>0, <1>1 DEF Flags, ServeTransferred, Served, ServeOnly
<1>7. ActorTypes' BY <1>0 DEF ActorTypes, ServeTransferred, Served, ServeOnly
<1>8. EndInv' BY <1>0 DEF EndInv, ServeTransferred, Served, ServeOnly
<1> QED BY <1>4, <1>5, <1>6, <1>7, <1>8, TypePartsNext DEF Base

LEMMA ServeEndBase ==
  ASSUME Base, ServeEnd
  PROVE  Base'
<1>0. Queues /\ Flags /\ ActorTypes /\ OtherTypes /\ EndInv BY TypeParts DEF Base
<1>4. Queues' BY <1>0, TailFacts DEF Queues, ServeEnd, Served, ServeOnly
<1>5. OtherTypes' BY <1>0 DEF OtherTypes, ServeEnd, Served, ServeOnly
<1>6. Flags' BY <1>0 DEF Flags, ServeEnd, Served, ServeOnly
<1>7. ActorTypes' BY <1>0 DEF ActorTypes, ServeEnd, Served, ServeOnly
<1>8. EndInv' BY <1>0 DEF EndInv, ServeEnd, Served, ServeOnly
<1> QED BY <1>4, <1>5, <1>6, <1>7, <1>8, TypePartsNext DEF Base

LEMMA ServeClosesBase ==
  ASSUME Base, ServeCloses
  PROVE  Base'
<1>0. Queues /\ Flags /\ ActorTypes /\ OtherTypes /\ EndInv BY TypeParts DEF Base
<1>4. Queues' BY <1>0 DEF Queues, ServeCloses, ProcessEnds, ServeOnly
<1>5. OtherTypes' BY <1>0 DEF OtherTypes, ServeCloses, ProcessEnds, ServeOnly
<1>6. Flags' BY <1>0 DEF Flags, ServeCloses, ProcessEnds, ServeOnly
<1>7. ActorTypes' BY <1>0 DEF ActorTypes, ServeCloses, ProcessEnds, ServeOnly
<1>8. EndInv' BY <1>0 DEF EndInv, ServeCloses, ProcessEnds, ServeOnly
<1> QED BY <1>4, <1>5, <1>6, <1>7, <1>8, TypePartsNext DEF Base

LEMMA PassesBase ==
  ASSUME Base, Passes
  PROVE  Base'
<1>0. Queues /\ Flags /\ ActorTypes /\ OtherTypes /\ EndInv BY TypeParts DEF Base
<1>1. frames' \in Seq(FrameSet) BY <1>0, SaysTypes DEF Passes, Queues
<1>2. inbox' \in Seq(EventSet) /\ Head(inbox).id \in Ids
  BY <1>0, ConsumeTypes DEF Passes, Consume, Handled, Queues
<1>11. Queues' BY <1>0, <1>1, <1>2
  DEF Queues, Passes, Consume, Quiet, ActorFrame
<1>12. OtherTypes' BY <1>0
  DEF OtherTypes, Passes, Consume, Quiet, ActorFrame
<1>13. Flags' BY <1>0
  DEF Flags, Passes, Consume, Quiet, ActorFrame
<1>14. ActorTypes' BY <1>0
  DEF ActorTypes, Passes, Consume, Quiet, ActorFrame
<1>15. EndInv' BY <1>0
  DEF EndInv, Passes, Consume, Quiet, ActorFrame
<1> QED BY <1>11, <1>12, <1>13, <1>14, <1>15, TypePartsNext DEF Base

LEMMA CancelsBase ==
  ASSUME Base, Cancels
  PROVE  Base'
<1>0. Queues /\ Flags /\ ActorTypes /\ OtherTypes /\ EndInv BY TypeParts DEF Base
<1>1. frames' \in Seq(FrameSet) BY <1>0, SaysTypes DEF Cancels, Queues
<1>2. /\ cmds' \in Seq(Commands) /\ msgs' \in Seq(Messages) /\ inbox' = <<>>
      /\ stage' = "done" /\ doing' = "events" /\ channel' = "closed"
  BY <1>0, EndActorTypes DEF Cancels, Queues
<1>3. rec' \in Records /\ disk' \in Records BY <1>0, RecordTypes, WriteTypes DEF Cancels, ActorTypes
<1>11. Queues' BY <1>0, <1>1, <1>2
  DEF Queues, Cancels, ActorFrame
<1>12. OtherTypes' BY <1>0
  DEF OtherTypes, Cancels, ActorFrame
<1>13. Flags' BY <1>0
  DEF Flags, Cancels, ActorFrame
<1>14. ActorTypes' BY <1>0, <1>2, <1>3
  DEF ActorTypes, Cancels, ActorFrame
<1>15. EndInv' BY <1>0, <1>2
  DEF EndInv, Cancels, ActorFrame
<1> QED BY <1>11, <1>12, <1>13, <1>14, <1>15, TypePartsNext DEF Base

LEMMA LaunchesBase ==
  ASSUME Base, Launches
  PROVE  Base'
<1>0. Queues /\ Flags /\ ActorTypes /\ OtherTypes /\ EndInv BY TypeParts DEF Base
<1>1. frames' \in Seq(FrameSet) BY <1>0, SaysTypes DEF Launches, Queues
<1>2. EndActor \/ (stage' = "starting" /\ cmds' = Append(cmds, "publish")
        /\ inbox' = Tail(inbox) /\ UNCHANGED <<doing, channel, msgs>>) BY <1>0 DEF Launches, Consume, Handled
<1>4. /\ cmds' \in Seq(Commands) /\ msgs' \in Seq(Messages) /\ inbox' \in Seq(EventSet)
      /\ \/ stage' = "done" /\ doing' = "events" /\ channel' = "closed" /\ inbox' = <<>>
         \/ stage' = "starting" /\ UNCHANGED <<doing, channel>>
  <2>1. CASE EndActor BY <1>0, <2>1, EndActorTypes DEF Queues
  <2>2. CASE stage' = "starting" /\ cmds' = Append(cmds, "publish")
        /\ inbox' = Tail(inbox) /\ UNCHANGED <<doing, channel, msgs>>
    BY <1>0, <2>2, ConsumeTypes, AppendFacts DEF Queues, Handled, Launches, Commands
  <2> QED BY <1>2, <2>1, <2>2
<1>3. rec' \in Records /\ disk' \in Records BY <1>0, RecordTypes, WriteTypes DEF Launches, ActorTypes
<1>11. Queues' BY <1>0, <1>4, <1>1
  DEF Queues, Launches, ActorFrame
<1>12. OtherTypes' BY <1>0
  DEF OtherTypes, Launches, ActorFrame
<1>13. Flags' BY <1>0
  DEF Flags, Launches, ActorFrame
<1>5. tickets' \in [Kinds -> TicketStates] BY <1>0 DEF Launches, ActorTypes, Kinds, TicketStates
<1>14. ActorTypes' BY <1>0, <1>3, <1>4, <1>5
  DEF ActorTypes, Launches, ActorFrame
<1>15. EndInv' BY <1>0, <1>4
  DEF EndInv, Launches, ActorFrame, Handled
<1> QED BY <1>11, <1>12, <1>13, <1>14, <1>15, TypePartsNext DEF Base

LEMMA OnCommitBase ==
  ASSUME Base, OnCommit
  PROVE  Base'
<1>0. Queues /\ Flags /\ ActorTypes /\ OtherTypes /\ EndInv BY TypeParts DEF Base
<1>2. inbox' \in Seq(EventSet) BY <1>0, ConsumeTypes DEF OnCommit, Consume, Handling, Queues
<1>3. published' \in BOOLEAN BY <1>0 DEF OnCommit, Flags
<1>11. Queues' BY <1>0, <1>2
  DEF Queues, OnCommit, Consume, Ticket, Handling, ActorFrame
<1>12. OtherTypes' BY <1>0
  DEF OtherTypes, OnCommit, Consume, Ticket, Handling, ActorFrame
<1>13. Flags' BY <1>0, <1>3
  DEF Flags, OnCommit, Consume, Ticket, Handling, ActorFrame
<1>14. ActorTypes' BY <1>0
  DEF ActorTypes, OnCommit, Consume, Ticket, Handling, ActorFrame, Kinds, TicketStates
<1>15. EndInv' BY <1>0
  DEF EndInv, OnCommit, Consume, Ticket, Handling, ActorFrame
<1> QED BY <1>11, <1>12, <1>13, <1>14, <1>15, TypePartsNext DEF Base

LEMMA ConcludesBase ==
  ASSUME Base, Concludes
  PROVE  Base'
<1>0. Queues /\ Flags /\ ActorTypes /\ OtherTypes /\ EndInv BY TypeParts DEF Base
<1>2. inbox' \in Seq(EventSet) /\ Head(inbox).id \in Ids
  BY <1>0, ConsumeTypes DEF Concludes, Consume, Handled, Queues
<1>3. doing' \in {"events", "unwinding"} /\ tickets' \in [Kinds -> TicketStates]
  BY <1>0 DEF Concludes, Completed, Resumes, ActorTypes, Kinds, TicketStates, Ticket
<1>4. hasChild' \in BOOLEAN BY <1>0, Zenon DEF Concludes, Flags
<1>11. Queues' BY <1>0, <1>2
  DEF Queues, Concludes, Consume, ActorFrame
<1>12. OtherTypes' BY <1>0
  DEF OtherTypes, Concludes, Consume, ActorFrame
<1>13. Flags' BY ZenonT(60), <1>0, <1>4
  DEF Flags, Concludes, Consume, ActorFrame
<1>14. ActorTypes' BY <1>0, <1>3
  DEF ActorTypes, Concludes, Consume, ActorFrame
<1>15. EndInv' BY <1>0
  DEF EndInv, Concludes, Consume, ActorFrame, Handled
<1> QED BY <1>11, <1>12, <1>13, <1>14, <1>15, TypePartsNext DEF Base

LEMMA RetiresBase ==
  ASSUME Base, Retires
  PROVE  Base'
<1>0. Queues /\ Flags /\ ActorTypes /\ OtherTypes /\ EndInv BY TypeParts DEF Base
<1>1. frames' \in Seq(FrameSet) BY <1>0, SaysTypes DEF Retires, Queues
<1>2. EndActor \/ (/\ inbox' = Tail(inbox) /\ UNCHANGED <<stage, channel, cmds, msgs>>
        /\ doing' \in {"events", "unwinding"}) BY <1>0 DEF Retires, Consume, Handled
<1>4. /\ cmds' \in Seq(Commands) /\ msgs' \in Seq(Messages) /\ inbox' \in Seq(EventSet)
      /\ \/ stage' = "done" /\ doing' = "events" /\ channel' = "closed" /\ inbox' = <<>>
         \/ UNCHANGED <<stage, channel>> /\ doing' \in {"events", "unwinding"}
  <2>1. CASE EndActor BY <1>0, <2>1, EndActorTypes DEF Queues
  <2>2. CASE /\ inbox' = Tail(inbox) /\ UNCHANGED <<stage, channel, cmds, msgs>>
        /\ doing' \in {"events", "unwinding"}
    BY <1>0, <2>2, ConsumeTypes, AppendFacts DEF Queues, Handled, Retires
  <2> QED BY <1>2, <2>1, <2>2
<1>3. rec' \in Records /\ disk' \in Records BY <1>0, RecordTypes, WriteTypes DEF Retires, ActorTypes
<1>5. tickets' \in [Kinds -> TicketStates]
  BY <1>0 DEF Retires, Settled, Completed, ActorTypes, Kinds, TicketStates, Ticket
<1>6. hasChild' \in BOOLEAN /\ retiring' \in BOOLEAN BY <1>0, Zenon DEF Retires, Flags
<1>11. Queues' BY <1>0, <1>4, <1>1
  DEF Queues, Retires, ActorFrame
<1>12. OtherTypes' BY <1>0
  DEF OtherTypes, Retires, ActorFrame
<1>13. Flags' BY ZenonT(60), <1>0, <1>6
  DEF Flags, Retires, ActorFrame
<1>14. ActorTypes' BY <1>0, <1>3, <1>4, <1>5
  DEF ActorTypes, Retires, ActorFrame, Ids
<1>15. EndInv' BY <1>0, <1>4
  DEF EndInv, Retires, ActorFrame, Handled
<1> QED BY <1>11, <1>12, <1>13, <1>14, <1>15, TypePartsNext DEF Base

LEMMA OrdersForkBase ==
  ASSUME Base, OrdersFork
  PROVE  Base'
<1>0. Queues /\ Flags /\ ActorTypes /\ OtherTypes /\ EndInv BY TypeParts DEF Base
<1>2. EndActor \/ (cmds' = Append(cmds, "fork") /\ inbox' = Tail(inbox)
        /\ UNCHANGED <<stage, doing, channel, msgs>>) BY <1>0 DEF OrdersFork, Consume, Handled
<1>4. /\ cmds' \in Seq(Commands) /\ msgs' \in Seq(Messages) /\ inbox' \in Seq(EventSet)
      /\ \/ stage' = "done" /\ doing' = "events" /\ channel' = "closed" /\ inbox' = <<>>
         \/ UNCHANGED <<stage, doing, channel>>
  <2>1. CASE EndActor BY <1>0, <2>1, EndActorTypes DEF Queues
  <2>2. CASE cmds' = Append(cmds, "fork") /\ inbox' = Tail(inbox)
        /\ UNCHANGED <<stage, doing, channel, msgs>>
    BY <1>0, <2>2, ConsumeTypes, AppendFacts DEF Queues, Handled, OrdersFork, Commands
  <2> QED BY <1>2, <2>1, <2>2
<1>3. rec' \in Records /\ disk' \in Records BY <1>0, RecordTypes, WriteTypes DEF OrdersFork, ActorTypes
<1>5. tickets' \in [Kinds -> TicketStates]
  BY <1>0 DEF OrdersFork, Completed, ActorTypes, Kinds, TicketStates, Ticket
<1>11. Queues' BY <1>0, <1>4
  DEF Queues, OrdersFork, ActorFrame
<1>12. OtherTypes' BY <1>0
  DEF OtherTypes, OrdersFork, ActorFrame
<1>13. Flags' BY <1>0
  DEF Flags, OrdersFork, ActorFrame
<1>14. ActorTypes' BY <1>0, <1>3, <1>4, <1>5
  DEF ActorTypes, OrdersFork, ActorFrame
<1>15. EndInv' BY <1>0, <1>4
  DEF EndInv, OrdersFork, ActorFrame, Handled
<1> QED BY <1>11, <1>12, <1>13, <1>14, <1>15, TypePartsNext DEF Base

LEMMA RecordsChildBase ==
  ASSUME Base, RecordsChild
  PROVE  Base'
<1>0. Queues /\ Flags /\ ActorTypes /\ OtherTypes /\ EndInv BY TypeParts DEF Base
<1>2. EndActor \/ (inbox' = Tail(inbox) /\ UNCHANGED <<stage, doing, channel, cmds, msgs>>) BY <1>0 DEF RecordsChild, Consume, Handled
<1>4. /\ cmds' \in Seq(Commands) /\ msgs' \in Seq(Messages) /\ inbox' \in Seq(EventSet)
      /\ \/ stage' = "done" /\ doing' = "events" /\ channel' = "closed" /\ inbox' = <<>>
         \/ UNCHANGED <<stage, doing, channel>>
  <2>1. CASE EndActor BY <1>0, <2>1, EndActorTypes DEF Queues
  <2>2. CASE inbox' = Tail(inbox) /\ UNCHANGED <<stage, doing, channel, cmds, msgs>>
    BY <1>0, <2>2, ConsumeTypes, AppendFacts DEF Queues, Handled, RecordsChild
  <2> QED BY <1>2, <2>1, <2>2
<1>3. rec' \in Records /\ disk' \in Records BY <1>0, RecordTypes, WriteTypes DEF RecordsChild, ActorTypes
<1>5. tickets' \in [Kinds -> TicketStates]
  BY <1>0 DEF RecordsChild, Completed, ActorTypes, Kinds, TicketStates, Ticket
<1>11. Queues' BY <1>0, <1>4
  DEF Queues, RecordsChild, ActorFrame
<1>12. OtherTypes' BY <1>0
  DEF OtherTypes, RecordsChild, ActorFrame
<1>13. Flags' BY <1>0
  DEF Flags, RecordsChild, ActorFrame
<1>14. ActorTypes' BY <1>0, <1>3, <1>4, <1>5
  DEF ActorTypes, RecordsChild, ActorFrame
<1>15. EndInv' BY <1>0, <1>4
  DEF EndInv, RecordsChild, ActorFrame, Handled
<1> QED BY <1>11, <1>12, <1>13, <1>14, <1>15, TypePartsNext DEF Base

LEMMA HoldsBase ==
  ASSUME Base, Holds
  PROVE  Base'
<1>0. Queues /\ Flags /\ ActorTypes /\ OtherTypes /\ EndInv BY TypeParts DEF Base
<1>1. frames' \in Seq(FrameSet) BY <1>0, SaysTypes DEF Holds, Queues
<1>2. EndActor \/ (stage' = "held" /\ cmds' = Append(cmds, "ready-point")
        /\ inbox' = Tail(inbox) /\ UNCHANGED <<doing, channel, msgs>>) BY <1>0 DEF Holds, Consume, Handled
<1>4. /\ cmds' \in Seq(Commands) /\ msgs' \in Seq(Messages) /\ inbox' \in Seq(EventSet)
      /\ \/ stage' = "done" /\ doing' = "events" /\ channel' = "closed" /\ inbox' = <<>>
         \/ stage' = "held" /\ UNCHANGED <<doing, channel>>
  <2>1. CASE EndActor BY <1>0, <2>1, EndActorTypes DEF Queues
  <2>2. CASE stage' = "held" /\ cmds' = Append(cmds, "ready-point")
        /\ inbox' = Tail(inbox) /\ UNCHANGED <<doing, channel, msgs>>
    BY <1>0, <2>2, ConsumeTypes, AppendFacts DEF Queues, Handled, Holds, Commands
  <2> QED BY <1>2, <2>1, <2>2
<1>3. rec' \in Records /\ disk' \in Records BY <1>0, RecordTypes, WriteTypes DEF Holds, ActorTypes
<1>11. Queues' BY <1>0, <1>4, <1>1
  DEF Queues, Holds, ActorFrame
<1>12. OtherTypes' BY <1>0
  DEF OtherTypes, Holds, ActorFrame
<1>13. Flags' BY <1>0
  DEF Flags, Holds, ActorFrame
<1>14. ActorTypes' BY <1>0, <1>3, <1>4
  DEF ActorTypes, Holds, ActorFrame
<1>15. EndInv' BY <1>0, <1>4
  DEF EndInv, Holds, ActorFrame, Handled
<1> QED BY <1>11, <1>12, <1>13, <1>14, <1>15, TypePartsNext DEF Base

LEMMA OnReadyPointBase ==
  ASSUME Base, OnReadyPoint
  PROVE  Base'
<1>0. Queues /\ Flags /\ ActorTypes /\ OtherTypes /\ EndInv BY TypeParts DEF Base
<1>1. frames' \in Seq(FrameSet)
  <2>1. <<Of("ready")>> \in Seq(FrameSet) BY DEF Of, FrameSet, FrameKinds, Ids
  <2> QED BY <1>0, <2>1, SendTypes DEF OnReadyPoint, Send, Queues
<1>2. inbox' \in Seq(EventSet) BY <1>0, ConsumeTypes DEF OnReadyPoint, Handling, Queues
<1>11. Queues' BY <1>0, <1>1, <1>2
  DEF Queues, OnReadyPoint, Handling, ActorUp, ActorFrame
<1>12. OtherTypes' BY <1>0
  DEF OtherTypes, OnReadyPoint, Handling, ActorUp, ActorFrame
<1>3. serving' \in BOOLEAN BY <1>0, Zenon DEF Flags, OnReadyPoint
<1>4. UNCHANGED <<retiring, published, hasChild, row, childVars, transferred>> /\ ActorFrame
  BY DEF OnReadyPoint
<1>13. Flags' BY <1>0, <1>3, <1>4 DEF Flags, ActorFrame
<1>14. ActorTypes' BY <1>0
  DEF ActorTypes, OnReadyPoint, Handling, ActorUp, ActorFrame, Ids
<1>15. EndInv' BY <1>0
  DEF EndInv, OnReadyPoint, Handling, ActorUp, ActorFrame
<1> QED BY <1>11, <1>12, <1>13, <1>14, <1>15, TypePartsNext DEF Base

LEMMA AcceptsBase ==
  ASSUME Base, Accepts
  PROVE  Base'
<1>0. Queues /\ Flags /\ ActorTypes /\ OtherTypes /\ EndInv BY TypeParts DEF Base
<1>1. Head(inbox).id \in TransferIds /\ inbox' \in Seq(EventSet)
  BY <1>0, ConsumeTypes DEF Accepts, Consume, Handled, Queues, Kind
<1>2. Head(inbox).id # None BY <1>1, ActorAssumption
<1>11. Queues' BY <1>0, <1>1
  DEF Queues, Accepts, Handled, Consume, ActorFrame
<1>12. OtherTypes' BY <1>0
  DEF OtherTypes, Accepts, Handled, Consume, ActorFrame
<1>13. Flags' BY <1>0
  DEF Flags, Accepts, Handled, Consume, ActorFrame
<1>14. ActorTypes' BY <1>0, <1>1, <1>2
  DEF ActorTypes, Accepts, Handled, Consume, ActorFrame, Ids
<1>15. EndInv' BY <1>0
  DEF EndInv, Accepts, Handled, Consume, ActorFrame
<1> QED BY <1>11, <1>12, <1>13, <1>14, <1>15, TypePartsNext DEF Base

LEMMA CompleteRetirementBase ==
  ASSUME Base, CompleteRetirement
  PROVE  Base'
<1>0. Queues /\ Flags /\ ActorTypes /\ OtherTypes /\ EndInv BY TypeParts DEF Base
<1>1. frames' \in Seq(FrameSet)
  <2>1. <<Of("retirement")>> \in Seq(FrameSet) BY DEF Of, FrameSet, FrameKinds, Ids
  <2> QED BY <1>0, <2>1, SendTypes DEF CompleteRetirement, Send, Queues
<1>2. /\ cmds' \in Seq(Commands) /\ msgs' \in Seq(Messages) /\ inbox' = <<>>
      /\ stage' = "done" /\ doing' = "events" /\ channel' = "closed"
  BY <1>0, EndActorTypes DEF CompleteRetirement, Queues
<1>3. rec' \in Records /\ disk' \in Records
  <2>1. PICK r \in {"verified", "incomplete"}, out \in Outcomes :
          Write([rec EXCEPT !.retirement = r], out) BY DEF CompleteRetirement
  <2> QED BY <1>0, <2>1, RecordTypes, WriteTypes DEF ActorTypes
<1>4. /\ proc' \in {proc, "gone"} /\ gate' \in {gate, "shut"}
      /\ row' \in BOOLEAN BY DEF CompleteRetirement
<1>5. UNCHANGED <<ack, tickets, planVars, answer, transferred>> /\ ActorFrame BY DEF CompleteRetirement
<1>11. Queues' BY <1>0, <1>1, <1>2
  DEF Queues, CompleteRetirement, ActorFrame
<1>12. OtherTypes' BY <1>0, <1>4
  DEF OtherTypes, CompleteRetirement, ActorFrame
<1>13. Flags' BY <1>0, <1>4
  DEF Flags, CompleteRetirement, ActorFrame
<1>14. ActorTypes' BY <1>0, <1>2, <1>3
  DEF ActorTypes, CompleteRetirement, ActorFrame
<1>15. EndInv' BY <1>0, <1>2
  DEF EndInv, CompleteRetirement, ActorFrame
<1> QED BY <1>11, <1>12, <1>13, <1>14, <1>15, TypePartsNext DEF Base

LEMMA CommitTransferBase ==
  ASSUME Base, CommitTransfer
  PROVE  Base'
<1>0. Queues /\ Flags /\ ActorTypes /\ OtherTypes /\ EndInv BY TypeParts DEF Base
<1>1. /\ frames' \in Seq(FrameSet)
  <2>1. <<For("not-held", current)>> \in Seq(FrameSet) BY <1>0 DEF For, FrameSet, FrameKinds, ActorTypes
  <2> QED BY <1>0, <2>1, SendTypes DEF CommitTransfer, Send, Queues, Reject
<1>2. EndActor \/ (msgs' = Append(msgs, "transferred") /\ doing' = "releasing"
                     /\ UNCHANGED <<stage, channel, inbox, cmds>>) BY DEF CommitTransfer
<1>4. /\ cmds' \in Seq(Commands) /\ msgs' \in Seq(Messages) /\ inbox' \in Seq(EventSet)
      /\ \/ stage' = "done" /\ doing' = "events" /\ channel' = "closed" /\ inbox' = <<>>
         \/ doing' = "releasing" /\ UNCHANGED <<stage, channel, inbox>>
  <2>1. CASE EndActor BY <1>0, <2>1, EndActorTypes DEF Queues
  <2>2. CASE msgs' = Append(msgs, "transferred") /\ doing' = "releasing"
               /\ UNCHANGED <<stage, channel, inbox, cmds>>
    BY <1>0, <2>2, AppendFacts DEF Queues, Messages
  <2> QED BY <1>2, <2>1, <2>2
<1>3. rec' \in Records /\ disk' \in Records
  BY <1>0, RecordTypes, WriteTypes DEF CommitTransfer, ActorTypes
<1>5. transferred' \in BOOLEAN BY <1>0, Zenon DEF CommitTransfer, Flags
<1>11. Queues' BY <1>0, <1>1, <1>4
  DEF Queues, CommitTransfer, ActorFrame
<1>12. OtherTypes' BY <1>0
  DEF OtherTypes, CommitTransfer, ActorFrame
<1>13. Flags' BY <1>0, <1>5
  DEF Flags, CommitTransfer, ActorFrame
<1>14. ActorTypes' BY <1>0, <1>3, <1>4
  DEF ActorTypes, CommitTransfer, ActorFrame
<1>15. EndInv' BY <1>0, <1>4
  DEF EndInv, CommitTransfer, ActorFrame
<1> QED BY <1>11, <1>12, <1>13, <1>14, <1>15, TypePartsNext DEF Base

LEMMA ReleaseTransferBase ==
  ASSUME Base, ReleaseTransfer
  PROVE  Base'
<1>0. Queues /\ Flags /\ ActorTypes /\ OtherTypes /\ EndInv BY TypeParts DEF Base
<1>11. Queues' BY <1>0
  DEF Queues, ReleaseTransfer, ActorFrame
<1>12. OtherTypes' BY <1>0
  DEF OtherTypes, ReleaseTransfer, ActorFrame
<1>13. Flags' BY ZenonT(60), <1>0
  DEF Flags, ReleaseTransfer, ActorFrame
<1>14. ActorTypes' BY <1>0
  DEF ActorTypes, ReleaseTransfer, ActorFrame
<1>15. EndInv' BY <1>0
  DEF EndInv, ReleaseTransfer, ActorFrame
<1> QED BY <1>11, <1>12, <1>13, <1>14, <1>15, TypePartsNext DEF Base

LEMMA FinishTransferBase ==
  ASSUME Base, FinishTransfer
  PROVE  Base'
<1>0. Queues /\ Flags /\ ActorTypes /\ OtherTypes /\ EndInv BY TypeParts DEF Base
<1>1. /\ frames' \in Seq(FrameSet)
  <2>1. <<For("transferred", current)>> \in Seq(FrameSet) BY <1>0 DEF For, FrameSet, FrameKinds, ActorTypes
  <2> QED BY <1>0, <2>1, SendTypes DEF FinishTransfer, Send, Queues
<1>3. rec' \in Records /\ disk' \in Records
  BY <1>0, RecordTypes, WriteTypes DEF FinishTransfer, ActorTypes
<1>11. Queues' BY <1>0, <1>1
  DEF Queues, FinishTransfer, ActorFrame
<1>12. OtherTypes' BY <1>0
  DEF OtherTypes, FinishTransfer, ActorFrame
<1>13. Flags' BY <1>0
  DEF Flags, FinishTransfer, ActorFrame
<1>14. ActorTypes' BY <1>0, <1>3
  DEF ActorTypes, FinishTransfer, ActorFrame
<1>15. EndInv' BY <1>0
  DEF EndInv, FinishTransfer, ActorFrame
<1> QED BY <1>11, <1>12, <1>13, <1>14, <1>15, TypePartsNext DEF Base

(* One step of the daemon: the actor's by what it does. *)
Steps ==
  \/ OwnerSends \/ IoReads \/ IoSyncs \/ ActorCase
  \/ TakeCommand \/ TakeAnswer \/ PublishEffect \/ ForkEffect \/ ReadAck \/ WorkerStops
  \/ ServeChildExited \/ ServeKill \/ ServeTransferred \/ ServeEnd \/ ServeCloses
  \/ ChildPrepares \/ ChildExecs \/ ChildLeaves \/ ChildDies
  \/ BridgeReports \/ Signal \/ ListenerFails

LEMMA NextSteps ==
  ASSUME Base, Next
  PROVE  Steps
<1>1. ActorStep => ActorCase BY ActorCases
<1> QED BY <1>1 DEF Next, WorkerStep, ServeStep, Steps

(* Everything keeps its type, and the actor ends with its queue. *)
LEMMA BaseStep ==
  ASSUME Base, [Next]_vars
  PROVE  Base'
<1>1. CASE Next
  <2>1. Steps BY <1>1, NextSteps
  <2>2. ASSUME ActorCase PROVE Base'
    BY <2>2, PassesBase, CancelsBase, LaunchesBase, OnCommitBase, ConcludesBase,
       RetiresBase, OrdersForkBase, RecordsChildBase, HoldsBase, OnReadyPointBase,
       AcceptsBase, CompleteRetirementBase, CommitTransferBase, ReleaseTransferBase,
       FinishTransferBase DEF ActorCase
  <2> QED BY <2>1, <2>2, OwnerSendsBase, IoBase, TakeCommandBase, TakeAnswerBase,
       PublishEffectBase, ForkEffectBase, ReadAckBase, WorkerStopsBase,
       ServeChildExitedBase, ServeKillBase, ServeTransferredBase, ServeEndBase,
       ServeClosesBase, ChildBase, BridgeBase, SignalBase, ListenerBase DEF Steps
<1>2. CASE UNCHANGED vars BY <1>2 DEF vars, Base, Types, TypeOK, EndInv
<1> QED BY <1>1, <1>2

LEMMA BaseInit ==
  ASSUME Init
  PROVE  Base
<1> USE DEF Init
<1>1. Queues BY DEF Queues, Of, FrameSet, FrameKinds, Ids
<1>2. Flags BY DEF Flags
<1>3. ActorTypes BY DEF ActorTypes, Records, Kinds, TicketStates, Ids
<1>4. OtherTypes BY DEF OtherTypes
<1>5. EndInv BY DEF EndInv
<1> QED BY <1>1, <1>2, <1>3, <1>4, <1>5, TypeParts DEF Base

----------------------------------------------------------------------------
(* The record and the gate. *)

LEMMA WriteIs ==
  ASSUME NEW next, NEW out \in Written, Write(next, out)
  PROVE  /\ out = "ok" => rec' = next /\ disk' = next
         /\ out # "ok" => rec' = rec /\ disk' \in {disk, next}
BY DEF Write, Written

LEMMA RecordOthers ==
  ASSUME RecordInv, UNCHANGED <<stage, doing, rec, disk, current>>,
         gate' = "released" <=> gate = "released",
         proc' = "running" => proc = "running" \/ gate = "released"
  PROVE  RecordInv'
BY DEF RecordInv

LEMMA RecordActor ==
  ASSUME Base, RecordInv, ActorCase
  PROVE  RecordInv'
<1>0. Queues /\ Flags /\ ActorTypes /\ OtherTypes /\ EndInv BY TypeParts DEF Base
<1>t. rec \in Records /\ disk \in Records BY <1>0 DEF ActorTypes
<1> USE DEF RecordInv
<1>1. CASE Passes BY <1>1 DEF Passes, Consume, Quiet, ActorFrame
<1>g. ASSUME stage # "done", doing # "finishing" PROVE gate # "released" /\ proc # "running" BY <1>g
<1>2. CASE Cancels
  <2>1. UNCHANGED <<current, gate, proc>> /\ stage' = "done" /\ doing' = "events" /\ gate # "released"
    BY <1>2, <1>g DEF Cancels, EndActor, Handled
  <2> QED BY <2>1
<1>3. CASE Launches
  <2>1. UNCHANGED <<current, gate, proc>> /\ doing' = "events" /\ gate # "released" /\ proc # "running"
    BY <1>3, <1>g DEF Launches, EndActor, Handled
  <2>2. stage' = "done" \/ (stage' = "starting" /\ rec' = [rec EXCEPT !.state = "launched"])
    BY <1>3, WriteIs DEF Launches, EndActor
  <2>3. stage' # "done" => rec'.held = FALSE BY <1>3, <1>t, <2>2 DEF Launches, Records
  <2> QED BY <2>1, <2>2, <2>3
<1>4. CASE OnCommit BY <1>4, RecordOthers DEF OnCommit, Consume, ActorFrame
<1>5. CASE Concludes
  <2>1. doing' \in {"events", "unwinding"} /\ UNCHANGED <<stage, rec, disk, gate, proc>>
    BY <1>5 DEF Concludes, Resumes, Consume
  <2> QED BY <1>5, <1>g, <2>1 DEF Concludes, Handled
<1>6. CASE Retires
  <2>1. /\ UNCHANGED <<gate, proc>> /\ gate # "released" /\ proc # "running"
        /\ doing' \in {"events", "unwinding"} /\ stage' \in {stage, "done"}
    BY <1>6, <1>g DEF Retires, EndActor, Consume, Handled
  <2>2. /\ rec'.state = rec.state /\ rec'.held = rec.held
        /\ stage' = stage => disk'.state = rec.state
    <3>1. PICK out \in Written :
           /\ Write([rec EXCEPT !.retirement = "requested"], out)
           /\ out # "ok" => EndActor BY <1>6 DEF Retires
    <3>2. stage # "done" BY <1>6 DEF Retires, Handled
    <3> DEFINE next == [rec EXCEPT !.retirement = "requested"]
    <3>3. next.state = rec.state /\ next.held = rec.held BY <1>t DEF Records
    <3> HIDE DEF next
    <3>4. Write(next, out) BY <3>1 DEF next
    <3>5. /\ out = "ok" => rec' = next /\ disk' = next
          /\ out # "ok" => rec' = rec /\ disk' \in {disk, next} BY <3>4, WriteIs
    <3> QED BY <3>1, <3>2, <3>3, <3>5 DEF EndActor
  <2> QED BY <2>1, <2>2
<1>7. CASE OrdersFork \/ RecordsChild
  <2>1. /\ UNCHANGED <<gate, proc>> /\ gate # "released" /\ proc # "running"
        /\ doing' = "events" /\ stage' \in {stage, "done"}
        /\ rec' = rec /\ disk' \in {disk, rec}
    BY <1>7, <1>g, WriteIs DEF OrdersFork, RecordsChild, EndActor, Consume, Handled
  <2> QED BY <2>1
<1>8. CASE Holds
  <2>1. UNCHANGED <<current, gate, proc>> /\ doing' = "events" /\ gate # "released" /\ proc # "running"
    BY <1>8, <1>g DEF Holds, EndActor, Handled
  <2>2. stage' = "done" \/ stage' = "held" BY <1>8 DEF Holds, EndActor
  <2> QED BY <2>1, <2>2
<1>9. CASE OnReadyPoint
  <2>1. /\ UNCHANGED <<gate, proc, rec, disk>> /\ gate # "released" /\ proc # "running"
        /\ \/ UNCHANGED stage /\ doing' = "events"
           \/ stage' = "ready" /\ doing' \in {"events", "committing"}
    BY <1>9, <1>g DEF OnReadyPoint, Handling, ActorUp
  <2> QED BY <1>9, <2>1
<1>10. CASE Accepts
  <2>1. /\ UNCHANGED <<gate, proc, rec, disk, stage>> /\ gate # "released" /\ proc # "running"
        /\ stage \in {"held", "ready"}
        /\ doing' = "events" \/ (stage = "ready" /\ doing' = "committing")
    BY <1>10, <1>g DEF Accepts, Consume, Handled
  <2> QED BY <2>1
<1>11. CASE CompleteRetirement
  <2>1. stage' = "done" /\ doing' = "events" /\ gate' # "released" /\ proc' # "running"
    BY <1>0, <1>11, <1>g DEF CompleteRetirement, EndActor, EndInv
  <2> QED BY <2>1
<1>12. CASE CommitTransfer
  <2>0. UNCHANGED <<gate, proc, current>> /\ gate # "released" /\ proc # "running"
    BY <1>0, <1>12, <1>g DEF CommitTransfer, EndInv
  <2>1. CASE stage' = "done" /\ doing' = "events" BY <2>0, <2>1
  <2>2. CASE \E out \in Written :
               /\ Write([rec EXCEPT !.state = "transferred", !.by = current], out)
               /\ out = "ok" /\ doing' = "releasing" /\ UNCHANGED stage
    <3> DEFINE next == [rec EXCEPT !.state = "transferred", !.by = current]
    <3>1. next.state = "transferred" /\ next.by = current BY <1>t DEF Records
    <3> HIDE DEF next
    <3>2. rec' = next /\ disk' = next BY <2>2, WriteIs DEF next
    <3>3. stage = "ready" BY <1>12 DEF CommitTransfer
    <3> QED BY <2>0, <2>2, <3>1, <3>2, <3>3
  <2> QED BY <1>12, <2>1, <2>2 DEF CommitTransfer, EndActor, Outcomes, Written
<1>13. CASE ReleaseTransfer BY <1>0, <1>13, <1>g DEF ReleaseTransfer, EndInv
<1>14. CASE FinishTransfer
  <2>1. rec' = rec /\ disk' \in {disk, rec} BY <1>14, WriteIs DEF FinishTransfer, Outcomes, Written
  <2> QED BY <1>14, <2>1 DEF FinishTransfer
<1> QED BY <1>1, <1>2, <1>3, <1>4, <1>5, <1>6, <1>7, <1>8, <1>9, <1>10, <1>11, <1>12,
           <1>13, <1>14 DEF ActorCase

LEMMA RecordStep ==
  ASSUME Base, RecordInv, [Next]_vars
  PROVE  RecordInv'
<1>0. gate \in {"open", "shut", "released"} BY TypeParts DEF Base, OtherTypes
<1>1. CASE Next
  <2>1. Steps BY <1>1, NextSteps
  <2>2. CASE ActorCase BY <2>2, RecordActor
  <2>3. CASE OwnerSends \/ IoReads \/ IoSyncs \/ BridgeReports \/ Signal \/ ListenerFails
    BY <2>3, RecordOthers DEF OwnerSends, IoReads, IoSyncs, IoOnly, BridgeReports, Signal, ListenerFails
  <2>4. CASE TakeCommand \/ TakeAnswer \/ PublishEffect \/ ForkEffect \/ ReadAck \/ WorkerStops
    BY <1>0, <2>4, RecordOthers DEF TakeCommand, TakeAnswer, PublishEffect, ForkEffect, ReadAck,
       WorkerStops, ProcessEnds, WorkerOnly
  <2>5. CASE ServeChildExited \/ ServeKill \/ ServeTransferred \/ ServeEnd \/ ServeCloses
    BY <1>0, <2>5, RecordOthers DEF ServeChildExited, ServeKill, ServeTransferred, ServeEnd,
       ServeCloses, Served, ServeOnly, ProcessEnds
  <2>6. CASE ChildPrepares \/ ChildExecs \/ ChildLeaves \/ ChildDies
    BY <2>6, RecordOthers DEF ChildPrepares, ChildExecs, ChildLeaves, ChildDies, ChildOnly
  <2> QED BY <2>1, <2>2, <2>3, <2>4, <2>5, <2>6 DEF Steps
<1>2. CASE UNCHANGED vars BY <1>2, RecordOthers DEF vars
<1> QED BY <1>1, <1>2

----------------------------------------------------------------------------
(* The sync, and what was queued before it. *)

LEMMA SyncKeeps ==
  ASSUME SyncInv, UNCHANGED <<inbox, stage, ioVars>>, stage = "done" => disk' = disk
  PROVE  SyncInv'
BY InboxKeeps DEF SyncInv, Overtaken

LEMMA SyncAdds ==
  ASSUME Base, SyncInv, UNCHANGED <<stage, disk, ioVars>>, stage # "done",
         NEW e \in EventSet, e.kind # "synced", inbox' = Append(inbox, e)
  PROVE  SyncInv'
<1>0. inbox \in Seq(EventSet) BY TypeParts DEF Base, Queues
<1>1. /\ Queued(Synced)' <=> Queued(Synced)
      /\ Single(Synced) => Single(Synced)'
      /\ Queued(Enders) => Queued(Enders)' BY <1>0, InboxAdds DEF Synced
<1>2. Overtaken => Overtaken'
  <2> DEFINE n == Len(inbox)
  <2>1. /\ DOMAIN inbox = 1..n /\ DOMAIN inbox' = 1..(n + 1)
        /\ n \in Nat /\ inbox'[n + 1] = e
        /\ \A i \in 1..n : inbox'[i] = inbox[i] BY <1>0, AppendFacts
  <2> HIDE DEF n
  <2> SUFFICES ASSUME Overtaken, NEW i \in 1..(n + 1), inbox'[i].kind = "synced"
               PROVE  \E j \in 1..(i-1) : inbox'[j].kind \in Withdrawals BY <2>1 DEF Overtaken
  <2>2. i \in 1..n BY <2>1
  <2>3. PICK j \in 1..(i-1) : inbox[j].kind \in Withdrawals BY <2>1, <2>2 DEF Overtaken
  <2>4. j \in 1..n BY <2>1, <2>2, <2>3
  <2> QED BY <2>1, <2>3, <2>4
<1> QED BY <1>1, <1>2 DEF SyncInv

LEMMA SyncPosts ==
  ASSUME Base, SyncInv, UNCHANGED <<stage, disk, ioVars>>,
         NEW k \in Events \ {"transfer", "synced"}, Post(Of(k))
  PROVE  SyncInv'
<1>0. inbox \in Seq(EventSet) BY TypeParts DEF Base, Queues
<1>1. CASE stage = "done" BY <1>1, SyncKeeps DEF Post, ActorUp
<1>2. CASE stage # "done" BY <1>2, SyncAdds, EventFacts DEF Post, ActorUp
<1> QED BY <1>1, <1>2

LEMMA SyncTakes ==
  ASSUME Base, SyncInv, Handled, inbox' = Tail(inbox), UNCHANGED ioVars,
         stage = "deciding" => stage' = stage /\ Kind \notin Withdrawals,
         stage # "deciding" => stage' \notin {"deciding", "done"}
  PROVE  SyncInv'
<1>0. inbox \in Seq(EventSet) /\ inbox # <<>> /\ stage # "done" BY TypeParts DEF Base, Queues, Handled
<1>1. /\ Queued(Synced)' => Queued(Synced)
      /\ Single(Synced) => Single(Synced)'
      /\ Kind \notin Enders => (Queued(Enders) => Queued(Enders)') BY <1>0, InboxTakes DEF Kind
<1>2. ASSUME Overtaken, Kind \notin Withdrawals PROVE Overtaken'
  <2> DEFINE n == Len(inbox)
  <2>1. /\ Head(inbox) = inbox[1] /\ DOMAIN inbox = 1..n /\ DOMAIN inbox' = 1..(n - 1)
        /\ n \in Nat \ {0}
        /\ \A i \in 1..(n - 1) : inbox'[i] = inbox[i + 1] BY <1>0, TailFacts
  <2> HIDE DEF n
  <2> SUFFICES ASSUME NEW i \in 1..(n - 1), inbox'[i].kind = "synced"
               PROVE  \E j \in 1..(i-1) : inbox'[j].kind \in Withdrawals BY <2>1 DEF Overtaken
  <2>2. i + 1 \in 1..n /\ inbox[i + 1].kind = "synced" BY <2>1
  <2>3. PICK j \in 1..((i + 1)-1) : inbox[j].kind \in Withdrawals BY <1>2, <2>1, <2>2 DEF Overtaken
  <2>4. j # 1 BY <1>2, <2>1, <2>3 DEF Kind
  <2>5. j - 1 \in 1..(i-1) /\ j - 1 \in 1..(n - 1) /\ (j - 1) + 1 = j BY <2>1, <2>3, <2>4
  <2>6. inbox'[j - 1] = inbox[j] BY <2>1, <2>5
  <2> QED BY <2>3, <2>5, <2>6
<1>3. Enders \subseteq Withdrawals BY DEF Enders, Withdrawals
<1> QED BY <1>0, <1>1, <1>2, <1>3 DEF SyncInv

LEMMA SyncEnds ==
  ASSUME SyncInv, stage # "done", stage' = "done", inbox' = <<>>, UNCHANGED ioVars,
         stage = "deciding" => disk'.state \in {"pending", "cancelled"}
  PROVE  SyncInv'
BY InboxClears DEF SyncInv

LEMMA SyncActor ==
  ASSUME Base, RecordInv, SyncInv, ActorCase
  PROVE  SyncInv'
<1>0. Queues /\ Flags /\ ActorTypes /\ OtherTypes /\ EndInv BY TypeParts DEF Base
<1>t. rec \in Records /\ disk \in Records BY <1>0 DEF ActorTypes
<1>s. stage = "deciding" => rec.state = "pending" /\ disk.state = "pending" BY DEF RecordInv
<1>u. UNCHANGED ioVars
  BY DEF ActorCase, Passes, Cancels, Launches, OnCommit, Concludes, Retires, OrdersFork,
         RecordsChild, Holds, OnReadyPoint, Accepts, CompleteRetirement, CommitTransfer,
         ReleaseTransfer, FinishTransfer, ActorFrame
<1>r. ASSUME NEW next, NEW out \in Written, Write(next, out), next.state = rec.state, EndActor,
             stage # "done"
      PROVE  SyncInv' BY <1>s, <1>u, <1>r, WriteIs, SyncEnds DEF EndActor
<1>1. CASE Passes BY <1>1, <1>u, SyncTakes DEF Passes, Consume, Handled
<1>2. CASE Cancels
  <2>1. PICK out \in Written : Write([rec EXCEPT !.state = "cancelled"], out) BY <1>2 DEF Cancels
  <2> DEFINE next == [rec EXCEPT !.state = "cancelled"]
  <2>2. next.state = "cancelled" BY <1>t DEF Records
  <2> HIDE DEF next
  <2>3. disk' \in {disk, next} BY <2>1, WriteIs DEF next
  <2> QED BY <1>2, <1>s, <1>u, <2>2, <2>3, SyncEnds DEF Cancels, EndActor, Handled
<1>3. CASE Launches
  <2>0. /\ stage = "deciding" /\ Kind = "synced" /\ inbox # <<>> /\ stage # "done"
        /\ inbox \in Seq(EventSet) BY <1>0, <1>3 DEF Launches, Handled, Queues
  <2>1. ~Overtaken
    <3>1. 1 \in DOMAIN inbox /\ inbox[1].kind = "synced" BY <2>0, TailFacts DEF Kind
    <3> QED BY <3>1 DEF Overtaken
  <2>2. ~withdrawnAtSync /\ ~withdrawnAtSync' BY <1>u, <2>0, <2>1 DEF SyncInv
  <2>3. Queued(Synced) /\ ~syncCmd'
    <3>1. Kind \in Synced BY <2>0 DEF Synced
    <3>2. Queued(Synced) BY <2>0, <3>1, TailFacts DEF Queued, Kind
    <3> QED BY <1>u, <3>2 DEF SyncInv
  <2>4. CASE EndActor BY <2>2, <2>3, <2>4, InboxClears DEF EndActor, SyncInv
  <2>5. CASE inbox' = Tail(inbox) /\ stage' = "starting"
    <3>1. Kind \in Synced BY <2>0 DEF Synced
    <3>2. ~Queued(Synced)' /\ Single(Synced)' BY <2>0, <2>5, <3>1, InboxTakes DEF SyncInv, Kind
    <3> QED BY <2>2, <2>3, <2>5, <3>2 DEF SyncInv
  <2> QED BY <1>3, <2>4, <2>5 DEF Launches
<1>4. CASE OnCommit
  BY <1>4, <1>u, SyncTakes DEF OnCommit, Consume, Handled, Handling, ActorUp, Kind, Withdrawals
<1>5. CASE Concludes BY <1>5, <1>u, SyncTakes DEF Concludes, Consume, Handled, EffectResults, Withdrawals
<1>6. CASE Retires
  <2>1. PICK out \in Written :
           /\ Write([rec EXCEPT !.retirement = "requested"], out)
           /\ EndActor \/ Consume BY <1>6 DEF Retires
  <2> DEFINE next == [rec EXCEPT !.retirement = "requested"]
  <2>2. next.state = rec.state BY <1>t DEF Records
  <2> HIDE DEF next
  <2>3. Write(next, out) BY <2>1 DEF next
  <2>4. CASE Consume BY <1>6, <1>u, <2>4, SyncTakes DEF Retires, Consume, Handled
  <2>5. CASE EndActor BY <1>6, <1>r, <2>2, <2>3, <2>5 DEF Retires, Handled
  <2> QED BY <2>1, <2>4, <2>5
<1>7. CASE OrdersFork \/ RecordsChild
  <2>1. PICK out \in Written :
           /\ Write(rec, out)
           /\ EndActor \/ (inbox' = Tail(inbox) /\ UNCHANGED stage)
    BY <1>7 DEF OrdersFork, RecordsChild, Consume
  <2>2. Handled /\ Kind \notin Withdrawals BY <1>7 DEF OrdersFork, RecordsChild, Withdrawals
  <2>3. CASE inbox' = Tail(inbox) /\ UNCHANGED stage BY <1>u, <2>2, <2>3, SyncTakes DEF Handled
  <2>4. CASE EndActor BY <1>r, <2>1, <2>2, <2>4 DEF Handled
  <2> QED BY <2>1, <2>3, <2>4
<1>8. CASE Holds
  <2>1. stage = "starting" /\ Handled BY <1>8 DEF Holds
  <2>2. CASE EndActor BY <1>u, <2>1, <2>2, SyncEnds DEF EndActor
  <2>3. CASE stage' = "held" /\ inbox' = Tail(inbox) BY <1>u, <2>1, <2>3, SyncTakes
  <2> QED BY <1>8, <2>2, <2>3 DEF Holds
<1>9. CASE OnReadyPoint
  <2>1. Handled /\ Kind \notin Withdrawals /\ inbox' = Tail(inbox)
    BY <1>9 DEF OnReadyPoint, Handling, Handled, ActorUp, Kind, Withdrawals
  <2>2. stage' = stage \/ (stage = "held" /\ stage' = "ready") BY <1>9 DEF OnReadyPoint
  <2> QED BY <1>u, <2>1, <2>2, SyncTakes DEF Handled
<1>10. CASE Accepts BY <1>10, <1>u, SyncTakes DEF Accepts, Consume, Handled
<1>11. CASE CompleteRetirement
  <2>1. PICK r \in {"verified", "incomplete"}, out \in Outcomes :
          Write([rec EXCEPT !.retirement = r], out) BY <1>11 DEF CompleteRetirement
  <2> DEFINE next == [rec EXCEPT !.retirement = r]
  <2>2. next.state = rec.state BY <1>t DEF Records
  <2> HIDE DEF next
  <2>3. Write(next, out) /\ out \in Written BY <2>1 DEF next, Outcomes, Written
  <2> QED BY <1>0, <1>11, <1>r, <2>2, <2>3 DEF CompleteRetirement, EndInv
<1>12. CASE CommitTransfer
  <2>1. stage = "ready" BY <1>12 DEF CommitTransfer, RecordInv
  <2>2. CASE EndActor BY <1>u, <2>1, <2>2, SyncEnds DEF EndActor
  <2>3. CASE UNCHANGED <<inbox, stage>> BY <1>u, <2>1, <2>3, SyncKeeps
  <2> QED BY <1>12, <2>2, <2>3 DEF CommitTransfer
<1>13. CASE ReleaseTransfer BY <1>13, <1>u, SyncKeeps DEF ReleaseTransfer
<1>14. CASE FinishTransfer
  <2>1. stage = "ready" BY SMTT(60), <1>14 DEF FinishTransfer, RecordInv
  <2> QED BY <1>14, <1>u, <2>1, SyncEnds DEF FinishTransfer
<1> QED BY <1>1, <1>2, <1>3, <1>4, <1>5, <1>6, <1>7, <1>8, <1>9, <1>10, <1>11, <1>12,
           <1>13, <1>14 DEF ActorCase

(* The inputs read are put behind the events, `after` last. *)
LEMMA ReadIs ==
  ASSUME Base, channel = "open", NEW after \in Seq(EventSet), ReadAvailable(after)
  PROVE  \E n \in 0..Len(socket) :
           LET m == Len(inbox) IN
           /\ m \in Nat /\ DOMAIN inbox = 1..m /\ DOMAIN socket = 1..Len(socket)
           /\ DOMAIN inbox' = 1..(m + n + Len(after))
           /\ \A i \in 1..m : inbox'[i] = inbox[i]
           /\ \A i \in 1..n : inbox'[m + i] = socket[i] /\ socket[i] \in Inputs
           /\ \A i \in 1..Len(after) : inbox'[m + n + i] = after[i]
           /\ ~reading => n = 0
           /\ reading => \/ n = Len(socket) /\ \A i \in 1..n : ~StopsReading(socket[i])
                         \/ n > 0 /\ StopsReading(socket[n])
<1>0. socket \in Seq(Inputs) /\ inbox \in Seq(EventSet) /\ stage # "done"
  BY TypeParts DEF Base, Queues, EndInv
<1>1. PICK n \in 0..Len(socket) :
           /\ ReadOut \in Seq(Inputs) /\ Len(ReadOut) = n
           /\ \A i \in 1..n : ReadOut[i] = socket[i]
           /\ ~reading => n = 0
           /\ reading => \/ n = Len(socket) /\ \A i \in 1..n : ~StopsReading(socket[i])
                         \/ n > 0 /\ StopsReading(socket[n]) BY <1>0, ReadOutIs
<1>2. ReadOut \in Seq(EventSet) BY <1>1, EventFacts
<1>3. inbox' = inbox \o ReadOut \o after BY <1>0 DEF ReadAvailable, ActorUp
<1> DEFINE m == Len(inbox)
           r == ReadOut
           l == Len(after)
           c == inbox \o ReadOut
           d == c \o after
<1>4. /\ m \in Nat /\ n \in Nat /\ l \in Nat /\ Len(socket) \in Nat
      /\ DOMAIN inbox = 1..m /\ DOMAIN socket = 1..Len(socket) BY <1>0, <1>1
<1>5. c \in Seq(EventSet) /\ Len(c) = m + n
      /\ \A i \in 1..(m + n) : c[i] = IF i <= m THEN inbox[i] ELSE r[i - m]
  BY <1>0, <1>1, <1>2, ConcatProperties
<1>6. d \in Seq(EventSet) /\ Len(d) = m + n + l
      /\ \A i \in 1..(m + n + l) : d[i] = IF i <= m + n THEN c[i] ELSE after[i - (m + n)]
  <2> HIDE DEF c
  <2>1. /\ d \in Seq(EventSet) /\ Len(d) = Len(c) + Len(after)
        /\ \A i \in 1..(Len(c) + Len(after)) :
             d[i] = IF i <= Len(c) THEN c[i] ELSE after[i - Len(c)] BY <1>5, ConcatProperties
  <2>2. Len(c) = m + n BY <1>5
  <2> QED BY <2>1, <2>2, Zenon
<1>7. \A i \in 1..n : socket[i] \in Inputs BY <1>0, <1>1
<1>8. inbox' = d BY <1>3
<1>9. \A i \in 1..n : r[i] = socket[i] BY <1>1
<1>10. DOMAIN d = 1..(m + n + l) BY <1>6
<1> HIDE DEF m, r, c, d, l
<1>11. \A i \in 1..m : inbox'[i] = inbox[i] BY <1>4, <1>5, <1>6, <1>8
<1>12. \A i \in 1..n : inbox'[m + i] = socket[i]
  <2> TAKE i \in 1..n
  <2>1. m + i \in 1..(m + n) /\ m + i \in 1..(m + n + l) /\ ~(m + i <= m) /\ (m + i) - m = i
        /\ m + i <= m + n BY <1>4
  <2>2. d[m + i] = c[m + i] BY <1>6, <2>1
  <2>3. c[m + i] = r[i] BY <1>5, <2>1
  <2> QED BY <1>8, <1>9, <2>2, <2>3
<1>13. \A i \in 1..l : inbox'[m + n + i] = after[i]
  <2> TAKE i \in 1..l
  <2>1. m + n + i \in 1..(m + n + l) /\ ~(m + n + i <= m + n) /\ (m + n + i) - (m + n) = i BY <1>4
  <2> QED BY <1>6, <1>8, <2>1
<1> QED BY <1>1, <1>4, <1>7, <1>8, <1>10, <1>11, <1>12, <1>13 DEF m, l

LEMMA SyncReads ==
  ASSUME Base, SyncInv, IoReads
  PROVE  SyncInv'
<1>0. /\ channel = "open" /\ stage # "done" /\ reading
      /\ UNCHANGED <<stage, disk, syncCmd, withdrawnAtSync>>
      /\ <<>> \in Seq(EventSet) /\ ReadAvailable(<<>>) BY TypeParts DEF IoReads, IoOnly, Base, EndInv
<1> DEFINE m == Len(inbox)
           l == Len(<<>>)
<1>1. PICK n \in 0..Len(socket) :
           /\ m \in Nat /\ DOMAIN inbox = 1..m /\ DOMAIN socket = 1..Len(socket)
           /\ DOMAIN inbox' = 1..(m + n + l)
           /\ \A i \in 1..m : inbox'[i] = inbox[i]
           /\ \A i \in 1..n : inbox'[m + i] = socket[i] /\ socket[i] \in Inputs
           /\ reading => \/ n = Len(socket) /\ \A i \in 1..n : ~StopsReading(socket[i])
                         \/ n > 0 /\ StopsReading(socket[n]) BY <1>0, ReadIs
<1>2. l = 0 /\ m \in Nat /\ n \in Nat /\ Len(socket) \in Nat
  <2>1. socket \in Seq(Inputs) /\ inbox \in Seq(EventSet) BY TypeParts DEF Base, Queues
  <2>2. Len(socket) \in Nat /\ m \in Nat /\ l = 0 BY <2>1
  <2> HIDE DEF m, l
  <2> QED BY <2>2
<1> HIDE DEF m, l
<1>d. DOMAIN inbox = 1..m /\ DOMAIN inbox' = 1..(m + n)
  <2>1. m + n + l = m + n BY SMTT(60), <1>2
  <2> QED BY <1>1, <2>1
<1>3. \A i \in DOMAIN inbox' : i \notin 1..m => inbox'[i] \in Inputs
  <2> TAKE i \in DOMAIN inbox'
  <2> HAVE i \notin 1..m
  <2>1. i - m \in 1..n /\ m + (i - m) = i BY <1>2, <1>d
  <2> QED BY <1>1, <2>1
<1>4. \A i \in DOMAIN inbox' : inbox'[i].kind = "synced" => i \in 1..m BY <1>3, EventFacts
<1>6. (Queued(Synced)' => Queued(Synced)) /\ (Single(Synced) => Single(Synced)')
  <2>1. Queued(Synced)' => Queued(Synced) BY ZenonT(60), <1>1, <1>4 DEF Queued, Synced
  <2>2. Single(Synced) => Single(Synced)' BY <1>1, <1>4 DEF Single, Synced
  <2> QED BY SMTT(60), <2>1, <2>2
<1>7. Overtaken => Overtaken'
  <2> SUFFICES ASSUME Overtaken, NEW i \in DOMAIN inbox', inbox'[i].kind = "synced"
               PROVE  \E j \in 1..(i-1) : inbox'[j].kind \in Withdrawals BY SMTT(60) DEF Overtaken
  <2>1. i \in 1..m /\ inbox[i].kind = "synced" BY ZenonT(60), <1>1, <1>4
  <2>2. PICK j \in 1..(i-1) : inbox[j].kind \in Withdrawals BY <1>1, <2>1 DEF Overtaken
  <2>3. j \in 1..m BY <1>2, <2>1, <2>2
  <2> QED BY <1>1, <2>2, <2>3
<1>8. ~reading' => Queued(Enders)'
  <2> HAVE ~reading'
  <2>1. \E i \in DOMAIN socket : StopsReading(socket[i]) BY <1>0 DEF ReadAvailable
  <2>2. n > 0 /\ StopsReading(socket[n]) BY <1>0, <1>1, <2>1
  <2>3. m + n \in DOMAIN inbox' /\ n \in 1..n BY <1>2, <1>d, <2>2
  <2>5. inbox'[m + n] = socket[n] BY <1>1, <2>3
  <2>4. inbox'[m + n].kind \in Enders BY <2>2, <2>5 DEF StopsReading, Enders
  <2> QED BY <2>3, <2>4 DEF Queued
<1> QED BY <1>0, <1>6, <1>7, <1>8 DEF SyncInv

LEMMA SyncSyncs ==
  ASSUME Base, SyncInv, IoSyncs
  PROVE  SyncInv'
<1> DEFINE after == <<Of("synced")>>
           m == Len(inbox)
           l == Len(after)
<1>0. /\ channel = "open" /\ stage # "done" /\ syncCmd /\ syncCmd' = FALSE
      /\ UNCHANGED <<stage, disk>>
      /\ ReadAvailable(after) BY TypeParts DEF IoSyncs, IoOnly, Base, EndInv
<1>a. Of("synced") \in EventSet /\ Of("synced").kind = "synced" BY EventFacts DEF Events
<1>b. after \in Seq(EventSet) /\ l = 1 /\ after[1].kind = "synced" BY <1>a
<1>c. stage = "deciding" /\ ~Queued(Synced) BY <1>0 DEF SyncInv
<1> HIDE DEF after
<1>1. PICK n \in 0..Len(socket) :
           /\ m \in Nat /\ DOMAIN inbox = 1..m /\ DOMAIN socket = 1..Len(socket)
           /\ DOMAIN inbox' = 1..(m + n + l)
           /\ \A i \in 1..m : inbox'[i] = inbox[i]
           /\ \A i \in 1..n : inbox'[m + i] = socket[i] /\ socket[i] \in Inputs
           /\ \A i \in 1..l : inbox'[m + n + i] = after[i]
           /\ ~reading => n = 0
           /\ reading => \/ n = Len(socket) /\ \A i \in 1..n : ~StopsReading(socket[i])
                         \/ n > 0 /\ StopsReading(socket[n]) BY <1>0, <1>b, ReadIs
<1>2. l = 1 /\ m \in Nat /\ n \in Nat /\ Len(socket) \in Nat
  <2>1. socket \in Seq(Inputs) /\ inbox \in Seq(EventSet) BY TypeParts DEF Base, Queues
  <2>2. Len(socket) \in Nat /\ m \in Nat BY <2>1
  <2> HIDE DEF m, l
  <2> QED BY <1>b, <2>2
<1> HIDE DEF m, l
<1>d. /\ DOMAIN inbox = 1..m /\ DOMAIN inbox' = 1..(m + n + 1)
      /\ DOMAIN socket = 1..Len(socket) BY SMTT(60), <1>1, <1>2
<1>3. \A i \in DOMAIN inbox' : i \notin 1..m /\ i # m + n + 1 => inbox'[i] \in Inputs
  <2> TAKE i \in DOMAIN inbox'
  <2> HAVE i \notin 1..m /\ i # m + n + 1
  <2>1. i - m \in 1..n /\ m + (i - m) = i BY SMTT(60), <1>2, <1>d
  <2> QED BY <1>1, <2>1
<1>4. \A i \in DOMAIN inbox' : inbox'[i].kind = "synced" => i = m + n + 1
  <2> SUFFICES ASSUME NEW i \in DOMAIN inbox', inbox'[i].kind = "synced", i # m + n + 1
               PROVE  FALSE OBVIOUS
  <2>1. i \in 1..m BY <1>3, EventFacts
  <2>2. inbox[i].kind = "synced" BY <1>1, <2>1
  <2> QED BY <1>1, <1>c, <2>1, <2>2 DEF Queued, Synced
<1>6. Single(Synced)' BY <1>4 DEF Single, Synced
<1>7. ASSUME withdrawnAtSync' PROVE Overtaken'
  <2>1. SUFFICES \E j \in 1..(m + n) : inbox'[j].kind \in Withdrawals
    <3>1. ASSUME NEW i \in DOMAIN inbox', inbox'[i].kind = "synced",
                 NEW j \in 1..(m + n), inbox'[j].kind \in Withdrawals
          PROVE  \E k \in 1..(i-1) : inbox'[k].kind \in Withdrawals
      <4>1. i = m + n + 1 BY <1>4, <3>1
      <4>2. j \in 1..(i-1) BY SMTT(60), <1>2, <4>1
      <4> QED BY <3>1, <4>2
    <3> QED BY <3>1 DEF Overtaken
  <2>2. CASE \E i \in DOMAIN inbox : inbox[i].kind \in Withdrawals
    <3>1. PICK i \in 1..m : inbox[i].kind \in Withdrawals BY <1>d, <2>2
    <3>2. i \in 1..(m + n) BY <1>2
    <3> QED BY <1>1, <3>1, <3>2
  <2>3. CASE ~reading
    <3>1. Queued(Enders) BY <1>c, <2>3 DEF SyncInv
    <3> QED BY <2>2, <3>1 DEF Queued, Enders, Withdrawals
  <2>4. CASE reading /\ \E i \in DOMAIN socket : socket[i].kind \in Withdrawals
    <3>1. PICK i \in 1..n : socket[i].kind \in Withdrawals
      <4>1. CASE n = Len(socket) BY <1>d, <2>4, <4>1
      <4>2. CASE n > 0 /\ StopsReading(socket[n])
        <5>1. n \in 1..n BY <1>2, <4>2
        <5> QED BY <4>2, <5>1 DEF StopsReading, Withdrawals
      <4> QED BY <1>1, <2>4, <4>1, <4>2
    <3>2. m + i \in 1..(m + n) BY <1>2
    <3>3. inbox'[m + i] = socket[i] BY <1>1
    <3> QED BY SMTT(60), <3>1, <3>2, <3>3
  <2>5. \/ \E i \in DOMAIN socket : socket[i].kind \in Withdrawals
        \/ \E i \in DOMAIN inbox : inbox[i].kind \in Withdrawals BY <1>7 DEF IoSyncs
  <2> QED BY <2>2, <2>3, <2>4, <2>5
<1>8. ~reading' => Queued(Enders)'
  <2>1. CASE ~reading
    <3>1. Queued(Enders) BY <1>c, <2>1 DEF SyncInv
    <3>2. PICK i \in 1..m : inbox[i].kind \in Enders BY <1>d, <3>1 DEF Queued
    <3>3. i \in DOMAIN inbox' BY SMTT(60), <1>2, <1>d
    <3>4. inbox'[i].kind \in Enders BY <1>1, <3>2
    <3> QED BY <3>3, <3>4 DEF Queued
  <2>2. ASSUME reading, ~reading' PROVE Queued(Enders)'
    <3>1. \E i \in DOMAIN socket : StopsReading(socket[i]) BY <1>0, <2>2 DEF ReadAvailable
    <3>2. n > 0 /\ StopsReading(socket[n]) BY <1>1, <2>2, <3>1
    <3>3. m + n \in DOMAIN inbox' /\ n \in 1..n BY <1>2, <1>d, <3>2
    <3>5. inbox'[m + n] = socket[n] BY <1>1, <3>3
    <3>4. inbox'[m + n].kind \in Enders BY <3>2, <3>5 DEF StopsReading, Enders
    <3> QED BY <3>3, <3>4 DEF Queued
  <2> QED BY <2>1, <2>2
<1> QED BY <1>0, <1>c, <1>6, <1>7, <1>8 DEF SyncInv

LEMMA SyncStep ==
  ASSUME Base, RecordInv, SyncInv, [Next]_vars
  PROVE  SyncInv'
<1>1. CASE Next
  <2>1. Steps BY <1>1, NextSteps
  <2>2. CASE ActorCase BY <2>2, SyncActor
  <2>3. CASE IoReads \/ IoSyncs BY <2>3, SyncReads, SyncSyncs
  <2>4. CASE OwnerSends \/ BridgeReports \/ ListenerFails
    BY <2>4, SyncKeeps DEF OwnerSends, BridgeReports, ListenerFails
  <2>5. CASE Signal
    <3>1. CASE ActorUp BY <2>5, <3>1, SyncPosts DEF Signal, Events
    <3>2. CASE ~ActorUp BY <2>5, <3>2, SyncKeeps DEF Signal
    <3> QED BY <3>1, <3>2
  <2>6. CASE TakeAnswer \/ WorkerStops BY <2>6, SyncKeeps DEF TakeAnswer, WorkerStops, WorkerOnly
  <2>7. CASE TakeCommand
    <3>1. PICK k \in {"ready-point", "publish-failed", "commit-publish", "fork-failed",
                      "commit-fork"} : Post(Of(k)) BY <2>7 DEF TakeCommand
    <3> QED BY <2>7, <3>1, SyncPosts DEF TakeCommand, WorkerOnly, Events
  <2>8. CASE PublishEffect \/ ForkEffect \/ ReadAck
    <3>1. PICK k \in {"published", "publish-failed", "forked", "fork-failed", "prepared",
                      "child-lost"} : Post(Of(k)) BY <2>8 DEF PublishEffect, ForkEffect, ReadAck
    <3> QED BY <2>8, <3>1, SyncPosts DEF PublishEffect, ForkEffect, ReadAck, WorkerOnly, Events
  <2>9. CASE ServeTransferred \/ ServeEnd \/ ServeCloses
    BY <2>9, SyncKeeps DEF ServeTransferred, ServeEnd, ServeCloses, Served, ServeOnly
  <2>10. CASE ServeChildExited \/ ServeKill
    <3>0. UNCHANGED <<stage, disk, ioVars>> BY <2>10 DEF ServeChildExited, ServeKill, Served, ServeOnly
    <3>1. inbox' = inbox \/ \E k \in {"child-exited", "shutdown"} : Post(Of(k))
      BY <2>10 DEF ServeChildExited, ServeKill
    <3>2. CASE inbox' = inbox BY <3>0, <3>2, SyncKeeps
    <3>3. ASSUME NEW k \in {"child-exited", "shutdown"}, Post(Of(k)) PROVE SyncInv'
      BY <3>0, <3>3, SyncPosts DEF Events
    <3> QED BY <3>1, <3>2, <3>3
  <2>11. CASE ChildPrepares \/ ChildExecs \/ ChildLeaves \/ ChildDies
    BY <2>11, SyncKeeps DEF ChildPrepares, ChildExecs, ChildLeaves, ChildDies, ChildOnly
  <2> QED BY <2>1, <2>2, <2>3, <2>4, <2>5, <2>6, <2>7, <2>8, <2>9, <2>10, <2>11 DEF Steps
<1>2. CASE UNCHANGED vars BY <1>2, SyncKeeps DEF vars
<1> QED BY <1>1, <1>2

----------------------------------------------------------------------------
(* The tickets. *)

(* A step brings no request or result of the worker to the actor, and no *)
(* command to the worker that has an effect. *)
InboxFades ==
  /\ Queued(PublishResults)' => Queued(PublishResults)
  /\ Queued(ForkResults)' => Queued(ForkResults)
  /\ Queued(ForkFailed)' => Queued(ForkFailed)
  /\ Queued(CommitPublish)' => Queued(CommitPublish)
  /\ Queued(CommitFork)' => Queued(CommitFork)
  /\ Queued(ReadyPoints)' => Queued(ReadyPoints)
  /\ Single(PublishResults) => Single(PublishResults)'
  /\ Single(ForkResults) => Single(ForkResults)'
  /\ Single(CommitPublish) => Single(CommitPublish)'
  /\ Single(CommitFork) => Single(CommitFork)'
  /\ Single(ReadyPoints) => Single(ReadyPoints)'
CmdsFade ==
  /\ Ordered("publish")' => Ordered("publish")
  /\ Ordered("fork")' => Ordered("fork")
  /\ OrderedOnce("publish") => OrderedOnce("publish")'
  /\ OrderedOnce("fork") => OrderedOnce("fork")'

WorkerSets ==
  /\ PublishResults \subseteq WorkerKinds /\ ForkResults \subseteq WorkerKinds
  /\ ForkFailed \subseteq ForkResults /\ CommitPublish \subseteq WorkerKinds
  /\ CommitFork \subseteq WorkerKinds /\ ReadyPoints \subseteq WorkerKinds

LEMMA WorkerSetsHold == WorkerSets
BY DEF WorkerSets, PublishResults, ForkResults, ForkFailed, CommitPublish, CommitFork,
       ReadyPoints, WorkerKinds

LEMMA FailedIsResult == Queued(ForkFailed) => Queued(ForkResults)
BY WorkerSetsHold DEF Queued, WorkerSets

LEMMA FadeKeeps == ASSUME inbox' = inbox PROVE InboxFades
BY InboxKeeps DEF InboxFades

LEMMA FadeClears == ASSUME inbox' = <<>> PROVE InboxFades
BY InboxClears DEF InboxFades

LEMMA FadeAdds ==
  ASSUME inbox \in Seq(EventSet), NEW e \in EventSet, e.kind \notin WorkerKinds,
         inbox' = Append(inbox, e)
  PROVE  InboxFades
BY InboxAdds, WorkerSetsHold DEF InboxFades, WorkerSets

LEMMA FadePosts ==
  ASSUME inbox \in Seq(EventSet),
         NEW k \in {"prepared", "child-lost", "child-exited", "shutdown"}, Post(Of(k))
  PROVE  InboxFades
<1>1. Of(k) \in EventSet /\ Of(k).kind = k BY EventFacts DEF Events
<1>2. k \notin WorkerKinds BY DEF WorkerKinds
<1>3. CASE inbox' = inbox BY <1>3, FadeKeeps
<1>4. CASE inbox' = Append(inbox, Of(k)) BY <1>1, <1>2, <1>4, FadeAdds
<1> QED BY <1>3, <1>4 DEF Post

(* An event taken that was the only one of its kind leaves none. *)
Taken(K) == Kind \in K => Queued(K) /\ (Single(K) => ~Queued(K)')
LEMMA FadeTakes ==
  ASSUME inbox \in Seq(EventSet), inbox # <<>>, inbox' = Tail(inbox)
  PROVE  /\ InboxFades
         /\ Taken(PublishResults) /\ Taken(ForkResults) /\ Taken(ForkFailed)
         /\ Taken(CommitPublish) /\ Taken(CommitFork) /\ Taken(ReadyPoints)
BY InboxTakes DEF InboxFades, Taken, Kind

LEMMA CmdsFadeKeeps == ASSUME cmds' = cmds PROVE CmdsFade
BY CmdsKeep DEF CmdsFade

LEMMA CmdsFadeAdds ==
  ASSUME cmds \in Seq(Commands), NEW c \in {"stop", "ready-point"}, cmds' = Append(cmds, c)
  PROVE  CmdsFade
<1>1. c \in Commands /\ c # "publish" /\ c # "fork" BY DEF Commands
<1> QED BY <1>1, CmdsAdd DEF CmdsFade

LEMMA CmdsFadeEnds ==
  ASSUME cmds \in Seq(Commands), EndActor
  PROVE  CmdsFade
<1>1. cmds' = cmds \/ cmds' = Append(cmds, "stop") BY DEF EndActor
<1> QED BY <1>1, CmdsFadeKeeps, CmdsFadeAdds

LEMMA InFlightIs ==
  ASSUME NEW t
  PROVE  InFlight(t) <=> t["publish"] = "committed" \/ t["fork"] = "committed"
BY DEF InFlight, Kinds

LEMMA InFlightNext ==
  InFlight(tickets)' <=> (tickets["publish"])' = "committed" \/ (tickets["fork"])' = "committed"
BY DEF InFlight, Kinds

(* A step that leaves the tickets alone. *)
LEMMA TicketFades ==
  ASSUME TicketInv, InboxFades, CmdsFade, VerifiedInv',
         UNCHANGED <<worker, answer, tickets, published>>,
         row' => row,
         stage' = "deciding" => stage = "deciding",
         doing' = "unwinding" => doing = "unwinding",
         stage' # "done" =>
           /\ stage # "done" /\ (proc' = "none" <=> proc = "none")
           /\ hasChild \/ doing = "finishing" => hasChild' \/ doing' = "finishing"
  PROVE  TicketInv'
<1>1. PublishInv' BY DEF TicketInv, PublishInv, InboxFades, CmdsFade
<1>2. ForkInv' BY DEF TicketInv, ForkInv, InboxFades, CmdsFade
<1>3. RequestInv' BY DEF TicketInv, RequestInv, InboxFades
<1>4. GrantInv' BY DEF TicketInv, GrantInv, InFlight
<1>5. ChildInv' BY DEF TicketInv, ChildInv, InboxFades, CmdsFade, Up
<1> QED BY <1>1, <1>2, <1>3, <1>4, <1>5 DEF TicketInv

LEMMA FadeExtends ==
  ASSUME NEW m \in Nat, DOMAIN inbox = 1..m, 1..m \subseteq DOMAIN inbox',
         \A i \in 1..m : inbox'[i] = inbox[i],
         \A i \in DOMAIN inbox' : i \notin 1..m => inbox'[i].kind \notin WorkerKinds
  PROVE  InboxFades
<1>1. ASSUME NEW K, K \subseteq WorkerKinds
      PROVE  (Queued(K)' => Queued(K)) /\ (Single(K) => Single(K)')
  <2>1. \A i \in DOMAIN inbox' : inbox'[i].kind \in K => i \in 1..m /\ inbox[i].kind \in K BY <1>1
  <2>2. Queued(K)' => Queued(K) BY <2>1 DEF Queued
  <2>3. Single(K) => Single(K)' BY <2>1 DEF Single
  <2> QED BY <2>2, <2>3
<1>2. ForkFailed \subseteq WorkerKinds BY WorkerSetsHold DEF WorkerSets
<1> QED BY <1>1, <1>2, WorkerSetsHold DEF WorkerSets, InboxFades

LEMMA FadeReads ==
  ASSUME Base, IoReads \/ IoSyncs
  PROVE  InboxFades
<1>0. PICK after \in {<<>>, <<Of("synced")>>} : channel = "open" /\ ReadAvailable(after)
  BY DEF IoReads, IoSyncs
<1>a. /\ after \in Seq(EventSet) /\ Len(after) \in Nat
      /\ \A i \in 1..Len(after) : after[i].kind = "synced"
  <2>1. Of("synced") \in EventSet /\ Of("synced").kind = "synced" BY EventFacts DEF Events
  <2>2. CASE after = <<>> BY <2>2
  <2>3. CASE after = <<Of("synced")>> BY <2>1, <2>3
  <2> QED BY <2>2, <2>3
<1> DEFINE m == Len(inbox)
           l == Len(after)
<1>1. PICK n \in 0..Len(socket) :
           /\ m \in Nat /\ DOMAIN inbox = 1..m
           /\ DOMAIN inbox' = 1..(m + n + l)
           /\ \A i \in 1..m : inbox'[i] = inbox[i]
           /\ \A i \in 1..n : inbox'[m + i] = socket[i] /\ socket[i] \in Inputs
           /\ \A i \in 1..l : inbox'[m + n + i] = after[i] BY <1>0, <1>a, ReadIs
<1>2. m \in Nat /\ n \in Nat /\ l \in Nat
  <2>1. socket \in Seq(Inputs) BY TypeParts DEF Base, Queues
  <2>2. Len(socket) \in Nat BY <2>1
  <2> HIDE DEF m, l
  <2>3. m \in Nat BY <1>1
  <2> QED BY <1>a, <2>2, <2>3 DEF l
<1>b. \A i \in 1..l : after[i].kind = "synced" BY <1>a
<1> HIDE DEF m, l
<1>3. 1..m \subseteq DOMAIN inbox'
  <2>1. \A i \in 1..m : i \in 1..(m + n + l) BY <1>2
  <2> QED BY <1>1, <2>1
<1>4. \A i \in DOMAIN inbox' : i \notin 1..m => inbox'[i].kind \notin WorkerKinds
  <2> SUFFICES ASSUME NEW i \in 1..(m + n + l), i \notin 1..m
               PROVE  inbox'[i].kind \notin WorkerKinds BY <1>1
  <2>1. \/ i - m \in 1..n /\ i = m + (i - m)
        \/ i - (m + n) \in 1..l /\ i = m + n + (i - (m + n)) BY <1>2
  <2>2. CASE i - m \in 1..n /\ i = m + (i - m)
    <3>1. inbox'[i] \in Inputs BY <1>1, <2>2
    <3>2. inbox'[i].kind \in {"cancel", "rejected", "malformed", "eof", "transfer"} BY <3>1, EventFacts
    <3> QED BY <3>2 DEF WorkerKinds
  <2>3. CASE i - (m + n) \in 1..l /\ i = m + n + (i - (m + n))
    <3>1. inbox'[i].kind = "synced" BY <1>1, <1>b, <2>3
    <3> QED BY <3>1 DEF WorkerKinds
  <2> QED BY <2>1, <2>2, <2>3
<1> QED BY <1>1, <1>2, <1>3, <1>4, FadeExtends

(* A step of the actor that completes or revokes tickets. *)
LEMMA TicketSettles ==
  ASSUME Base, TicketInv, Handled, CmdsFade, VerifiedInv',
         inbox' \in {<<>>, Tail(inbox)}, stage' \in {stage, "done"},
         UNCHANGED <<worker, answer, row, published, proc>>,
         \A k \in Kinds :
           /\ tickets'[k] = "none" => tickets[k] = "none"
           /\ tickets[k] = "none" /\ Ticket # k => tickets'[k] = "none"
           /\ tickets[k] = "none" /\ Kind \notin EffectResults => tickets'[k] = "none"
           /\ tickets'[k] = "committed" => tickets[k] = "committed"
           /\ tickets[k] = "committed" =>
                tickets'[k] = "committed" \/ (Kind \in EffectResults /\ Ticket = k),
         doing' = "unwinding" => ~InFlight(tickets'),
         hasChild \/ Kind = "forked" => hasChild'
  PROVE  TicketInv'
<1>0. /\ inbox \in Seq(EventSet) /\ inbox # <<>> /\ Up /\ stage # "done" /\ doing = "events"
  BY TypeParts DEF Base, Queues, Handled
<1>1. InboxFades BY <1>0, FadeTakes, FadeClears
<1>2. /\ Taken(PublishResults) /\ Taken(ForkResults) /\ Taken(ForkFailed)
  <2>1. CASE inbox' = Tail(inbox) BY <1>0, <2>1, FadeTakes
  <2>2. CASE inbox' = <<>>
    <3>1. \A K : Kind \in K => Queued(K) BY <1>0, TailFacts DEF Queued, Kind
    <3> QED BY <2>2, <3>1, InboxClears DEF Taken
  <2> QED BY <2>1, <2>2
<1>3. /\ (Kind \in EffectResults /\ Ticket = "publish") => Kind \in PublishResults
      /\ (Kind \in EffectResults /\ Ticket = "fork") => Kind \in ForkResults
      /\ Kind \in ForkResults => Kind = "forked" \/ Kind \in ForkFailed
      /\ Ticket \in {"publish", "fork"}
  BY DEF EffectResults, Ticket, Kind, PublishResults, ForkResults, ForkFailed
<1>4. \A k \in {"publish", "fork"} :
           /\ tickets'[k] = "none" => tickets[k] = "none"
           /\ tickets[k] = "none" /\ Ticket # k => tickets'[k] = "none"
           /\ tickets[k] = "none" /\ Kind \notin EffectResults => tickets'[k] = "none"
           /\ tickets'[k] = "committed" => tickets[k] = "committed"
           /\ tickets[k] = "committed" =>
                tickets'[k] = "committed" \/ (Kind \in EffectResults /\ Ticket = k) BY DEF Kinds
<1>5. /\ Kind \in PublishResults =>
           /\ Queued(PublishResults) /\ ~Queued(PublishResults)' /\ ~Ordered("publish")
           /\ worker \notin PublishPlaces /\ tickets["publish"] # "none" /\ tickets["fork"] = "none"
      /\ Kind \in ForkResults =>
           /\ Queued(ForkResults) /\ ~Queued(ForkResults)' /\ ~Ordered("fork")
           /\ worker \notin ForkPlaces /\ tickets["fork"] # "none"
      /\ Kind \in ForkFailed => proc = "none"
  BY <1>0, <1>2 DEF Taken, TicketInv, PublishInv, ForkInv, ChildInv
<1>6. tickets'["publish"] = "none" <=> tickets["publish"] = "none" BY <1>3, <1>4, <1>5
<1>7. tickets'["fork"] = "none" <=> tickets["fork"] = "none" BY <1>3, <1>4, <1>5
<1>8. /\ tickets["publish"] = "committed" /\ worker \in PublishPlaces
           => tickets'["publish"] = "committed"
      /\ tickets["fork"] = "committed" /\ worker \in ForkPlaces
           => tickets'["fork"] = "committed" BY <1>3, <1>4, <1>5
<1>11. PublishInv' BY <1>1, <1>6, <1>7 DEF TicketInv, PublishInv, InboxFades, CmdsFade
<1>12. ForkInv' BY <1>1, <1>6, <1>7 DEF TicketInv, ForkInv, InboxFades, CmdsFade
<1>13. RequestInv' BY <1>1 DEF TicketInv, RequestInv, InboxFades
<1>14. GrantInv' BY <1>4, <1>8, InFlightNext DEF TicketInv, GrantInv, PublishPlaces, ForkPlaces
<1>15. ChildInv' BY <1>0, <1>1, <1>3, <1>4, <1>5, <1>7 DEF TicketInv, ChildInv, InboxFades, CmdsFade, Up
<1> QED BY <1>11, <1>12, <1>13, <1>14, <1>15 DEF TicketInv

(* Before the actor's end no record says verified. *)
LEMMA Unverified ==
  ASSUME TicketInv, stage # "done", UNCHANGED <<rec, disk>>
  PROVE  VerifiedInv'
BY DEF TicketInv, VerifiedInv

LEMMA UnverifiedWrites ==
  ASSUME TicketInv, stage # "done", NEW next, NEW out \in Written, Write(next, out),
         next.retirement # "verified"
  PROVE  VerifiedInv'
<1>1. rec.retirement # "verified" /\ disk.retirement # "verified" BY DEF TicketInv, VerifiedInv
<1>2. rec' \in {rec, next} /\ disk' \in {disk, next} BY WriteIs
<1> QED BY <1>1, <1>2 DEF VerifiedInv

LEMMA TicketActor ==
  ASSUME Base, RecordInv, TicketInv, ActorCase
  PROVE  TicketInv'
<1>0. Queues /\ Flags /\ ActorTypes /\ OtherTypes /\ EndInv BY TypeParts DEF Base
<1>t. /\ rec \in Records /\ disk \in Records /\ inbox \in Seq(EventSet)
      /\ cmds \in Seq(Commands) /\ tickets \in [Kinds -> TicketStates] BY <1>0 DEF ActorTypes, Queues
<1>v. stage # "done" => rec.retirement # "verified" /\ disk.retirement # "verified"
  BY DEF TicketInv, VerifiedInv
<1>w. worker' = worker
  BY DEF ActorCase, Passes, Cancels, Launches, OnCommit, Concludes, Retires, OrdersFork,
         RecordsChild, Holds, OnReadyPoint, Accepts, CompleteRetirement, CommitTransfer,
         ReleaseTransfer, FinishTransfer, ActorFrame
<1>c. EndActor => CmdsFade /\ InboxFades BY <1>t, CmdsFadeEnds, FadeClears DEF EndActor
<1>d. inbox # <<>> /\ inbox' = Tail(inbox) => InboxFades BY <1>t, FadeTakes
<1>1. CASE Passes
  <2>1. /\ inbox # <<>> /\ inbox' = Tail(inbox) /\ stage # "done"
        /\ UNCHANGED <<rec, disk, cmds, stage, doing, answer, tickets, published, row, proc, hasChild>>
    BY <1>1 DEF Passes, Handled, Consume, Quiet
  <2>2. VerifiedInv' BY <2>1, Unverified
  <2> QED BY <1>d, <1>w, <2>1, <2>2, CmdsFadeKeeps, TicketFades
<1>2. CASE Cancels
  <2>1. /\ stage # "done" /\ EndActor
        /\ UNCHANGED <<answer, tickets, published, row>> BY <1>2 DEF Cancels, Handled
  <2>2. VerifiedInv'
    <3> DEFINE next == [rec EXCEPT !.state = "cancelled"]
    <3>1. PICK out \in Written : Write(next, out) BY <1>2 DEF Cancels
    <3>2. next.retirement = rec.retirement BY <1>t DEF Records
    <3> HIDE DEF next
    <3> QED BY <1>v, <2>1, <3>1, <3>2, UnverifiedWrites
  <2> QED BY <1>c, <1>w, <2>1, <2>2, TicketFades DEF EndActor
<1>3. CASE Launches
  <2>1. /\ stage = "deciding" /\ inbox # <<>> /\ Up
        /\ UNCHANGED <<answer, published, row, proc, hasChild>>
        /\ tickets' = [tickets EXCEPT !["publish"] = "issued"]
        /\ \/ EndActor
           \/ /\ stage' = "starting" /\ cmds' = Append(cmds, "publish") /\ doing' = "events"
              /\ inbox' = Tail(inbox) BY <1>3 DEF Launches, Handled
  <2>2. VerifiedInv'
    <3> DEFINE next == [rec EXCEPT !.state = "launched"]
    <3>1. PICK out \in Written : Write(next, out) BY <1>3 DEF Launches
    <3>2. next.retirement = rec.retirement BY <1>t DEF Records
    <3> HIDE DEF next
    <3> QED BY <1>v, <2>1, <3>1, <3>2, UnverifiedWrites
  <2>3. tickets'["publish"] = "issued" /\ tickets'["fork"] = tickets["fork"] BY <1>t, <2>1 DEF Kinds
  <2>4. InboxFades BY <1>c, <1>d, <2>1
  <2>5. /\ tickets["publish"] = "none" /\ tickets["fork"] = "none"
        /\ ~Ordered("publish") /\ worker \notin PublishPlaces /\ ~Queued(PublishResults)
    BY <2>1 DEF TicketInv, PublishInv, ForkInv
  <2>6. /\ Ordered("fork")' => Ordered("fork") /\ stage' # "deciding"
        /\ OrderedOnce("publish")'
        /\ OrderedOnce("fork") => OrderedOnce("fork")'
        /\ doing' = "events" /\ stage' # "deciding"
    <3>1. CASE EndActor BY <1>c, <3>1 DEF CmdsFade, EndActor, TicketInv, PublishInv
    <3>2. CASE cmds' = Append(cmds, "publish") /\ stage' = "starting" /\ doing' = "events"
      <4>1. "publish" \in Commands BY DEF Commands
      <4>2. "fork" # "publish" OBVIOUS
      <4> QED BY <1>t, <2>5, <3>2, <4>1, <4>2, CmdsAdd DEF TicketInv, PublishInv
    <3> QED BY <2>1, <3>1, <3>2
  <2>11. PublishInv' BY <1>w, <2>3, <2>4, <2>5, <2>6 DEF TicketInv, PublishInv, InboxFades
  <2>12. ForkInv' BY <1>w, <2>3, <2>4, <2>5, <2>6 DEF TicketInv, ForkInv, InboxFades
  <2>13. RequestInv' BY <1>w, <2>1, <2>4 DEF TicketInv, RequestInv, InboxFades
  <2>14. GrantInv' BY <1>w, <2>1, <2>3, <2>5, <2>6 DEF TicketInv, GrantInv, PublishPlaces
  <2>15. ChildInv' BY <1>w, <2>1, <2>3, <2>5, <2>6 DEF TicketInv, ChildInv, InboxFades, Up
  <2> QED BY <2>2, <2>11, <2>12, <2>13, <2>14, <2>15 DEF TicketInv
<1>5. CASE Concludes
  <2>1. /\ Handled /\ inbox' = Tail(inbox) /\ stage # "done"
        /\ UNCHANGED <<rec, disk, cmds, stage, answer, published, row, proc>>
        /\ tickets' = Completed /\ doing' = Resumes
        /\ hasChild \/ Kind = "forked" => hasChild'
        /\ Kind \in EffectResults BY <1>5 DEF Concludes, Handled, Consume
  <2>2. VerifiedInv' BY <2>1, Unverified
  <2>3. doing' = "unwinding" => ~InFlight(tickets') BY <2>1 DEF Resumes
  <2>4. \A k \in Kinds : tickets'[k] = IF k = Ticket THEN "completed" ELSE tickets[k]
    BY <1>t, <2>1 DEF Completed
  <2> QED BY <1>w, <2>1, <2>2, <2>3, <2>4, CmdsFadeKeeps, TicketSettles
<1>6. CASE Retires
  <2>1. /\ Handled /\ stage # "done"
        /\ UNCHANGED <<answer, published, row, proc>>
        /\ hasChild \/ Kind = "forked" => hasChild'
        /\ tickets' = Settled(IF Kind \in EffectResults THEN Completed ELSE tickets)
        /\ \/ EndActor
           \/ /\ inbox' = Tail(inbox) /\ UNCHANGED <<stage, cmds>>
              /\ doing' = IF InFlight(tickets') THEN "events" ELSE "unwinding"
    BY <1>6 DEF Retires, Handled, Consume
  <2>2. VerifiedInv'
    <3> DEFINE next == [rec EXCEPT !.retirement = "requested"]
    <3>1. PICK out \in Written : Write(next, out) BY <1>6 DEF Retires
    <3>2. next.retirement = "requested" BY <1>t DEF Records
    <3> HIDE DEF next
    <3> QED BY <2>1, <3>1, <3>2, UnverifiedWrites
  <2>3. doing' = "unwinding" => ~InFlight(tickets') BY <2>1 DEF EndActor
  <2>4. CmdsFade BY <1>c, <2>1, CmdsFadeKeeps
  <2>5. stage' \in {stage, "done"} /\ inbox' \in {<<>>, Tail(inbox)} BY <2>1 DEF EndActor
  <2>6. Kind \in EffectResults =>
          \A k \in Kinds : Completed[k] = IF k = Ticket THEN "completed" ELSE tickets[k]
    BY <1>t DEF Completed
  <2> DEFINE t == IF Kind \in EffectResults THEN Completed ELSE tickets
  <2>7. \A k \in Kinds : t[k] = IF Kind \in EffectResults /\ k = Ticket THEN "completed" ELSE tickets[k]
    BY <2>6
  <2>8. tickets' = Settled(t) BY <2>1
  <2> HIDE DEF t
  <2>9. \A k \in Kinds : tickets'[k] = IF t[k] = "issued" THEN "revoked" ELSE t[k] BY <2>8 DEF Settled
  <2>10. \A k \in Kinds :
           /\ tickets'[k] = "none" => tickets[k] = "none"
           /\ tickets[k] = "none" /\ Ticket # k => tickets'[k] = "none"
           /\ tickets[k] = "none" /\ Kind \notin EffectResults => tickets'[k] = "none"
           /\ tickets'[k] = "committed" => tickets[k] = "committed"
           /\ tickets[k] = "committed" =>
                tickets'[k] = "committed" \/ (Kind \in EffectResults /\ Ticket = k) BY <2>7, <2>9
  <2> QED BY <1>w, <2>1, <2>2, <2>3, <2>4, <2>5, <2>10, TicketSettles
<1>7. CASE RecordsChild
  <2>1. /\ Handled /\ stage # "done" /\ Kind = "forked"
        /\ UNCHANGED <<answer, published, row, proc>>
        /\ hasChild' = TRUE /\ tickets' = Completed
        /\ \/ EndActor
           \/ inbox' = Tail(inbox) /\ UNCHANGED <<stage, cmds, doing>>
    BY <1>7 DEF RecordsChild, Handled, Consume
  <2>2. VerifiedInv'
    <3>1. PICK out \in Written : Write(rec, out) BY <1>7 DEF RecordsChild
    <3> QED BY <1>v, <2>1, <3>1, UnverifiedWrites
  <2>3. doing' # "unwinding" BY <2>1 DEF EndActor, Handled
  <2>4. CmdsFade BY <1>c, <2>1, CmdsFadeKeeps
  <2>5. stage' \in {stage, "done"} /\ inbox' \in {<<>>, Tail(inbox)} BY <2>1 DEF EndActor
  <2>6. \A k \in Kinds : tickets'[k] = IF k = Ticket THEN "completed" ELSE tickets[k]
    BY <1>t, <2>1 DEF Completed
  <2>7. Kind \in EffectResults BY <2>1 DEF EffectResults
  <2> QED BY <1>w, <2>1, <2>2, <2>3, <2>4, <2>5, <2>6, <2>7, TicketSettles
<1>8. CASE OrdersFork
  <2>1. /\ stage # "done" /\ inbox # <<>> /\ Up /\ doing = "events"
        /\ UNCHANGED <<answer, published, row, proc, hasChild>>
        /\ tickets' = [Completed EXCEPT !["fork"] = "issued"]
        /\ Kind = "published"
        /\ \/ EndActor
           \/ cmds' = Append(cmds, "fork") /\ inbox' = Tail(inbox) /\ UNCHANGED <<stage, doing>>
    BY <1>8 DEF OrdersFork, Handled
  <2>2. VerifiedInv'
    <3>1. PICK out \in Written : Write(rec, out) BY <1>8 DEF OrdersFork
    <3> QED BY <1>v, <2>1, <3>1, UnverifiedWrites
  <2>3. tickets'["publish"] = "completed" /\ tickets'["fork"] = "issued"
    BY <1>t, <2>1 DEF Kinds, Completed, Ticket, Kind
  <2>4. InboxFades BY <1>c, <1>d, <2>1
  <2>5. Queued(PublishResults) /\ ~Queued(PublishResults)'
    <3>1. Kind \in PublishResults BY <2>1 DEF PublishResults
    <3>2. Queued(PublishResults) BY <1>t, <2>1, <3>1, TailFacts DEF Queued, Kind
    <3>3. CASE EndActor BY <3>2, <3>3, InboxClears DEF EndActor
    <3>4. CASE inbox' = Tail(inbox)
      BY <1>t, <2>1, <3>1, <3>2, <3>4, FadeTakes DEF Taken, TicketInv, PublishInv
    <3> QED BY <2>1, <3>3, <3>4
  <2>6. /\ tickets["fork"] = "none" /\ tickets["publish"] # "none" /\ ~Ordered("publish")
        /\ worker \notin PublishPlaces /\ stage # "deciding"
        /\ ~Ordered("fork") /\ worker \notin ForkPlaces /\ ~Queued(ForkResults)
    BY <2>5 DEF TicketInv, PublishInv, ForkInv
  <2>7. proc = "none" BY <2>1, <2>6 DEF TicketInv, ChildInv
  <2>8. /\ ~Ordered("publish")' /\ OrderedOnce("publish")' /\ OrderedOnce("fork")'
        /\ stage' # "deciding" /\ doing' = "events"
    <3>1. CASE EndActor BY <1>c, <2>6, <3>1 DEF CmdsFade, EndActor, TicketInv, PublishInv, ForkInv
    <3>2. CASE cmds' = Append(cmds, "fork") /\ UNCHANGED <<stage, doing>>
      <4>1. "fork" \in Commands BY DEF Commands
      <4>2. "fork" # "publish" OBVIOUS
      <4> QED BY <1>t, <2>1, <2>6, <3>2, <4>1, <4>2, CmdsAdd DEF TicketInv, PublishInv, ForkInv
    <3> QED BY <2>1, <3>1, <3>2
  <2>11. PublishInv' BY <1>w, <2>3, <2>4, <2>5, <2>6, <2>8 DEF TicketInv, PublishInv, InboxFades
  <2>12. ForkInv' BY <1>w, <2>3, <2>4, <2>6, <2>8 DEF TicketInv, ForkInv, InboxFades
  <2>13. RequestInv' BY <1>w, <2>1, <2>4 DEF TicketInv, RequestInv, InboxFades
  <2>14. GrantInv' BY <1>w, <2>1, <2>3, <2>6, <2>8 DEF TicketInv, GrantInv, PublishPlaces, ForkPlaces
  <2>15. ChildInv' BY <2>1, <2>7 DEF ChildInv
  <2> QED BY <2>2, <2>11, <2>12, <2>13, <2>14, <2>15 DEF TicketInv
<1>9. CASE Holds
  <2>1. /\ stage = "starting" /\ inbox # <<>> /\ Up /\ doing = "events"
        /\ UNCHANGED <<answer, published, row, proc, hasChild, tickets>>
        /\ \/ EndActor
           \/ /\ stage' = "held" /\ cmds' = Append(cmds, "ready-point") /\ doing' = "events"
              /\ inbox' = Tail(inbox) BY <1>9 DEF Holds, Handled
  <2>2. VerifiedInv'
    <3> DEFINE next == [rec EXCEPT !.held = TRUE]
    <3>1. PICK out \in Written : Write(next, out) BY <1>9 DEF Holds
    <3>2. next.retirement = rec.retirement BY <1>t DEF Records
    <3> HIDE DEF next
    <3> QED BY <1>v, <2>1, <3>1, <3>2, UnverifiedWrites
  <2>3. InboxFades /\ CmdsFade BY <1>c, <1>d, <1>t, <2>1, CmdsFadeAdds
  <2> QED BY <1>w, <2>1, <2>2, <2>3, TicketFades DEF EndActor
<1>10. CASE Accepts
  <2>1. /\ inbox # <<>> /\ inbox' = Tail(inbox) /\ stage # "done"
        /\ UNCHANGED <<rec, disk, cmds, stage, answer, tickets, published, row, proc, hasChild>>
        /\ doing = "events" /\ doing' \in {"events", "committing"} BY <1>10 DEF Accepts, Handled, Consume
  <2>2. VerifiedInv' BY <2>1, Unverified
  <2> QED BY <1>d, <1>w, <2>1, <2>2, CmdsFadeKeeps, TicketFades
<1>11. CASE CommitTransfer
  <2>1. /\ UNCHANGED <<answer, tickets, published, row, proc, hasChild>> /\ stage = "ready"
        /\ doing = "committing"
        /\ EndActor \/ (doing' = "releasing" /\ UNCHANGED <<stage, inbox, cmds>>)
    BY <1>11 DEF CommitTransfer, RecordInv
  <2>2. VerifiedInv'
    <3> DEFINE next == [rec EXCEPT !.state = "transferred", !.by = current]
    <3>1. PICK out \in Outcomes : Write(next, out) BY <1>11 DEF CommitTransfer
    <3>2. next.retirement = rec.retirement BY <1>t DEF Records
    <3>3. out \in Written BY DEF Outcomes, Written
    <3> HIDE DEF next
    <3> QED BY <1>v, <2>1, <3>1, <3>2, <3>3, UnverifiedWrites
  <2>3. InboxFades /\ CmdsFade BY <1>c, <2>1, CmdsFadeKeeps, FadeKeeps
  <2> QED BY <1>w, <2>1, <2>2, <2>3, TicketFades DEF EndActor
<1>12. CASE ReleaseTransfer
  <2>1. /\ UNCHANGED <<rec, disk, inbox, cmds, stage, answer, tickets, published, row, proc>>
        /\ doing' = "finishing" /\ stage # "done" BY <1>0, <1>12 DEF ReleaseTransfer, EndInv
  <2>2. VerifiedInv' BY <2>1, Unverified
  <2>3. InboxFades /\ CmdsFade BY <2>1, CmdsFadeKeeps, FadeKeeps
  <2> QED BY <1>w, <2>1, <2>2, <2>3, TicketFades
<1>13. CASE FinishTransfer
  <2>1. /\ UNCHANGED <<cmds, answer, tickets, published, row>>
        /\ stage' = "done" /\ doing' = "events" /\ stage # "done" /\ inbox' = <<>>
    BY <1>0, <1>13 DEF FinishTransfer, EndInv
  <2>2. VerifiedInv'
    <3>1. PICK out \in Outcomes : Write(rec, out) BY <1>13 DEF FinishTransfer
    <3>2. out \in Written BY DEF Outcomes, Written
    <3> QED BY <1>v, <2>1, <3>1, <3>2, UnverifiedWrites
  <2>3. InboxFades /\ CmdsFade BY <2>1, CmdsFadeKeeps, FadeClears
  <2> QED BY <1>w, <2>1, <2>2, <2>3, TicketFades
<1>14. CASE CompleteRetirement
  <2>0. /\ doing = "unwinding" /\ stage # "done" /\ Up /\ EndActor
        /\ UNCHANGED <<answer, tickets, published, hasChild>>
    BY <1>0, <1>14 DEF CompleteRetirement, EndInv
  <2>1. PICK gone \in BOOLEAN, unwound \in BOOLEAN :
          LET verified == (hasChild => gone) /\ (published => unwound) IN
           /\ proc' = IF hasChild /\ gone THEN "gone" ELSE proc
           /\ row' = (row /\ ~(published /\ unwound))
           /\ \E out \in Outcomes :
                Write([rec EXCEPT !.retirement =
                        IF verified THEN "verified" ELSE "incomplete"], out)
    BY <1>14 DEF CompleteRetirement
  <2> DEFINE verified == (hasChild => gone) /\ (published => unwound)
             next == [rec EXCEPT !.retirement = IF verified THEN "verified" ELSE "incomplete"]
  <2>2. next.retirement = "verified" <=> verified BY <1>t DEF Records
  <2>3. PICK out \in Outcomes : Write(next, out) BY <2>1
  <2>4. row' => row /\ ~(published /\ unwound) BY <2>1
  <2>5. verified => ~row' /\ proc' \in {"none", "gone"}
    <3>1. row => published BY DEF TicketInv, GrantInv
    <3>2. ~InFlight(tickets) BY <2>0 DEF TicketInv, GrantInv
    <3>3. ~hasChild => proc = "none" BY <2>0, <3>2, InFlightIs DEF TicketInv, ChildInv
    <3> QED BY <2>1, <2>4, <3>1, <3>3
  <2> HIDE DEF next, verified
  <2>6. out \in Written BY DEF Outcomes, Written
  <2>7. rec' \in {rec, next} /\ disk' \in {disk, next} BY <2>3, <2>6, WriteIs
  <2>8. VerifiedInv'
    <3>1. ~InFlight(tickets)' BY <2>0 DEF TicketInv, GrantInv, InFlight
    <3>2. stage' = "done" BY <2>0 DEF EndActor
    <3> QED BY <1>v, <2>0, <2>2, <2>5, <2>7, <3>1, <3>2 DEF VerifiedInv
  <2> QED BY <1>c, <1>w, <2>0, <2>4, <2>8, TicketFades DEF EndActor
<1>15. CASE OnReadyPoint
  <2>1. /\ Kind = "ready-point" /\ inbox # <<>> /\ inbox' = Tail(inbox) /\ stage # "done"
        /\ UNCHANGED <<rec, disk, cmds, tickets, published, row, proc, hasChild>>
        /\ doing = "events" /\ doing' \in {"events", "committing"}
        /\ answer' \in {"yes", "no"} /\ stage' \in {stage, "ready"}
    BY <1>15 DEF OnReadyPoint, Handling, ActorUp, Kind
  <2>2. VerifiedInv' BY <2>1, Unverified
  <2>3. InboxFades /\ CmdsFade BY <1>d, <2>1, CmdsFadeKeeps
  <2>4. Queued(ReadyPoints) /\ ~Queued(ReadyPoints)' /\ worker = "asking-ready"
    <3>1. Kind \in ReadyPoints BY <2>1 DEF ReadyPoints
    <3> QED BY <1>t, <2>1, <3>1, FadeTakes DEF Taken, TicketInv, RequestInv
  <2>11. PublishInv' BY <1>w, <2>1, <2>3 DEF TicketInv, PublishInv, InboxFades, CmdsFade
  <2>12. ForkInv' BY <1>w, <2>1, <2>3 DEF TicketInv, ForkInv, InboxFades, CmdsFade
  <2>13. RequestInv' BY <1>w, <2>1, <2>3, <2>4 DEF TicketInv, RequestInv, InboxFades, AskingPlaces
  <2>14. GrantInv' BY <1>w, <2>1, <2>4 DEF TicketInv, GrantInv
  <2>15. ChildInv' BY <1>w, <2>1, <2>3 DEF TicketInv, ChildInv, InboxFades, CmdsFade, Up
  <2> QED BY <2>2, <2>11, <2>12, <2>13, <2>14, <2>15 DEF TicketInv
<1>16. CASE OnCommit
  <2>1. /\ Kind \in {"commit-publish", "commit-fork"} /\ inbox # <<>> /\ inbox' = Tail(inbox)
        /\ stage # "done" /\ doing = "events"
        /\ UNCHANGED <<rec, disk, cmds, stage, doing, row, proc, hasChild>>
    BY <1>16 DEF OnCommit, Handling, ActorUp, Kind, Consume
  <2>2. VerifiedInv' BY <2>1, Unverified
  <2>3. InboxFades /\ CmdsFade BY <1>d, <2>1, CmdsFadeKeeps
  <2>4. CASE Kind = "commit-publish"
    <3>1. Ticket = "publish" BY <2>4 DEF Ticket, Kind
    <3>2. ~Queued(CommitPublish)' /\ worker = "asking-publish"
      <4>1. Kind \in CommitPublish BY <2>4 DEF CommitPublish
      <4> QED BY <1>t, <2>1, <4>1, FadeTakes DEF Taken, TicketInv, RequestInv
    <3>3. /\ tickets["publish"] # "none" /\ tickets["fork"] = "none" /\ stage # "deciding"
      BY <3>2 DEF TicketInv, PublishInv, ForkInv, PublishPlaces
    <3>4. /\ tickets'["publish"] # "none" /\ tickets'["fork"] = tickets["fork"]
          /\ answer' = "yes" => tickets'["publish"] = "committed"
          /\ published => published'
          /\ tickets'["publish"] = "committed" => tickets["publish"] = "committed" \/ published'
          /\ answer' \in {"yes", "no"} BY <1>16, <1>t, <3>1, <3>3 DEF OnCommit, Kinds
    <3>11. PublishInv' BY <1>w, <2>1, <2>3, <3>3, <3>4 DEF TicketInv, PublishInv, InboxFades, CmdsFade
    <3>12. ForkInv' BY <1>w, <2>1, <2>3, <3>3, <3>4 DEF TicketInv, ForkInv, InboxFades, CmdsFade
    <3>13. RequestInv'
      BY <1>w, <2>1, <2>3, <3>2, <3>4 DEF TicketInv, RequestInv, InboxFades, AskingPlaces
    <3>14. GrantInv' BY <1>w, <2>1, <3>2, <3>3, <3>4 DEF TicketInv, GrantInv
    <3>15. ChildInv' BY <1>w, <2>1, <2>3, <3>3, <3>4 DEF TicketInv, ChildInv, InboxFades, CmdsFade, Up
    <3> QED BY <2>2, <3>11, <3>12, <3>13, <3>14, <3>15 DEF TicketInv
  <2>5. CASE Kind = "commit-fork"
    <3>1. Ticket = "fork" BY <2>5 DEF Ticket, Kind
    <3>2. ~Queued(CommitFork)' /\ worker = "asking-fork"
      <4>1. Kind \in CommitFork BY <2>5 DEF CommitFork
      <4> QED BY <1>t, <2>1, <4>1, FadeTakes DEF Taken, TicketInv, RequestInv
    <3>3. /\ tickets["fork"] # "none" /\ stage # "deciding" BY <3>2 DEF TicketInv, ForkInv, ForkPlaces
    <3>4. /\ tickets'["fork"] # "none" /\ tickets'["publish"] = tickets["publish"]
          /\ answer' = "yes" => tickets'["fork"] = "committed"
          /\ tickets["fork"] = "committed" => tickets'["fork"] = "committed"
          /\ published => published'
          /\ answer' \in {"yes", "no"} BY <1>16, <1>t, <3>1, <3>3 DEF OnCommit, Kinds
    <3>11. PublishInv' BY <1>w, <2>1, <2>3, <3>3, <3>4 DEF TicketInv, PublishInv, InboxFades, CmdsFade
    <3>12. ForkInv' BY <1>w, <2>1, <2>3, <3>3, <3>4 DEF TicketInv, ForkInv, InboxFades, CmdsFade
    <3>13. RequestInv'
      BY <1>w, <2>1, <2>3, <3>2, <3>4 DEF TicketInv, RequestInv, InboxFades, AskingPlaces
    <3>14. GrantInv' BY <1>w, <2>1, <3>2, <3>3, <3>4 DEF TicketInv, GrantInv
    <3>15. ChildInv' BY <1>w, <2>1, <2>3, <3>3, <3>4 DEF TicketInv, ChildInv, InboxFades, CmdsFade, Up
    <3> QED BY <2>2, <3>11, <3>12, <3>13, <3>14, <3>15 DEF TicketInv
  <2> QED BY <2>1, <2>4, <2>5
<1> QED BY <1>1, <1>2, <1>3, <1>5, <1>6, <1>7, <1>8, <1>9, <1>10, <1>11, <1>12,
           <1>13, <1>14, <1>15, <1>16 DEF ActorCase

LEMMA PostAdds ==
  ASSUME inbox \in Seq(EventSet), NEW k \in WorkerKinds, Post(Of(k))
  PROVE  \A K : /\ Queued(K)' => Queued(K) \/ k \in K
                /\ Single(K) /\ (k \notin K \/ ~Queued(K)) => Single(K)'
<1>1. Of(k) \in EventSet /\ Of(k).kind = k BY EventFacts DEF Events, WorkerKinds
<1>2. CASE inbox' = inbox BY <1>2, InboxKeeps
<1>3. CASE inbox' = Append(inbox, Of(k)) BY <1>1, <1>3, InboxAdds
<1> QED BY <1>2, <1>3 DEF Post

(* The worker takes a command or an answer, and reports. *)
LEMMA TicketWorker ==
  ASSUME Base, TicketInv,
         TakeCommand \/ TakeAnswer \/ PublishEffect \/ ForkEffect \/ ReadAck \/ WorkerStops
  PROVE  TicketInv'
<1>0. Queues /\ Flags /\ ActorTypes /\ OtherTypes /\ EndInv BY TypeParts DEF Base
<1>t. /\ inbox \in Seq(EventSet) /\ cmds \in Seq(Commands)
      /\ worker \in {"idle", "asking-publish", "asking-fork", "asking-ready", "publishing",
                     "forking", "reading-ack", "serving", "stopped"} BY <1>0 DEF OtherTypes, Queues
<1>u. UNCHANGED <<stage, doing, rec, disk, tickets, published, hasChild>>
  BY DEF TakeCommand, TakeAnswer, PublishEffect, ForkEffect, ReadAck, WorkerStops, WorkerOnly
<1>e. stage = "done" => \A K : ~Queued(K) BY <1>0, InboxEmpty DEF EndInv
<1>1. ASSUME TakeCommand PROVE TicketInv'
  <2>1. /\ worker = "idle" /\ cmds # <<>> /\ cmds' = Tail(cmds)
        /\ UNCHANGED <<answer, row, proc>> /\ answer = "none"
    BY <1>1 DEF TakeCommand, TicketInv, RequestInv, AskingPlaces
  <2>2. VerifiedInv' BY <1>u, <2>1 DEF TicketInv, VerifiedInv, InFlight
  <2>3. CmdsFade BY <1>t, <2>1, CmdsTake DEF CmdsFade
  <2>4. /\ ~Queued(CommitPublish) /\ ~Queued(CommitFork) /\ ~Queued(ReadyPoints)
    BY <2>1 DEF TicketInv, RequestInv
  <2>5. CASE Head(cmds) = "ready-point" /\ Post(Of("ready-point")) /\ worker' = "asking-ready"
    <3>1. /\ Queued(PublishResults)' => Queued(PublishResults)
          /\ Queued(ForkResults)' => Queued(ForkResults)
          /\ Queued(ForkFailed)' => Queued(ForkFailed)
          /\ Queued(CommitPublish)' => Queued(CommitPublish)
          /\ Queued(CommitFork)' => Queued(CommitFork)
          /\ Single(PublishResults) => Single(PublishResults)'
          /\ Single(ForkResults) => Single(ForkResults)'
          /\ Single(CommitPublish) => Single(CommitPublish)'
          /\ Single(CommitFork) => Single(CommitFork)'
          /\ Single(ReadyPoints) => Single(ReadyPoints)'
      <4>1. "ready-point" \in WorkerKinds BY DEF WorkerKinds
      <4>2. /\ "ready-point" \notin PublishResults /\ "ready-point" \notin ForkResults
            /\ "ready-point" \notin ForkFailed /\ "ready-point" \notin CommitPublish
            /\ "ready-point" \notin CommitFork
        BY DEF PublishResults, ForkResults, ForkFailed, CommitPublish, CommitFork
      <4> QED BY <1>t, <2>4, <2>5, <4>1, <4>2, PostAdds
    <3>11. PublishInv' BY <1>u, <2>3, <2>5, <3>1 DEF TicketInv, PublishInv, CmdsFade, PublishPlaces
    <3>12. ForkInv' BY <1>u, <2>3, <2>5, <3>1 DEF TicketInv, ForkInv, CmdsFade, ForkPlaces
    <3>13. RequestInv' BY <2>1, <2>4, <2>5, <3>1 DEF TicketInv, RequestInv
    <3>14. GrantInv' BY <1>u, <2>1, <2>5 DEF TicketInv, GrantInv, InFlight
    <3>15. ChildInv' BY <1>u, <2>1, <2>3, <2>5, <3>1 DEF TicketInv, ChildInv, CmdsFade, ForkPlaces, Up
    <3> QED BY <2>2, <3>11, <3>12, <3>13, <3>14, <3>15 DEF TicketInv
  <2>6. ASSUME Head(cmds) = "publish",
               NEW k \in {"publish-failed", "commit-publish"}, Post(Of(k)),
               worker' = IF k = "publish-failed" THEN "idle" ELSE "asking-publish"
        PROVE  TicketInv'
    <3>0. /\ Ordered("publish") /\ ~Ordered("publish")'
          /\ ~Queued(PublishResults) /\ tickets["publish"] # "none" /\ tickets["fork"] = "none"
          /\ stage # "deciding" BY <1>t, <2>1, <2>6, CmdsTake DEF TicketInv, PublishInv, ForkInv
    <3>1. /\ Queued(PublishResults)' => k = "publish-failed"
          /\ Queued(CommitPublish)' => k = "commit-publish"
          /\ Queued(ForkResults)' => Queued(ForkResults)
          /\ Queued(ForkFailed)' => Queued(ForkFailed)
          /\ Queued(ReadyPoints)' => Queued(ReadyPoints)
          /\ Queued(CommitFork)' => Queued(CommitFork)
          /\ Single(PublishResults) => Single(PublishResults)'
          /\ Single(ForkResults) => Single(ForkResults)'
          /\ Single(CommitPublish) => Single(CommitPublish)'
          /\ Single(CommitFork) => Single(CommitFork)'
          /\ Single(ReadyPoints) => Single(ReadyPoints)'
      <4>1. k \in WorkerKinds BY <2>6 DEF WorkerKinds
      <4>2. /\ k \in PublishResults => k = "publish-failed"
            /\ k \in CommitPublish => k = "commit-publish"
            /\ k \notin ForkResults /\ k \notin ForkFailed /\ k \notin ReadyPoints
            /\ k \notin CommitFork
        BY <2>6 DEF PublishResults, ForkResults, ForkFailed, CommitPublish, CommitFork, ReadyPoints
      <4> QED BY <1>t, <2>4, <2>6, <3>0, <4>1, <4>2, PostAdds
    <3>11. PublishInv' BY <1>u, <2>3, <2>6, <3>0, <3>1 DEF TicketInv, PublishInv, CmdsFade, PublishPlaces
    <3>12. ForkInv' BY <1>u, <2>3, <2>6, <3>0, <3>1 DEF TicketInv, ForkInv, CmdsFade, ForkPlaces
    <3>13. RequestInv' BY <2>1, <2>4, <2>6, <3>1 DEF TicketInv, RequestInv
    <3>14. GrantInv' BY <1>u, <2>1, <2>6 DEF TicketInv, GrantInv, InFlight
    <3>15. ChildInv' BY <1>u, <2>1, <2>3, <2>6, <3>1 DEF TicketInv, ChildInv, CmdsFade, ForkPlaces, Up
    <3> QED BY <2>2, <3>11, <3>12, <3>13, <3>14, <3>15 DEF TicketInv
  <2>7. ASSUME Head(cmds) = "fork",
               NEW k \in {"fork-failed", "commit-fork"}, Post(Of(k)),
               worker' = IF k = "fork-failed" THEN "idle" ELSE "asking-fork"
        PROVE  TicketInv'
    <3>0. /\ Ordered("fork") /\ ~Ordered("fork")'
          /\ ~Queued(ForkResults) /\ tickets["fork"] # "none"
          /\ stage # "deciding" BY <1>t, <2>1, <2>7, CmdsTake DEF TicketInv, ForkInv
    <3>1. /\ Queued(ForkResults)' => k = "fork-failed"
          /\ Queued(CommitFork)' => k = "commit-fork"
          /\ Queued(PublishResults)' => Queued(PublishResults)
          /\ Queued(ReadyPoints)' => Queued(ReadyPoints)
          /\ Queued(CommitPublish)' => Queued(CommitPublish)
          /\ Single(PublishResults) => Single(PublishResults)'
          /\ Single(ForkResults) => Single(ForkResults)'
          /\ Single(CommitPublish) => Single(CommitPublish)'
          /\ Single(CommitFork) => Single(CommitFork)'
          /\ Single(ReadyPoints) => Single(ReadyPoints)'
      <4>1. k \in WorkerKinds BY <2>7 DEF WorkerKinds
      <4>2. /\ k \in ForkResults => k = "fork-failed"
            /\ k \in CommitFork => k = "commit-fork"
            /\ k \notin PublishResults /\ k \notin ReadyPoints /\ k \notin CommitPublish
        BY <2>7 DEF PublishResults, ForkResults, CommitPublish, CommitFork, ReadyPoints
      <4> QED BY <1>t, <2>4, <2>7, <3>0, <4>1, <4>2, PostAdds
    <3>11. PublishInv' BY <1>u, <2>3, <2>7, <3>0, <3>1 DEF TicketInv, PublishInv, CmdsFade, PublishPlaces
    <3>12. ForkInv' BY <1>u, <2>3, <2>7, <3>0, <3>1 DEF TicketInv, ForkInv, CmdsFade, ForkPlaces
    <3>13. RequestInv' BY <2>1, <2>4, <2>7, <3>1 DEF TicketInv, RequestInv
    <3>14. GrantInv' BY <1>u, <2>1, <2>7 DEF TicketInv, GrantInv, InFlight
    <3>15. ChildInv' BY <1>u, <2>1, <2>7, <3>0 DEF TicketInv, ChildInv, Up
    <3> QED BY <2>2, <3>11, <3>12, <3>13, <3>14, <3>15 DEF TicketInv
  <2> QED BY <1>1, <2>1, <2>5, <2>6, <2>7 DEF TakeCommand
<1>2. ASSUME TakeAnswer PROVE TicketInv'
  <2>1. /\ worker \in AskingPlaces /\ answer' = "none"
        /\ answer # "none" \/ stage = "done"
        /\ \/ worker' = "idle"
           \/ answer = "yes" /\ worker = "asking-ready" /\ worker' = "serving"
           \/ answer = "yes" /\ worker = "asking-publish" /\ worker' = "publishing"
           \/ answer = "yes" /\ worker = "asking-fork" /\ worker' = "forking"
        /\ UNCHANGED <<inbox, cmds, row, proc>> BY <1>2 DEF TakeAnswer, AskingPlaces, ActorUp
  <2>2. VerifiedInv' BY <1>u, <2>1 DEF TicketInv, VerifiedInv, InFlight
  <2>3. CmdsFade /\ InboxFades BY <2>1, CmdsFadeKeeps, FadeKeeps
  <2>4. ~Queued(CommitPublish) /\ ~Queued(CommitFork) /\ ~Queued(ReadyPoints)
    BY <1>e, <2>1 DEF TicketInv, RequestInv
  <2>5. /\ worker' \in PublishPlaces => worker \in PublishPlaces
        /\ worker' \in ForkPlaces => worker \in ForkPlaces
        /\ worker' \notin AskingPlaces
        /\ worker' # "stopped" /\ worker # "stopped" BY <2>1 DEF PublishPlaces, ForkPlaces, AskingPlaces
  <2>11. PublishInv' BY <1>u, <2>3, <2>5 DEF TicketInv, PublishInv, InboxFades, CmdsFade
  <2>12. ForkInv' BY <1>u, <2>3, <2>5 DEF TicketInv, ForkInv, InboxFades, CmdsFade
  <2>13. RequestInv' BY <2>1, <2>3, <2>4 DEF TicketInv, RequestInv, InboxFades
  <2>14. GrantInv' BY <1>u, <2>1, <2>5 DEF TicketInv, GrantInv, InFlight
  <2>15. ChildInv' BY <1>u, <2>1, <2>3, <2>5 DEF TicketInv, ChildInv, InboxFades, CmdsFade, Up
  <2> QED BY <2>2, <2>11, <2>12, <2>13, <2>14, <2>15 DEF TicketInv
<1>3. ASSUME PublishEffect PROVE TicketInv'
  <2>1. /\ worker = "publishing" /\ worker' = "idle" /\ UNCHANGED <<cmds, answer, proc>>
        /\ \E k \in PublishResults : Post(Of(k)) BY <1>3 DEF PublishEffect, PublishResults
  <2>2. /\ tickets["publish"] = "committed" /\ tickets["fork"] = "none" /\ published
        /\ ~Ordered("publish") /\ ~Queued(PublishResults) /\ answer = "none"
        /\ disk.retirement # "verified"
        /\ ~Queued(CommitPublish) /\ ~Queued(CommitFork) /\ ~Queued(ReadyPoints)
        /\ stage # "deciding"
    BY <2>1, InFlightIs DEF TicketInv, PublishInv, ForkInv, RequestInv, GrantInv, VerifiedInv,
       PublishPlaces, AskingPlaces
  <2>3. /\ Queued(ForkResults)' => Queued(ForkResults)
        /\ Queued(ForkFailed)' => Queued(ForkFailed)
        /\ ~Queued(ReadyPoints)' /\ ~Queued(CommitFork)' /\ ~Queued(CommitPublish)'
        /\ Single(PublishResults) => Single(PublishResults)'
        /\ Single(ForkResults) => Single(ForkResults)'
        /\ Single(CommitPublish) => Single(CommitPublish)'
        /\ Single(CommitFork) => Single(CommitFork)'
        /\ Single(ReadyPoints) => Single(ReadyPoints)'
    <3>1. PICK k \in PublishResults : Post(Of(k)) BY <2>1
    <3>2. /\ k \in WorkerKinds /\ k \notin ForkResults /\ k \notin ForkFailed
          /\ k \notin ReadyPoints /\ k \notin CommitFork /\ k \notin CommitPublish
      BY DEF WorkerKinds, PublishResults, ForkResults, ForkFailed, ReadyPoints, CommitFork, CommitPublish
    <3> QED BY <1>t, <2>2, <3>1, <3>2, PostAdds
  <2>4. CmdsFade BY <2>1, CmdsFadeKeeps
  <2>10. VerifiedInv' BY <1>u, <2>2 DEF TicketInv, VerifiedInv
  <2>11. PublishInv' BY <1>u, <2>1, <2>2, <2>3, <2>4 DEF TicketInv, PublishInv, CmdsFade, PublishPlaces
  <2>12. ForkInv' BY <1>u, <2>1, <2>2, <2>3, <2>4 DEF TicketInv, ForkInv, CmdsFade, ForkPlaces
  <2>13. RequestInv' BY <2>1, <2>2, <2>3 DEF TicketInv, RequestInv
  <2>14. GrantInv' BY <1>u, <2>1, <2>2 DEF TicketInv, GrantInv, InFlight
  <2>15. ChildInv' BY <1>u, <2>1, <2>3, <2>4 DEF TicketInv, ChildInv, CmdsFade, ForkPlaces, Up
  <2> QED BY <2>10, <2>11, <2>12, <2>13, <2>14, <2>15 DEF TicketInv
<1>4. ASSUME ForkEffect PROVE TicketInv'
  <2>1. /\ worker = "forking" /\ UNCHANGED <<cmds, answer, row>>
        /\ \E k \in ForkResults :
             /\ Post(Of(k))
             /\ \/ k = "forked" /\ proc' = "preparing" /\ worker' = "reading-ack"
                \/ UNCHANGED proc /\ worker' = "idle" BY <1>4 DEF ForkEffect, ForkResults
  <2>2. /\ tickets["fork"] = "committed"
        /\ ~Ordered("fork") /\ ~Queued(ForkResults) /\ answer = "none"
        /\ disk.retirement # "verified"
        /\ ~Queued(CommitPublish) /\ ~Queued(CommitFork) /\ ~Queued(ReadyPoints)
        /\ stage # "deciding" /\ ~Queued(ForkFailed)
    BY <2>1, InFlightIs, FailedIsResult DEF TicketInv, ForkInv, RequestInv, GrantInv,
       VerifiedInv, ForkPlaces, AskingPlaces
  <2>3. /\ Queued(PublishResults)' => Queued(PublishResults)
        /\ Queued(ForkFailed)' => UNCHANGED proc
        /\ ~Queued(ReadyPoints)' /\ ~Queued(CommitFork)' /\ ~Queued(CommitPublish)'
        /\ Single(PublishResults) => Single(PublishResults)'
        /\ Single(ForkResults) => Single(ForkResults)'
        /\ Single(CommitPublish) => Single(CommitPublish)'
        /\ Single(CommitFork) => Single(CommitFork)'
        /\ Single(ReadyPoints) => Single(ReadyPoints)'
        /\ worker' \in {"reading-ack", "idle"}
    <3>1. PICK k \in ForkResults :
            /\ Post(Of(k)) /\ worker' \in {"reading-ack", "idle"}
            /\ k = "forked" \/ UNCHANGED proc BY <2>1
    <3>2. /\ k \in WorkerKinds /\ k \notin PublishResults
          /\ k \notin ReadyPoints /\ k \notin CommitFork /\ k \notin CommitPublish
          /\ "forked" \notin ForkFailed
      BY DEF WorkerKinds, PublishResults, ForkResults, ForkFailed, ReadyPoints, CommitFork, CommitPublish
    <3> QED BY <1>t, <2>2, <3>1, <3>2, PostAdds
  <2>4. CmdsFade BY <2>1, CmdsFadeKeeps
  <2>10. VerifiedInv' BY <1>u, <2>2 DEF TicketInv, VerifiedInv
  <2>11. PublishInv' BY <1>u, <2>2, <2>3, <2>4 DEF TicketInv, PublishInv, CmdsFade, PublishPlaces
  <2>12. ForkInv' BY <1>u, <2>2, <2>3, <2>4 DEF TicketInv, ForkInv, CmdsFade, ForkPlaces
  <2>13. RequestInv' BY <2>1, <2>2, <2>3 DEF TicketInv, RequestInv
  <2>14. GrantInv' BY <1>u, <2>1, <2>3 DEF TicketInv, GrantInv, InFlight
  <2>15. ChildInv' BY <1>u, <2>1, <2>2, <2>3, <2>4 DEF TicketInv, ChildInv, CmdsFade, ForkPlaces, Up
  <2> QED BY <2>10, <2>11, <2>12, <2>13, <2>14, <2>15 DEF TicketInv
<1>5. ASSUME ReadAck \/ WorkerStops PROVE TicketInv'
  <2>1. /\ worker \in {"reading-ack", "idle"} /\ worker' \in {"idle", "stopped"}
        /\ UNCHANGED <<cmds, answer, row, proc>>
        /\ inbox' = inbox \/ \E k \in {"prepared", "child-lost"} : Post(Of(k))
    BY <1>5 DEF ReadAck, WorkerStops, ProcessEnds
  <2>2. VerifiedInv' BY <1>u, <2>1 DEF TicketInv, VerifiedInv, InFlight
  <2>3. CmdsFade /\ InboxFades BY <1>t, <2>1, CmdsFadeKeeps, FadeKeeps, FadePosts
  <2>11. PublishInv' BY <1>u, <2>1, <2>3 DEF TicketInv, PublishInv, InboxFades, CmdsFade, PublishPlaces
  <2>12. ForkInv' BY <1>u, <2>1, <2>3 DEF TicketInv, ForkInv, InboxFades, CmdsFade, ForkPlaces
  <2>13. RequestInv' BY <2>1, <2>3 DEF TicketInv, RequestInv, InboxFades, AskingPlaces
  <2>14. GrantInv' BY <1>u, <2>1 DEF TicketInv, GrantInv, InFlight
  <2>15. ChildInv' BY <1>u, <2>1, <2>3 DEF TicketInv, ChildInv, InboxFades, CmdsFade, Up, ForkPlaces
  <2> QED BY <2>2, <2>11, <2>12, <2>13, <2>14, <2>15 DEF TicketInv
<1> QED BY <1>1, <1>2, <1>3, <1>4, <1>5

LEMMA TicketStep ==
  ASSUME Base, RecordInv, TicketInv, [Next]_vars
  PROVE  TicketInv'
<1>0. inbox \in Seq(EventSet) /\ EndInv BY TypeParts DEF Base, Queues
<1>f. ASSUME InboxFades, UNCHANGED <<worker, answer, tickets, published, row, stage, doing,
                                     hasChild, cmds, rec, disk>>,
             \/ UNCHANGED proc
             \/ proc \notin {"none", "gone"} /\ proc' # "none"
      PROVE  TicketInv'
  <2>1. VerifiedInv' BY <1>f DEF TicketInv, VerifiedInv, InFlight
  <2> QED BY <1>f, <2>1, CmdsFadeKeeps, TicketFades
<1>1. CASE Next
  <2>1. Steps BY <1>1, NextSteps
  <2>2. CASE ActorCase BY <2>2, TicketActor
  <2>3. CASE IoReads \/ IoSyncs BY <1>f, <2>3, FadeReads DEF IoReads, IoSyncs, IoOnly
  <2>4. CASE OwnerSends \/ BridgeReports \/ ListenerFails
    BY <1>f, <2>4, FadeKeeps DEF OwnerSends, BridgeReports, ListenerFails
  <2>5. CASE Signal
    <3>1. inbox' = inbox \/ Post(Of("shutdown")) BY <2>5 DEF Signal
    <3>2. InboxFades BY <1>0, <3>1, FadeKeeps, FadePosts
    <3> QED BY <1>f, <2>5, <3>2 DEF Signal
  <2>6. CASE TakeCommand \/ TakeAnswer \/ PublishEffect \/ ForkEffect \/ ReadAck \/ WorkerStops
    BY <2>6, TicketWorker
  <2>7. CASE ServeChildExited \/ ServeKill \/ ServeTransferred \/ ServeEnd
    <3>1. inbox' = inbox \/ \E k \in {"child-exited", "shutdown"} : Post(Of(k))
      BY <2>7 DEF ServeChildExited, ServeKill, ServeTransferred, ServeEnd
    <3>2. InboxFades BY <1>0, <3>1, FadeKeeps, FadePosts
    <3>3. UNCHANGED <<worker, proc>> /\ ServeOnly
      BY <2>7 DEF ServeChildExited, ServeKill, ServeTransferred, ServeEnd, Served
    <3> QED BY <1>f, <3>2, <3>3 DEF ServeOnly
  <2>8. CASE ServeCloses
    <3>1. /\ worker = "serving" /\ worker' = "stopped" /\ proc' \in {proc, "gone"}
          /\ UNCHANGED <<inbox, answer, tickets, published, row, stage, doing, hasChild, cmds,
                         rec, disk>> BY <2>8 DEF ServeCloses, ProcessEnds, ServeOnly
    <3>2. VerifiedInv' BY <3>1 DEF TicketInv, VerifiedInv, InFlight
    <3>3. InboxFades /\ CmdsFade BY <3>1, FadeKeeps, CmdsFadeKeeps
    <3>4. PublishInv' BY <3>1, <3>3 DEF TicketInv, PublishInv, InboxFades, CmdsFade, PublishPlaces
    <3>5. ForkInv' BY <3>1, <3>3 DEF TicketInv, ForkInv, InboxFades, CmdsFade, ForkPlaces
    <3>6. RequestInv' BY <3>1, <3>3 DEF TicketInv, RequestInv, InboxFades, AskingPlaces
    <3>7. GrantInv' BY <3>1 DEF TicketInv, GrantInv, InFlight
    <3>8. ChildInv' BY <3>1 DEF ChildInv, Up
    <3> QED BY <3>2, <3>4, <3>5, <3>6, <3>7, <3>8 DEF TicketInv
  <2>9. CASE ChildPrepares \/ ChildExecs \/ ChildLeaves \/ ChildDies
    BY <1>f, <2>9, FadeKeeps DEF ChildPrepares, ChildExecs, ChildLeaves, ChildDies, ChildOnly
  <2> QED BY <2>1, <2>2, <2>3, <2>4, <2>5, <2>6, <2>7, <2>8, <2>9 DEF Steps
<1>2. CASE UNCHANGED vars BY <1>f, <1>2, FadeKeeps DEF vars
<1> QED BY <1>1, <1>2

----------------------------------------------------------------------------
(* Counting the places of a sequence that name a request. *)

LEMMA CountFinite ==
  ASSUME NEW S, NEW s \in Seq(S), NEW id
  PROVE  IsFiniteSet(Naming(s, id)) /\ Count(s, id) \in Nat /\ Naming(s, id) \subseteq 1..Len(s)
<1>1. DOMAIN s = 1..Len(s) /\ Len(s) \in Nat /\ 1 \in Int OBVIOUS
<1>2. IsFiniteSet(1..Len(s)) BY <1>1, FS_Interval
<1>3. Naming(s, id) \in SUBSET (1..Len(s)) BY <1>1 DEF Naming
<1>4. IsFiniteSet(Naming(s, id)) BY <1>2, <1>3, FS_Subset
<1> QED BY <1>3, <1>4, FS_CardinalityType DEF Count

LEMMA CountEmpty ==
  ASSUME NEW id
  PROVE  Count(<<>>, id) = 0
<1>1. Naming(<<>>, id) = {} BY DEF Naming
<1> QED BY <1>1, FS_EmptySet DEF Count

LEMMA Shifted ==
  ASSUME NEW A \in SUBSET Nat, IsFiniteSet(A), NEW k \in Nat
  PROVE  LET B == {a + k : a \in A} IN IsFiniteSet(B) /\ Cardinality(B) = Cardinality(A)
<1> DEFINE B == {a + k : a \in A}
           f == [a \in A |-> a + k]
<1>1. f \in [A -> B] OBVIOUS
<1>2. \A a, b \in A : f[a] = f[b] => a = b OBVIOUS
<1>3. \A b \in B : \E a \in A : f[a] = b OBVIOUS
<1>4. f \in Bijection(A, B) BY <1>1, <1>2, <1>3 DEF Bijection, Injection, Surjection, IsInjective
<1>5. ExistsBijection(A, B) BY <1>4 DEF ExistsBijection
<1> QED BY <1>5, FS_Bijection

LEMMA CountConcat ==
  ASSUME NEW S, NEW s \in Seq(S), NEW t \in Seq(S), NEW id
  PROVE  Count(s \o t, id) = Count(s, id) + Count(t, id)
<1> DEFINE c == s \o t
           m == Len(s)
           n == Len(t)
           A == Naming(s, id)
           B == {a + m : a \in Naming(t, id)}
<1>1. /\ DOMAIN s = 1..m /\ DOMAIN t = 1..n /\ m \in Nat /\ n \in Nat
      /\ DOMAIN c = 1..(m + n)
      /\ \A i \in 1..(m + n) : c[i] = IF i <= m THEN s[i] ELSE t[i - m] BY ConcatProperties
<1>2. /\ IsFiniteSet(A) /\ Cardinality(A) = Count(s, id) /\ Count(s, id) \in Nat
      /\ IsFiniteSet(Naming(t, id)) /\ Count(t, id) \in Nat
      /\ A \subseteq 1..m /\ Naming(t, id) \subseteq 1..n BY CountFinite DEF Count
<1>3. IsFiniteSet(B) /\ Cardinality(B) = Count(t, id)
  <2>1. Naming(t, id) \in SUBSET Nat BY <1>1, <1>2
  <2> HIDE DEF m
  <2> QED BY <1>1, <1>2, <2>1, Shifted DEF Count
<1> HIDE DEF c, m, n
<1>4. \A i : i \in Naming(c, id) <=> i \in A \cup B
  <2>0. /\ \A i : i \in Naming(c, id) <=> i \in 1..(m + n) /\ c[i].id = id
        /\ \A i : i \in A <=> i \in 1..m /\ s[i].id = id
        /\ \A i : i \in Naming(t, id) <=> i \in 1..n /\ t[i].id = id BY <1>1 DEF Naming
  <2>1. ASSUME NEW i, i \in Naming(c, id) PROVE i \in A \cup B
    <3>1. i \in 1..(m + n) /\ c[i].id = id BY <2>0, <2>1
    <3>2. CASE i <= m BY <1>1, <2>0, <3>1, <3>2
    <3>3. CASE ~(i <= m)
      <4>1. i - m \in 1..n /\ (i - m) + m = i BY <1>1, <3>1, <3>3
      <4>2. i - m \in Naming(t, id) BY <1>1, <2>0, <3>1, <3>3, <4>1
      <4> QED BY <4>1, <4>2
    <3> QED BY <3>2, <3>3
  <2>2. ASSUME NEW i, i \in A PROVE i \in Naming(c, id) BY <1>1, <2>0, <2>2
  <2>3. ASSUME NEW i, i \in B PROVE i \in Naming(c, id)
    <3>1. PICK a \in Naming(t, id) : i = a + m BY <2>3
    <3>2. a \in 1..n /\ t[a].id = id BY <2>0
    <3>3. i \in 1..(m + n) /\ ~(i <= m) /\ i - m = a BY <1>1, <3>1, <3>2
    <3> QED BY <1>1, <2>0, <3>2, <3>3
  <2> QED BY <2>1, <2>2, <2>3
<1>5. A \cap B = {}
  <2> SUFFICES ASSUME NEW i \in A, i \in B PROVE FALSE OBVIOUS
  <2>1. PICK a \in 1..n : i = a + m BY <1>2
  <2> QED BY <1>1, <1>2, <2>1
<1>6. Naming(c, id) = A \cup B BY <1>4
<1> HIDE DEF A, B
<1>7. Cardinality(A \cup B) = Cardinality(A) + Cardinality(B) - Cardinality(A \cap B)
  BY <1>2, <1>3, FS_Union
<1>8. Cardinality(A \cap B) = 0 BY <1>5, FS_EmptySet
<1> QED BY <1>2, <1>3, <1>6, <1>7, <1>8 DEF Count, c

LEMMA CountOne ==
  ASSUME NEW e, NEW id
  PROVE  Count(<<e>>, id) = One(e.id = id)
<1>1. CASE e.id = id
  <2>1. Naming(<<e>>, id) = {1} BY <1>1 DEF Naming
  <2> QED BY <1>1, <2>1, FS_Singleton DEF Count, One
<1>2. CASE e.id # id
  <2>1. Naming(<<e>>, id) = {} BY <1>2 DEF Naming
  <2> QED BY <1>2, <2>1, FS_EmptySet DEF Count, One
<1> QED BY <1>1, <1>2

LEMMA CountAppend ==
  ASSUME NEW S, NEW s \in Seq(S), NEW e \in S, NEW id
  PROVE  Count(Append(s, e), id) = Count(s, id) + One(e.id = id)
<1>1. Append(s, e) = s \o <<e>> /\ <<e>> \in Seq(S) OBVIOUS
<1>2. Count(s \o <<e>>, id) = Count(s, id) + Count(<<e>>, id) BY <1>1, CountConcat
<1>3. Count(<<e>>, id) = One(e.id = id) BY CountOne
<1> QED BY <1>1, <1>2, <1>3, Zenon

LEMMA CountTail ==
  ASSUME NEW S, NEW s \in Seq(S), s # <<>>, NEW id
  PROVE  Count(s, id) = Count(Tail(s), id) + One(Head(s).id = id)
<1>1. /\ Head(s) \in S /\ <<Head(s)>> \in Seq(S) /\ Tail(s) \in Seq(S)
      /\ s = <<Head(s)>> \o Tail(s) OBVIOUS
<1>2. Count(<<Head(s)>> \o Tail(s), id) = Count(<<Head(s)>>, id) + Count(Tail(s), id)
  BY <1>1, CountConcat
<1>3. Count(Tail(s), id) \in Nat /\ One(Head(s).id = id) \in Nat BY <1>1, CountFinite DEF One
<1>4. Count(s, id) = One(Head(s).id = id) + Count(Tail(s), id) BY ZenonT(60), <1>1, <1>2, CountOne
<1> QED BY <1>3, <1>4

LEMMA CountPrefix ==
  ASSUME NEW S, NEW s \in Seq(S), NEW t \in Seq(S), NEW id, Len(t) <= Len(s),
         \A i \in 1..Len(t) : t[i] = s[i]
  PROVE  Count(t, id) <= Count(s, id)
<1>1. /\ DOMAIN s = 1..Len(s) /\ DOMAIN t = 1..Len(t) /\ Len(s) \in Nat /\ Len(t) \in Nat OBVIOUS
<1>2. Naming(t, id) \in SUBSET Naming(s, id) BY <1>1 DEF Naming
<1> QED BY <1>2, CountFinite, FS_Subset DEF Count

LEMMA CountNames ==
  ASSUME NEW new, NEW x, Names(new, x), NEW id \in TransferIds
  PROVE  Count(new, id) <= One(x = id)
<1>0. new \in Seq(ModestFrames) BY DEF Names
<1>1. \A i \in Naming(new, id) : i \in DOMAIN new /\ new[i].id = id /\ id # None
  BY ActorAssumption DEF Naming
<1>2. CASE Naming(new, id) = {} BY <1>2, FS_EmptySet DEF Count, One
<1>3. ASSUME NEW i \in Naming(new, id) PROVE Count(new, id) <= One(x = id)
  <2>1. \A j \in Naming(new, id) : j = i BY <1>1, <1>3 DEF Names
  <2>2. Naming(new, id) = {i} BY <1>3, <2>1
  <2>3. x = id BY <1>1, <1>3 DEF Names
  <2>4. Cardinality({i}) = 1 BY FS_Singleton
  <2>5. Count(new, id) = 1 BY <2>2, <2>4, Zenon DEF Count
  <2> QED BY <2>3, <2>5 DEF One
<1> QED BY <1>2, <1>3

----------------------------------------------------------------------------
(* What the owner is told. *)

LEMMA FrameKeeps ==
  ASSUME FrameInv, UNCHANGED <<frames, stage, disk>>
  PROVE  FrameInv'
BY DEF FrameInv

(* Frames other than `transferred` are added before the actor's end. *)
LEMMA FrameGrows ==
  ASSUME FrameInv, frames \in Seq(FrameSet), NEW new \in Seq(FrameSet),
         frames' = frames \o new, stage # "done",
         \A i \in DOMAIN new : new[i].kind # "transferred",
         stage' = "ready" => stage = "ready" \/ \E i \in DOMAIN new : new[i].kind = "ready"
  PROVE  FrameInv'
<1> DEFINE m == Len(frames)
           n == Len(new)
<1>1. /\ m \in Nat /\ n \in Nat /\ DOMAIN frames = 1..m /\ DOMAIN new = 1..n
      /\ DOMAIN frames' = 1..(m + n)
      /\ \A i \in 1..(m + n) : frames'[i] = IF i <= m THEN frames[i] ELSE new[i - m] BY ConcatProperties
<1> HIDE DEF m, n
<1>2. ASSUME stage' = "ready" PROVE \E j \in DOMAIN frames' : frames'[j].kind = "ready"
  <2>1. CASE stage = "ready"
    <3>1. PICK j \in 1..m : frames[j].kind = "ready" BY <1>1, <2>1 DEF FrameInv
    <3>2. j \in 1..(m + n) /\ j <= m BY <1>1
    <3>3. frames'[j] = frames[j] BY <1>1, <3>2
    <3> QED BY <1>1, <3>1, <3>2, <3>3
  <2>2. ASSUME NEW i \in DOMAIN new, new[i].kind = "ready"
        PROVE  \E j \in DOMAIN frames' : frames'[j].kind = "ready"
    <3>1. m + i \in 1..(m + n) /\ ~(m + i <= m) /\ (m + i) - m = i BY <1>1
    <3>2. frames'[m + i] = new[i] BY <1>1, <3>1
    <3> QED BY <1>1, <2>2, <3>1, <3>2
  <2> QED BY <1>2, <2>1, <2>2
<1>3. ASSUME NEW i \in DOMAIN frames' PROVE frames'[i].kind # "transferred"
  <2>1. i \in 1..(m + n) BY <1>1
  <2>2. CASE i <= m
    <3>1. i \in 1..m /\ frames'[i] = frames[i] BY <1>1, <2>1, <2>2
    <3> QED BY <1>1, <3>1 DEF FrameInv
  <2>3. CASE ~(i <= m)
    <3>1. i - m \in 1..n /\ frames'[i] = new[i - m] BY <1>1, <2>1, <2>3
    <3> QED BY <1>1, <3>1
  <2> QED BY <2>2, <2>3
<1> QED BY <1>2, <1>3 DEF FrameInv

LEMMA FrameSays ==
  ASSUME FrameInv, frames \in Seq(FrameSet), NEW x, Says(x), stage # "done",
         stage' = "ready" => stage = "ready"
  PROVE  FrameInv'
<1>1. PICK new \in Seq(ModestFrames) : frames' = frames \o new BY DEF Says
<1>2. \A e \in ModestFrames : e \in FrameSet /\ e.kind # "transferred" BY DEF ModestFrames, FrameSet
<1>3. new \in Seq(FrameSet) BY <1>2
<1>4. \A i \in DOMAIN new : new[i].kind # "transferred" BY <1>2
<1> QED BY <1>1, <1>3, <1>4, FrameGrows

LEMMA FrameActor ==
  ASSUME Base, RecordInv, FrameInv, ActorCase
  PROVE  FrameInv'
<1>0. Queues /\ Flags /\ ActorTypes /\ OtherTypes /\ EndInv BY TypeParts DEF Base
<1>t. frames \in Seq(FrameSet) /\ rec \in Records /\ disk \in Records /\ current \in Ids
  BY <1>0 DEF Queues, ActorTypes
<1>s. ASSUME UNCHANGED frames, stage # "done", stage' = "ready" => stage = "ready"
      PROVE  FrameInv' BY <1>s, <1>t, FrameFacts, FrameSays
<1>1. CASE Passes \/ Cancels \/ Launches \/ Retires \/ Holds
  <2>1. /\ \E x : Says(x)
        /\ stage # "done" /\ (stage' = "ready" => stage = "ready")
    BY <1>1 DEF Passes, Cancels, Launches, Retires, Holds, Handled, EndActor, Consume
  <2> QED BY <1>t, <2>1, FrameSays
<1>2. CASE OnCommit \/ Concludes \/ OrdersFork \/ RecordsChild \/ Accepts \/ ReleaseTransfer
  <2>1. /\ UNCHANGED frames
        /\ stage # "done" /\ (stage' = "ready" => stage = "ready")
    BY <1>0, <1>2 DEF OnCommit, Concludes, OrdersFork, RecordsChild, Accepts, ReleaseTransfer,
       Handled, Handling, ActorUp, EndActor, Consume, EndInv
  <2> QED BY <1>s, <2>1
<1>3. CASE OnReadyPoint
  <2>0. stage # "done" BY <1>3 DEF OnReadyPoint, Handling, ActorUp
  <2>1. CASE UNCHANGED <<frames, stage>> BY <1>s, <2>0, <2>1
  <2>2. CASE Send(<<Of("ready")>>)
    <3> DEFINE new == <<Of("ready")>>
    <3>1. /\ new \in Seq(FrameSet) /\ 1 \in DOMAIN new /\ new[1].kind = "ready"
          /\ \A i \in DOMAIN new : new[i].kind # "transferred" BY DEF Of, FrameSet, FrameKinds, Ids
    <3>2. frames' = frames \o new BY <2>2 DEF Send
    <3> HIDE DEF new
    <3> QED BY <1>t, <2>0, <3>1, <3>2, FrameGrows
  <2> QED BY <1>3, <2>1, <2>2 DEF OnReadyPoint
<1>4. CASE CompleteRetirement
  <2>1. stage # "done" /\ stage' = "done" BY <1>0, <1>4 DEF CompleteRetirement, EndActor, EndInv
  <2>2. PICK new \in {<<Of("retirement")>>, <<>>} : Send(new) BY <1>4 DEF CompleteRetirement
  <2>3. Names(new, None) BY <1>t, FrameFacts DEF FrameKinds, Ids
  <2> QED BY <1>t, <2>1, <2>2, <2>3, FrameFacts, FrameSays
<1>5. CASE CommitTransfer
  <2>1. stage # "done" /\ stage = "ready" BY <1>0, <1>5 DEF CommitTransfer, RecordInv
  <2>2. CASE UNCHANGED frames BY <1>s, <2>1, <2>2
  <2>3. CASE Send(Reject("not-held", current))
    <3>1. Names(Reject("not-held", current), current) BY <1>t, FrameFacts DEF FrameKinds, Reject
    <3> QED BY <1>t, <2>1, <2>3, <3>1, FrameFacts, FrameSays
  <2> QED BY <1>5, <2>2, <2>3 DEF CommitTransfer
<1>6. CASE FinishTransfer
  <2>1. /\ stage = "ready" /\ stage' = "done" /\ frames' = frames \o <<For("transferred", current)>>
    BY <1>6 DEF FinishTransfer, RecordInv, Send
  <2>2. disk'.state = "transferred" /\ disk'.by = current
    <3>1. PICK out \in Outcomes : Write(rec, out) BY <1>6 DEF FinishTransfer
    <3>2. disk' \in {disk, rec} BY <3>1 DEF Write
    <3> QED BY <1>6, <3>2 DEF FinishTransfer, RecordInv
  <2> DEFINE m == Len(frames)
             e == For("transferred", current)
  <2>3. e \in FrameSet /\ e.id = current BY <1>t DEF For, FrameSet, FrameKinds
  <2>4. frames' = Append(frames, e) BY <1>t, <2>1, <2>3
  <2> HIDE DEF e
  <2>5. /\ m \in Nat /\ DOMAIN frames = 1..m /\ DOMAIN frames' = 1..(m + 1)
        /\ frames'[m + 1] = e /\ \A i \in 1..m : frames'[i] = frames[i] BY <1>t, <2>3, <2>4, AppendFacts
  <2> HIDE DEF m
  <2>6. PICK j \in 1..m : frames[j].kind = "ready" BY <2>1, <2>5 DEF FrameInv
  <2>7. \A i \in 1..m : frames[i].kind # "transferred" BY <2>1, <2>5 DEF FrameInv
  <2> SUFFICES ASSUME NEW i \in 1..(m + 1), frames'[i].kind = "transferred"
               PROVE  /\ frames'[i].id = current
                      /\ \E k \in 1..i : frames'[k].kind = "ready" BY <2>1, <2>2, <2>5 DEF FrameInv
  <2>8. i = m + 1
    <3>1. i \notin 1..m BY <2>5, <2>7
    <3> QED BY <2>5, <3>1
  <2>9. j \in 1..i BY <2>5, <2>8
  <2> QED BY <2>3, <2>5, <2>6, <2>8, <2>9
<1> QED BY <1>1, <1>2, <1>3, <1>4, <1>5, <1>6 DEF ActorCase

LEMMA FrameStep ==
  ASSUME Base, RecordInv, FrameInv, [Next]_vars
  PROVE  FrameInv'
<1>1. CASE Next
  <2>1. Steps BY <1>1, NextSteps
  <2>2. CASE ActorCase BY <2>2, FrameActor
  <2>3. CASE OwnerSends \/ IoReads \/ IoSyncs \/ BridgeReports \/ Signal \/ ListenerFails
    BY <2>3, FrameKeeps DEF OwnerSends, IoReads, IoSyncs, IoOnly, BridgeReports, Signal,
       ListenerFails
  <2>4. CASE TakeCommand \/ TakeAnswer \/ PublishEffect \/ ForkEffect \/ ReadAck \/ WorkerStops
    BY <2>4, FrameKeeps DEF TakeCommand, TakeAnswer, PublishEffect, ForkEffect, ReadAck,
       WorkerStops, WorkerOnly
  <2>5. CASE ServeChildExited \/ ServeKill \/ ServeTransferred \/ ServeEnd \/ ServeCloses
    BY <2>5, FrameKeeps DEF ServeChildExited, ServeKill, ServeTransferred, ServeEnd,
       ServeCloses, Served, ServeOnly
  <2>6. CASE ChildPrepares \/ ChildExecs \/ ChildLeaves \/ ChildDies
    BY <2>6, FrameKeeps DEF ChildPrepares, ChildExecs, ChildLeaves, ChildDies, ChildOnly
  <2> QED BY <2>1, <2>2, <2>3, <2>4, <2>5, <2>6 DEF Steps
<1>2. CASE UNCHANGED vars BY <1>2, FrameKeeps DEF vars
<1> QED BY <1>1, <1>2

----------------------------------------------------------------------------
(* A request has at most one answer. *)

LEMMA OneType == \A b : One(b) \in {0, 1} /\ (One(b) = 1 <=> b)
BY DEF One

LEMMA OwedIs ==
  ASSUME Base, NEW id
  PROVE  /\ Owed(id) = Count(frames, id) + Count(inbox, id) + Count(socket, id)
                        + One(deferred = id) + One(doing \in Committing /\ current = id)
         /\ Count(frames, id) \in Nat /\ Count(inbox, id) \in Nat /\ Count(socket, id) \in Nat
<1>1. frames \in Seq(FrameSet) /\ inbox \in Seq(EventSet) /\ socket \in Seq(Inputs)
  BY TypeParts DEF Base, Queues
<1> QED BY <1>1, CountFinite DEF Owed

LEMMA OwedNext ==
  ASSUME Base', NEW id
  PROVE  /\ Owed(id)' = Count(frames', id) + Count(inbox', id) + Count(socket', id)
                        + One(deferred' = id) + One(doing' \in Committing /\ current' = id)
         /\ Count(frames', id) \in Nat /\ Count(inbox', id) \in Nat /\ Count(socket', id) \in Nat
<1>1. frames' \in Seq(FrameSet) /\ inbox' \in Seq(EventSet) /\ socket' \in Seq(Inputs) BY DEF Base, Types
<1>2. /\ Count(frames', id) \in Nat /\ Count(inbox', id) \in Nat /\ Count(socket', id) \in Nat
  BY <1>1, CountFinite
<1>3. Owed(id)' = Count(frames', id) + Count(inbox', id) + Count(socket', id)
                        + One(deferred' = id) + One(doing' \in Committing /\ current' = id)
  BY DEF Owed, Count, Naming, One, Committing
<1> QED BY <1>2, <1>3

(* A request that leaves one part may enter another. *)
LEMMA OwedKept ==
  ASSUME Base, Base', NEW id \in TransferIds, Owed(id) <= asked[id], UNCHANGED asked,
         Count(frames', id) + Count(inbox', id) + Count(socket', id)
             + One(deferred' = id) + One(doing' \in Committing /\ current' = id)
           <= Count(frames, id) + Count(inbox, id) + Count(socket, id)
             + One(deferred = id) + One(doing \in Committing /\ current = id)
  PROVE  Owed(id)' <= asked'[id]
<1>1. asked[id] \in Nat BY TypeParts DEF Base, OtherTypes
<1> DEFINE p == Count(frames, id) + Count(inbox, id) + Count(socket, id)
                  + One(deferred = id) + One(doing \in Committing /\ current = id)
           q == Count(frames', id) + Count(inbox', id) + Count(socket', id)
                  + One(deferred' = id) + One(doing' \in Committing /\ current' = id)
<1>2. Owed(id) = p BY OwedIs
<1>3. Owed(id)' = q BY OwedNext
<1>4. p \in Nat BY OwedIs, OneType
<1>5. q \in Nat BY OwedNext, OneType
<1>6. q <= p /\ asked'[id] = asked[id] OBVIOUS
<1> HIDE DEF p, q
<1> QED BY <1>1, <1>2, <1>3, <1>4, <1>5, <1>6

LEMMA CountSays ==
  ASSUME frames \in Seq(FrameSet), NEW x, Says(x), NEW id \in TransferIds
  PROVE  Count(frames', id) <= Count(frames, id) + One(x = id)
<1>1. PICK new \in Seq(ModestFrames) : Names(new, x) /\ frames' = frames \o new BY DEF Says
<1>2. \A e \in ModestFrames : e \in FrameSet BY DEF ModestFrames, FrameSet
<1>3. new \in Seq(FrameSet) BY <1>2
<1>4. Count(frames \o new, id) = Count(frames, id) + Count(new, id) BY <1>3, CountConcat
<1>5. Count(new, id) <= One(x = id) BY <1>1, CountNames
<1>6. Count(frames, id) \in Nat /\ Count(new, id) \in Nat BY <1>3, CountFinite
<1>7. One(x = id) \in Nat BY OneType
<1> QED BY <1>1, <1>4, <1>5, <1>6, <1>7

LEMMA CountPosts ==
  ASSUME inbox \in Seq(EventSet), NEW k \in Events \ {"transfer"}, NEW id \in TransferIds,
         inbox' = inbox \/ Post(Of(k))
  PROVE  Count(inbox', id) = Count(inbox, id)
<1>1. CASE inbox' = inbox BY <1>1
<1>2. CASE inbox' = Append(inbox, Of(k))
  <2>1. Of(k) \in EventSet /\ Of(k).id # id BY EventFacts, ActorAssumption
  <2>2. Count(Append(inbox, Of(k)), id) = Count(inbox, id) + One(Of(k).id = id) BY <2>1, CountAppend
  <2>3. One(Of(k).id = id) = 0 BY <2>1 DEF One
  <2>4. Count(inbox, id) \in Nat BY CountFinite
  <2> QED BY <1>2, <2>2, <2>3, <2>4
<1> QED BY <1>1, <1>2 DEF Post

LEMMA CountTakes ==
  ASSUME inbox \in Seq(EventSet), inbox # <<>>, inbox' = Tail(inbox), NEW id
  PROVE  Count(inbox', id) <= Count(inbox, id) + (0 - One(Head(inbox).id = id))
<1>1. Count(inbox, id) = Count(Tail(inbox), id) + One(Head(inbox).id = id) BY CountTail
<1>2. Count(inbox, id) \in Nat BY CountFinite
<1>3. Tail(inbox) \in Seq(EventSet) BY TailFacts
<1>4. Count(Tail(inbox), id) \in Nat BY <1>3, CountFinite
<1>5. One(Head(inbox).id = id) \in Nat BY OneType
<1>6. Count(inbox', id) = Count(Tail(inbox), id) OBVIOUS
<1> QED BY <1>1, <1>2, <1>4, <1>5, <1>6

LEMMA CountReads ==
  ASSUME Base, IoReads \/ IoSyncs, NEW id \in TransferIds
  PROVE  Count(inbox', id) + Count(socket', id) <= Count(inbox, id) + Count(socket, id)
<1>0. socket \in Seq(Inputs) /\ inbox \in Seq(EventSet) BY TypeParts DEF Base, Queues
<1>1. PICK after \in {<<>>, <<Of("synced")>>} : channel = "open" /\ ReadAvailable(after)
  BY DEF IoReads, IoSyncs
<1>2. stage # "done" BY <1>1 DEF Base, EndInv
<1>3. /\ inbox' = inbox \o ReadOut \o after
      /\ socket' = IF reading THEN <<>> ELSE socket BY <1>1, <1>2 DEF ReadAvailable, ActorUp
<1>4. after \in Seq(EventSet) /\ Count(after, id) = 0
  <2>1. Of("synced") \in EventSet /\ Of("synced").id # id BY EventFacts, ActorAssumption DEF Events
  <2>2. CASE after = <<>> BY <2>2, CountEmpty
  <2>3. CASE after = <<Of("synced")>>
    <3>1. Count(<<Of("synced")>>, id) = One(Of("synced").id = id) BY CountOne
    <3>2. One(Of("synced").id = id) = 0 BY <2>1 DEF One
    <3>3. <<Of("synced")>> \in Seq(EventSet) BY <2>1
    <3> QED BY <2>3, <3>1, <3>2, <3>3, Zenon
  <2> QED BY <2>2, <2>3
<1>5. PICK n \in 0..Len(socket) :
           /\ ReadOut \in Seq(Inputs) /\ Len(ReadOut) = n
           /\ \A i \in 1..n : ReadOut[i] = socket[i]
           /\ ~reading => n = 0 BY <1>0, ReadOutIs
<1>6. ReadOut \in Seq(EventSet) BY <1>5, EventFacts
<1>7. Count(ReadOut, id) <= Count(socket, id)
  <2>1. Len(ReadOut) <= Len(socket) BY <1>0, <1>5
  <2> QED BY <1>0, <1>5, <2>1, CountPrefix
<1>8. ~reading => Count(ReadOut, id) = 0
  <2>1. ~reading => ReadOut = <<>> BY DEF ReadOut
  <2> QED BY <2>1, CountEmpty
<1>9. Count(socket', id) = IF reading THEN 0 ELSE Count(socket, id) BY <1>3, CountEmpty
<1>10. Count(inbox', id) = Count(inbox, id) + Count(ReadOut, id) + Count(after, id)
  <2>1. inbox \o ReadOut \in Seq(EventSet) BY <1>0, <1>6, ConcatProperties
  <2>2. Count((inbox \o ReadOut) \o after, id) = Count(inbox \o ReadOut, id) + Count(after, id)
    BY ZenonT(60), <1>4, <2>1, CountConcat
  <2>3. Count(inbox \o ReadOut, id) = Count(inbox, id) + Count(ReadOut, id) BY <1>0, <1>6, CountConcat
  <2> QED BY <1>3, <2>2, <2>3, Zenon
<1>11. Count(inbox, id) \in Nat /\ Count(ReadOut, id) \in Nat /\ Count(socket, id) \in Nat
  BY <1>0, <1>6, CountFinite
<1> QED BY <1>4, <1>7, <1>8, <1>9, <1>10, <1>11

LEMMA CountActor ==
  ASSUME Base, Base', ActorCase, NEW id \in TransferIds, Owed(id) <= asked[id]
  PROVE  Owed(id)' <= asked'[id]
<1>0. Queues /\ Flags /\ ActorTypes /\ OtherTypes /\ EndInv BY TypeParts DEF Base
<1>t. /\ frames \in Seq(FrameSet) /\ inbox \in Seq(EventSet) /\ current \in Ids
      /\ id # None BY <1>0, ActorAssumption DEF Queues, ActorTypes
<1>u. UNCHANGED <<asked, socket>>
  BY DEF ActorCase, Passes, Cancels, Launches, OnCommit, Concludes, Retires, OrdersFork,
         RecordsChild, Holds, OnReadyPoint, Accepts, CompleteRetirement, CommitTransfer,
         ReleaseTransfer, FinishTransfer, ActorFrame
<1> DEFINE u == One(deferred = id)
           v == One(deferred' = id)
           w == One(doing \in Committing /\ current = id)
           x == One(doing' \in Committing /\ current' = id)
           y == One(Head(inbox).id = id)
           z == One(current = id)
           f == Count(frames, id)
           g == Count(frames', id)
           h == Count(inbox, id)
           i == Count(inbox', id)
           k == Count(socket, id)
<1>1. /\ u \in {0, 1} /\ v \in {0, 1} /\ w \in {0, 1} /\ x \in {0, 1} /\ y \in {0, 1}
      /\ z \in {0, 1} BY OneType
<1>2. f \in Nat /\ h \in Nat /\ k \in Nat BY OwedIs
<1>3. g \in Nat /\ i \in Nat BY OwedNext
<1>4. Count(socket', id) = k BY <1>u
<1>5. SUFFICES g + i + v + x <= f + h + u + w
  <2>1. g + i + k + v + x <= f + h + k + u + w
    <3> HIDE DEF f, g, h, i, k, u, v, w, x
    <3> QED BY <1>1, <1>2, <1>3, <1>5
  <2> QED BY <1>u, <1>4, <2>1, OwedKept
<1>e. doing' = "events" => x = 0 BY DEF One, Committing
<1>f. EndActor => i = 0 /\ x = 0 BY <1>e, CountEmpty DEF EndActor
<1>c. inbox # <<>> /\ inbox' = Tail(inbox) => i <= h + (0 - y) BY <1>t, CountTakes
<1>n. frames' = frames => g = f OBVIOUS
<1>m. deferred' = deferred => v = u OBVIOUS
<1>p. \A r : Says(r) => g <= f + One(r = id) BY <1>t, CountSays
<1>q. One(None = id) = 0 BY <1>t DEF One
<1>6. CASE Passes
  <2>1. /\ inbox # <<>> /\ inbox' = Tail(inbox) /\ UNCHANGED <<deferred, doing, current>>
        /\ Says(Head(inbox).id) BY <1>6 DEF Passes, Handled, Consume, Quiet
  <2>2. i <= h + (0 - y) /\ v = u /\ x = w /\ g <= f + y BY <1>c, <1>p, <2>1
  <2> HIDE DEF f, g, h, i, u, v, w, x, y
  <2> QED BY <1>1, <1>2, <1>3, <2>2
<1>7. CASE Cancels
  <2>1. i = 0 /\ x = 0 /\ v = u BY <1>7, <1>f DEF Cancels
  <2>2. g <= f + 0 BY <1>7, <1>p, <1>q DEF Cancels
  <2> HIDE DEF f, g, h, i, u, v, w, x
  <2> QED BY <1>1, <1>2, <1>3, <2>1, <2>2
<1>8. CASE Launches \/ Holds
  <2>1. v = u BY <1>8 DEF Launches, Holds
  <2>2. g <= f + 0 BY <1>8, <1>p, <1>q DEF Launches, Holds
  <2>3. /\ inbox # <<>>
        /\ EndActor \/ (inbox' = Tail(inbox) /\ doing' = "events") BY <1>8 DEF Launches, Holds, Handled
  <2>4. x = 0 /\ (i = 0 \/ i <= h + (0 - y)) BY <1>c, <1>e, <1>f, <2>3
  <2> HIDE DEF f, g, h, i, u, v, w, x, y
  <2> QED BY <1>1, <1>2, <1>3, <2>1, <2>2, <2>4
<1>9. CASE OnCommit \/ Concludes \/ OrdersFork \/ RecordsChild
  <2>1. /\ UNCHANGED <<frames, deferred>> /\ inbox # <<>>
        /\ EndActor \/ (inbox' = Tail(inbox) /\ doing' \in {"events", "unwinding"})
    BY <1>9 DEF OnCommit, Concludes, OrdersFork, RecordsChild, Handling, Handled, Consume, Resumes
  <2>2. doing' = "unwinding" => x = 0 BY DEF One, Committing
  <2>3. v = u /\ g = f /\ x = 0 /\ (i = 0 \/ i <= h + (0 - y)) BY <1>c, <1>e, <1>f, <2>1, <2>2
  <2> HIDE DEF f, g, h, i, u, v, w, x, y
  <2> QED BY <1>1, <1>2, <1>3, <2>3
<1>10. CASE Retires
  <2>1. /\ deferred' = None /\ Says(deferred) /\ inbox # <<>>
        /\ EndActor \/ (inbox' = Tail(inbox) /\ doing' \in {"events", "unwinding"})
    BY <1>10 DEF Retires, Handled, Consume
  <2>2. doing' = "unwinding" => x = 0 BY DEF One, Committing
  <2>3. /\ v = 0 /\ g <= f + u /\ x = 0 /\ (i = 0 \/ i <= h + (0 - y))
    BY <1>c, <1>e, <1>f, <1>p, <1>q, <2>1, <2>2
  <2> HIDE DEF f, g, h, i, u, v, w, x, y
  <2> QED BY <1>1, <1>2, <1>3, <2>3
<1>11. CASE OnReadyPoint
  <2>1. inbox # <<>> /\ inbox' = Tail(inbox) /\ doing = "events" BY <1>11 DEF OnReadyPoint, Handling
  <2>2. i <= h + (0 - y) BY <1>c, <2>1
  <2>3. g <= f + 0
    <3>1. CASE UNCHANGED frames BY <1>2, <1>n, <3>1
    <3>2. CASE Send(<<Of("ready")>>)
      <4>1. <<Of("ready")>> \in Seq(FrameSet) BY DEF Of, FrameSet, FrameKinds, Ids
      <4>2. Count(frames \o <<Of("ready")>>, id) = f + Count(<<Of("ready")>>, id)
        BY <1>t, <4>1, CountConcat
      <4>3. Count(<<Of("ready")>>, id) = One(Of("ready").id = id) BY CountOne
      <4>4. One(Of("ready").id = id) = 0 BY <1>t DEF One, Of
      <4>5. frames' = frames \o <<Of("ready")>> BY <3>2 DEF Send
      <4>6. g = f + 0 BY <4>2, <4>3, <4>4, <4>5, Zenon
      <4> QED BY <1>2, <1>3, <4>6
    <3> QED BY <1>11, <3>1, <3>2 DEF OnReadyPoint
  <2>4. (v = u /\ x = 0) \/ (v = 0 /\ x <= u)
    <3>1. CASE UNCHANGED <<deferred, doing>> BY <1>e, <2>1, <3>1
    <3>2. CASE current' = deferred /\ deferred' = None
      <4>1. v = 0 BY <1>q, <3>2
      <4>2. x <= u BY <3>2 DEF One
      <4> QED BY <4>1, <4>2
    <3> QED BY <1>11, <3>1, <3>2 DEF OnReadyPoint
  <2> HIDE DEF f, g, h, i, u, v, w, x, y
  <2> QED BY <1>1, <1>2, <1>3, <2>2, <2>3, <2>4
<1>12. CASE Accepts
  <2>1. inbox # <<>> /\ inbox' = Tail(inbox) /\ doing = "events" /\ UNCHANGED frames
    BY <1>12 DEF Accepts, Handled, Consume
  <2>2. i <= h + (0 - y) /\ g = f BY <1>c, <1>n, <2>1
  <2>3. (v = y /\ x = 0) \/ (v = u /\ x <= y)
    <3>1. CASE deferred' = Head(inbox).id /\ UNCHANGED doing BY <1>e, <2>1, <3>1
    <3>2. CASE current' = Head(inbox).id /\ UNCHANGED deferred BY <3>2 DEF One
    <3> QED BY <1>12, <3>1, <3>2 DEF Accepts
  <2> HIDE DEF f, g, h, i, u, v, w, x, y
  <2> QED BY <1>1, <1>2, <1>3, <2>2, <2>3
<1>13. CASE CompleteRetirement
  <2>1. EndActor /\ UNCHANGED deferred BY <1>13 DEF CompleteRetirement
  <2>2. PICK new \in {<<Of("retirement")>>, <<>>} : Send(new) BY <1>13 DEF CompleteRetirement
  <2>3. Names(new, None) BY <1>t, FrameFacts DEF FrameKinds, Ids
  <2>4. Says(None) BY <1>t, <2>2, <2>3, FrameFacts
  <2>5. i = 0 /\ x = 0 /\ v = u /\ g <= f + 0 BY <1>f, <1>p, <1>q, <2>1, <2>4
  <2> HIDE DEF f, g, h, i, u, v, w, x
  <2> QED BY <1>1, <1>2, <1>3, <2>5
<1>r. doing \in Committing => w = z BY DEF One
<1>14. CASE CommitTransfer
  <2>1. UNCHANGED deferred /\ doing \in Committing BY <1>14 DEF CommitTransfer, Committing
  <2>2. CASE UNCHANGED <<frames, inbox>> /\ doing' = "releasing" /\ UNCHANGED current
    <3>1. g = f /\ i = h /\ v = u BY <2>1, <2>2
    <3>2. x = w BY <2>1, <2>2 DEF One, Committing
    <3> HIDE DEF f, g, h, i, u, v, w, x
    <3> QED BY <1>1, <1>2, <1>3, <3>1, <3>2
  <2>3. CASE Send(Reject("not-held", current)) /\ EndActor
    <3>1. Names(Reject("not-held", current), current) BY <1>t, FrameFacts DEF FrameKinds, Reject
    <3>2. Says(current) BY <1>t, <2>3, <3>1, FrameFacts
    <3>3. i = 0 /\ x = 0 /\ v = u /\ g <= f + z /\ w = z BY <1>f, <1>p, <1>r, <2>1, <2>3, <3>2
    <3> HIDE DEF f, g, h, i, u, v, w, x, z
    <3> QED BY <1>1, <1>2, <1>3, <3>3
  <2> QED BY <1>14, <2>2, <2>3 DEF CommitTransfer
<1>15. CASE ReleaseTransfer
  <2>1. g = f /\ i = h /\ v = u BY <1>15 DEF ReleaseTransfer
  <2>2. x = w BY <1>15 DEF ReleaseTransfer, One, Committing
  <2> HIDE DEF f, g, h, i, u, v, w, x
  <2> QED BY <1>1, <1>2, <1>3, <2>1, <2>2
<1>16. CASE FinishTransfer
  <2>1. /\ UNCHANGED deferred /\ doing \in Committing /\ doing' = "events" /\ inbox' = <<>>
        /\ frames' = frames \o <<For("transferred", current)>>
    BY <1>16 DEF FinishTransfer, Committing, Send
  <2>2. <<For("transferred", current)>> \in Seq(FrameSet) BY <1>t DEF For, FrameSet, FrameKinds
  <2>3. Count(frames \o <<For("transferred", current)>>, id)
          = f + Count(<<For("transferred", current)>>, id) BY <1>t, <2>2, CountConcat
  <2>4. Count(<<For("transferred", current)>>, id) = One(For("transferred", current).id = id) BY CountOne
  <2>5. One(For("transferred", current).id = id) = z BY DEF For
  <2>6. g = f + z BY <2>1, <2>3, <2>4, <2>5, Zenon
  <2>7. i = 0 /\ x = 0 /\ v = u /\ w = z BY <1>e, <1>r, <2>1, CountEmpty
  <2> HIDE DEF f, g, h, i, u, v, w, x, z
  <2> QED BY <1>1, <1>2, <1>3, <2>6, <2>7
<1> QED BY <1>6, <1>7, <1>8, <1>9, <1>10, <1>11, <1>12, <1>13, <1>14, <1>15, <1>16 DEF ActorCase

LEMMA CountSent ==
  ASSUME Base, Base', OwnerSends, NEW id \in TransferIds, Owed(id) <= asked[id]
  PROVE  Owed(id)' <= asked'[id]
<1>0. socket \in Seq(Inputs) /\ asked[id] \in Nat BY TypeParts DEF Base, Queues, OtherTypes
<1>1. PICK input \in Inputs :
           /\ socket' = Append(socket, input)
           /\ asked' = [t \in TransferIds |-> asked[t] + IF input.id = t THEN 1 ELSE 0]
  BY DEF OwnerSends, Inputs
<1>2. UNCHANGED <<frames, inbox, deferred, doing, current>> BY DEF OwnerSends
<1> DEFINE c == One(input.id = id)
           o == Count(frames, id) + Count(inbox, id) + One(deferred = id)
                  + One(doing \in Committing /\ current = id)
           s == Count(socket, id)
<1>3. Count(socket', id) = s + c BY <1>0, <1>1, CountAppend
<1>4. asked'[id] = asked[id] + c BY <1>1 DEF One
<1>5. o \in Nat /\ s \in Nat /\ c \in Nat BY OwedIs, OneType
<1>6. Owed(id) = o + s BY OwedIs, OneType
<1>7. Owed(id)' = o + (s + c)
  <2>1. Owed(id)' = Count(frames, id) + Count(inbox, id) + Count(socket', id)
                      + One(deferred = id) + One(doing \in Committing /\ current = id) BY <1>2, OwedNext
  <2>2. /\ Count(frames, id) \in Nat /\ Count(inbox, id) \in Nat
        /\ One(deferred = id) \in Nat /\ One(doing \in Committing /\ current = id) \in Nat
    BY OwedIs, OneType
  <2> HIDE DEF c, s
  <2> QED BY <1>3, <1>5, <2>1, <2>2
<1> HIDE DEF c, o, s
<1> QED BY <1>0, <1>4, <1>5, <1>6, <1>7

(* Other steps do not touch what the owner is told. *)
LEMMA CountOther ==
  ASSUME Base, Base', NEW id \in TransferIds, Owed(id) <= asked[id],
         UNCHANGED <<asked, frames, socket, deferred, doing, current>>,
         inbox' = inbox \/ \E k \in Events \ {"transfer"} : Post(Of(k))
  PROVE  Owed(id)' <= asked'[id]
<1>1. inbox \in Seq(EventSet) BY TypeParts DEF Base, Queues
<1>2. Count(inbox', id) = Count(inbox, id)
  <2>1. CASE inbox' = inbox BY <2>1
  <2>2. CASE \E k \in Events \ {"transfer"} : Post(Of(k))
    <3>1. PICK k \in Events \ {"transfer"} : Post(Of(k)) BY <2>2
    <3> QED BY <1>1, <3>1, CountPosts
  <2> QED BY <2>1, <2>2
<1> DEFINE p == Count(frames, id) + Count(inbox, id) + Count(socket, id)
                  + One(deferred = id) + One(doing \in Committing /\ current = id)
<1>3. p \in Nat BY OwedIs, OneType
<1>4. p <= p
  <2> HIDE DEF p
  <2> QED BY <1>3
<1> QED BY <1>2, <1>4, OwedKept

LEMMA CountStep ==
  ASSUME Base, CountInv, [Next]_vars
  PROVE  CountInv'
<1>b. Base' BY BaseStep
<1> SUFFICES ASSUME NEW id \in TransferIds PROVE Owed(id)' <= asked'[id] BY DEF CountInv
<1>i. Owed(id) <= asked[id] BY DEF CountInv
<1>e. \A k \in {"synced", "commit-publish", "commit-fork", "published", "publish-failed",
                "forked", "fork-failed", "prepared", "child-lost", "ready-point",
                "child-exited", "shutdown"} : k \in Events \ {"transfer"} BY DEF Events
<1>1. CASE Next
  <2>1. Steps BY <1>1, NextSteps
  <2>2. CASE ActorCase BY <1>b, <1>i, <2>2, CountActor
  <2>3. CASE OwnerSends BY <1>b, <1>i, <2>3, CountSent
  <2>4. CASE IoReads \/ IoSyncs
    <3>1. UNCHANGED <<asked, frames, deferred, doing, current>> BY <2>4 DEF IoReads, IoSyncs, IoOnly
    <3> DEFINE f == Count(frames, id)
               h == Count(inbox, id)
               i == Count(inbox', id)
               k == Count(socket, id)
               l == Count(socket', id)
               u == One(deferred = id)
               w == One(doing \in Committing /\ current = id)
    <3>2. i + l <= h + k BY <2>4, CountReads
    <3>3. f \in Nat /\ h \in Nat /\ k \in Nat /\ u \in Nat /\ w \in Nat BY OwedIs, OneType
    <3>4. i \in Nat /\ l \in Nat BY <1>b, OwedNext
    <3>5. f + i + l + u + w <= f + h + k + u + w
      <4> HIDE DEF f, h, i, k, l, u, w
      <4> QED BY <3>2, <3>3, <3>4
    <3> QED BY <1>b, <1>i, <3>1, <3>5, OwedKept
  <2>5. CASE BridgeReports \/ Signal \/ ListenerFails
    <3>1. /\ UNCHANGED <<asked, frames, socket, deferred, doing, current>>
          /\ inbox' = inbox \/ Post(Of("shutdown")) BY <2>5 DEF BridgeReports, Signal, ListenerFails
    <3> QED BY <1>b, <1>e, <1>i, <3>1, CountOther
  <2>6. CASE TakeCommand \/ TakeAnswer \/ PublishEffect \/ ForkEffect \/ ReadAck \/ WorkerStops
    <3>1. UNCHANGED <<asked, frames, socket, deferred, doing, current>>
      BY <2>6 DEF TakeCommand, TakeAnswer, PublishEffect, ForkEffect, ReadAck,
         WorkerStops, WorkerOnly
    <3>2. \/ inbox' = inbox
          \/ Post(Of("ready-point")) \/ Post(Of("publish-failed")) \/ Post(Of("commit-publish"))
          \/ Post(Of("fork-failed")) \/ Post(Of("commit-fork")) \/ Post(Of("published"))
          \/ Post(Of("forked")) \/ Post(Of("prepared")) \/ Post(Of("child-lost"))
      BY <2>6 DEF TakeCommand, TakeAnswer, PublishEffect, ForkEffect, ReadAck, WorkerStops
    <3>3. inbox' = inbox \/ \E k \in Events \ {"transfer"} : Post(Of(k)) BY <1>e, <3>2
    <3> QED BY <1>b, <1>i, <3>1, <3>3, CountOther
  <2>7. CASE ServeChildExited \/ ServeKill \/ ServeTransferred \/ ServeEnd \/ ServeCloses
    <3>1. UNCHANGED <<asked, frames, socket, deferred, doing, current>>
      BY <2>7 DEF ServeChildExited, ServeKill, ServeTransferred, ServeEnd, ServeCloses,
         Served, ServeOnly
    <3>2. inbox' = inbox \/ Post(Of("child-exited")) \/ Post(Of("shutdown"))
      BY <2>7 DEF ServeChildExited, ServeKill, ServeTransferred, ServeEnd, ServeCloses
    <3>3. inbox' = inbox \/ \E k \in Events \ {"transfer"} : Post(Of(k)) BY <1>e, <3>2
    <3> QED BY <1>b, <1>i, <3>1, <3>3, CountOther
  <2>8. CASE ChildPrepares \/ ChildExecs \/ ChildLeaves \/ ChildDies
    <3>1. UNCHANGED <<asked, frames, socket, deferred, doing, current, inbox>>
      BY <2>8 DEF ChildPrepares, ChildExecs, ChildLeaves, ChildDies, ChildOnly
    <3> QED BY <1>b, <1>i, <3>1, CountOther
  <2> QED BY <2>1, <2>2, <2>3, <2>4, <2>5, <2>6, <2>7, <2>8 DEF Steps
<1>2. CASE UNCHANGED vars
  <2>1. UNCHANGED <<asked, frames, socket, deferred, doing, current, inbox>> BY <1>2 DEF vars
  <2> QED BY <1>b, <1>i, <2>1, CountOther
<1> QED BY <1>1, <1>2

----------------------------------------------------------------------------
(* The child's exit is always with someone. *)

LEMMA ToldAdds ==
  ASSUME msgs \in Seq(Messages), NEW m \in Messages, msgs' = Append(msgs, m)
  PROVE  Told(m)' /\ \A c : Told(c) => Told(c)'
<1> DEFINE n == Len(msgs)
<1>1. /\ n \in Nat /\ DOMAIN msgs = 1..n /\ DOMAIN msgs' = 1..(n + 1)
      /\ msgs'[n + 1] = m /\ \A i \in 1..n : msgs'[i] = msgs[i] BY AppendFacts
<1> HIDE DEF n
<1>2. n + 1 \in 1..(n + 1) /\ \A i \in 1..n : i \in 1..(n + 1) BY <1>1
<1>3. Told(m)' BY <1>1, <1>2 DEF Told
<1>4. ASSUME NEW c, Told(c) PROVE Told(c)'
  <2>1. PICK i \in 1..n : msgs[i] = c BY <1>1, <1>4 DEF Told
  <2> QED BY <1>1, <1>2, <2>1 DEF Told
<1> QED BY <1>3, <1>4

LEMMA ToldTakes ==
  ASSUME msgs \in Seq(Messages), msgs # <<>>, msgs' = Tail(msgs)
  PROVE  \A c : Told(c) /\ Head(msgs) # c => Told(c)'
<1> DEFINE n == Len(msgs)
<1>1. /\ n \in Nat \ {0} /\ DOMAIN msgs = 1..n /\ DOMAIN msgs' = 1..(n - 1)
      /\ Head(msgs) = msgs[1] /\ \A i \in 1..(n - 1) : msgs'[i] = msgs[i + 1] BY TailFacts
<1> HIDE DEF n
<1> SUFFICES ASSUME NEW c, Told(c), Head(msgs) # c PROVE Told(c)' OBVIOUS
<1>2. PICK i \in 1..n : msgs[i] = c BY <1>1 DEF Told
<1>3. i # 1 BY <1>1, <1>2
<1>4. i - 1 \in 1..(n - 1) /\ (i - 1) + 1 = i BY <1>1, <1>3
<1>5. msgs'[i - 1] = c BY <1>1, <1>2, <1>4
<1> QED BY <1>1, <1>4, <1>5 DEF Told

LEMMA ToldKeeps ==
  ASSUME msgs' = msgs
  PROVE  \A c : Told(c)' <=> Told(c)
BY DEF Told

(* More is told, and the serving loop is where it was. *)
LEMMA ExitGrows ==
  ASSUME Base, ExitInv, UNCHANGED <<bridged, worker, serveVars, transferred>>,
         msgs' = msgs \/ \E m \in Messages : msgs' = Append(msgs, m)
  PROVE  ExitInv'
<1>0. msgs \in Seq(Messages) BY TypeParts DEF Base, Queues
<1>1. \A c : Told(c) => Told(c)'
  <2>1. CASE msgs' = msgs BY <2>1, ToldKeeps
  <2>2. CASE \E m \in Messages : msgs' = Append(msgs, m)
    <3>1. PICK m \in Messages : msgs' = Append(msgs, m) BY <2>2
    <3> QED BY <1>0, <3>1, ToldAdds
  <2> QED BY <2>1, <2>2
<1> QED BY <1>1, Zenon DEF ExitInv, Up

LEMMA ExitActor ==
  ASSUME Base, ExitInv, ActorCase
  PROVE  ExitInv'
<1>0. msgs \in Seq(Messages) BY TypeParts DEF Base, Queues
<1>1. UNCHANGED <<bridged, worker, serveVars>>
  BY DEF ActorCase, Passes, Cancels, Launches, OnCommit, Concludes, Retires, OrdersFork,
         RecordsChild, Holds, OnReadyPoint, Accepts, CompleteRetirement, CommitTransfer,
         ReleaseTransfer, FinishTransfer, ActorFrame
<1>2. "end" \in Messages /\ "transferred" \in Messages BY DEF Messages
<1>3. EndActor \/ Consume => msgs' = msgs \/ \E m \in Messages : msgs' = Append(msgs, m)
  BY <1>2 DEF EndActor, Consume
<1>4. CASE CommitTransfer /\ msgs' = Append(msgs, "transferred")
  <2>1. Told("transferred")' /\ \A c : Told(c) => Told(c)' BY <1>0, <1>2, <1>4, ToldAdds
  <2> QED BY <1>1, <2>1, Zenon DEF ExitInv, Up
<1>5. CASE CommitTransfer /\ EndActor /\ UNCHANGED transferred BY <1>1, <1>3, <1>5, ExitGrows
<1>6. CASE Passes \/ Cancels \/ Concludes \/ Retires \/ RecordsChild \/ CompleteRetirement
             \/ OnCommit \/ Accepts
  <2>1. EndActor \/ Consume
    BY <1>6 DEF Passes, Cancels, Concludes, Retires, RecordsChild, CompleteRetirement,
       OnCommit, Accepts
  <2>2. UNCHANGED transferred
    BY <1>6 DEF Passes, Cancels, Concludes, Retires, RecordsChild, CompleteRetirement,
       OnCommit, Accepts, Quiet
  <2> QED BY <1>1, <1>3, <2>1, <2>2, ExitGrows
<1>7. CASE Launches \/ OrdersFork \/ Holds
  <2>1. UNCHANGED transferred /\ (UNCHANGED msgs \/ EndActor) BY <1>7 DEF Launches, OrdersFork, Holds
  <2> QED BY <1>1, <1>3, <2>1, ExitGrows
<1>8. CASE OnReadyPoint \/ ReleaseTransfer \/ FinishTransfer
  <2>1. UNCHANGED <<transferred, msgs>> BY <1>8 DEF OnReadyPoint, ReleaseTransfer, FinishTransfer
  <2> QED BY <1>1, <2>1, ExitGrows
<1>9. CASE CommitTransfer BY <1>4, <1>5, <1>9 DEF CommitTransfer
<1> QED BY <1>6, <1>7, <1>8, <1>9 DEF ActorCase

LEMMA ExitServe ==
  ASSUME Base, ExitInv,
         ServeChildExited \/ ServeKill \/ ServeTransferred \/ ServeEnd \/ ServeCloses
  PROVE  ExitInv'
<1>0. msgs \in Seq(Messages) BY TypeParts DEF Base, Queues
<1>1. CASE ServeCloses
  <2>1. worker' = "stopped" BY <1>1 DEF ServeCloses, ProcessEnds
  <2> QED BY <2>1 DEF ExitInv, Up
<1>2. ASSUME NEW kind, Served(kind)
      PROVE  /\ UNCHANGED <<bridged, transferred, worker>> /\ Head(msgs) = kind
             /\ \A c : Told(c) /\ kind # c => Told(c)'
  <2>1. msgs # <<>> /\ msgs' = Tail(msgs) /\ Head(msgs) = kind BY <1>2 DEF Served
  <2>2. \A c : Told(c) /\ kind # c => Told(c)' BY <1>0, <2>1, ToldTakes
  <2>3. UNCHANGED <<bridged, transferred, worker>> BY <1>2 DEF Served, ServeOnly
  <2> QED BY <2>1, <2>2, <2>3
<1>3. CASE ServeChildExited
  <2>1. CASE transferred
    <3>1. exited' = TRUE BY <1>3, <2>1 DEF ServeChildExited
    <3> QED BY <3>1 DEF ExitInv
  <2>2. CASE ~transferred
    <3>1. deferredExit' = TRUE /\ UNCHANGED transferred BY <1>2, <1>3, <2>2 DEF ServeChildExited
    <3> QED BY <2>2, <3>1 DEF ExitInv
  <2> QED BY <2>1, <2>2
<1>4. CASE ServeKill
  <2>1. UNCHANGED <<bridged, transferred, worker, deferredExit, exited>> BY <1>2, <1>4 DEF ServeKill
  <2>2. \A c : Told(c) /\ c # "kill" => Told(c)' BY <1>2, <1>4 DEF ServeKill
  <2>3. (Told("child-exited") => Told("child-exited")')
          /\ (Told("transferred") => Told("transferred")') BY <2>2
  <2>4. shutdown' = "kill" \/ shutdown' = shutdown BY <1>4 DEF ServeKill
  <2>5. shutdown # "none" => shutdown' # "none" BY <2>4
  <2> QED BY <2>1, <2>3, <2>5, Zenon DEF ExitInv, Up
<1>5. CASE ServeTransferred
  <2>1. /\ UNCHANGED <<bridged, transferred, worker, shutdown>>
        /\ exited' = (exited \/ deferredExit) BY <1>2, <1>5 DEF ServeTransferred
  <2>2. \A c : Told(c) /\ c # "transferred" => Told(c)' BY <1>2, <1>5 DEF ServeTransferred
  <2>3. Told("child-exited") => Told("child-exited")' BY <2>2
  <2> QED BY <2>1, <2>3, Zenon DEF ExitInv, Up
<1>6. CASE ServeEnd
  <2>1. shutdown' # "none" BY <1>6 DEF ServeEnd
  <2> QED BY <2>1 DEF ExitInv
<1> QED BY <1>1, <1>3, <1>4, <1>5, <1>6

LEMMA ExitStep ==
  ASSUME Base, ExitInv, [Next]_vars
  PROVE  ExitInv'
<1>m. "kill" \in Messages /\ "child-exited" \in Messages BY DEF Messages
<1>1. CASE Next
  <2>1. Steps BY <1>1, NextSteps
  <2>2. CASE ActorCase BY <2>2, ExitActor
  <2>3. CASE OwnerSends \/ IoReads \/ IoSyncs
    <3>1. UNCHANGED <<bridged, worker, serveVars, transferred, msgs>>
      BY <2>3 DEF OwnerSends, IoReads, IoSyncs, IoOnly
    <3> QED BY <3>1, ExitGrows
  <2>4. CASE BridgeReports
    <3>1. msgs \in Seq(Messages) BY TypeParts DEF Base, Queues
    <3>2. msgs' = Append(msgs, "child-exited") BY <2>4 DEF BridgeReports
    <3>3. Told("child-exited")' BY <1>m, <3>1, <3>2, ToldAdds
    <3> QED BY <3>3 DEF ExitInv
  <2>5. CASE Signal \/ ListenerFails
    <3>1. /\ UNCHANGED <<bridged, worker, serveVars, transferred>>
          /\ msgs' = msgs \/ msgs' = Append(msgs, "kill") BY <2>5 DEF Signal, ListenerFails
    <3> QED BY <1>m, <3>1, ExitGrows
  <2>6. CASE TakeCommand \/ TakeAnswer \/ PublishEffect \/ ForkEffect \/ ReadAck \/ WorkerStops
    <3>1. UNCHANGED <<bridged, serveVars, transferred, msgs>>
      BY <2>6 DEF TakeCommand, TakeAnswer, PublishEffect, ForkEffect, ReadAck,
         WorkerStops, WorkerOnly
    <3>2. Up' => Up BY <2>6 DEF TakeCommand, TakeAnswer, PublishEffect, ForkEffect, ReadAck,
         WorkerStops, ProcessEnds, Up
    <3>3. \A c : Told(c) => Told(c)' BY <3>1, ToldKeeps
    <3> QED BY <3>1, <3>2, <3>3, Zenon DEF ExitInv
  <2>7. CASE ServeChildExited \/ ServeKill \/ ServeTransferred \/ ServeEnd \/ ServeCloses
    BY <2>7, ExitServe
  <2>8. CASE ChildPrepares \/ ChildExecs \/ ChildLeaves \/ ChildDies
    <3>1. UNCHANGED <<bridged, worker, serveVars, transferred, msgs>>
      BY <2>8 DEF ChildPrepares, ChildExecs, ChildLeaves, ChildDies, ChildOnly
    <3> QED BY <3>1, ExitGrows
  <2> QED BY <2>1, <2>2, <2>3, <2>4, <2>5, <2>6, <2>7, <2>8 DEF Steps
<1>2. CASE UNCHANGED vars
  <2>1. UNCHANGED <<bridged, worker, serveVars, transferred, msgs>> BY <1>2 DEF vars
  <2> QED BY <2>1, ExitGrows
<1> QED BY <1>1, <1>2

----------------------------------------------------------------------------
(* The invariant, and what it gives. *)

LEMMA InvInit ==
  ASSUME Init
  PROVE  Inv
<1>0. Base BY BaseInit
<1>1. Types /\ EndInv BY <1>0 DEF Base
<1>q. /\ \A K : ~Queued(K) /\ Single(K)
      /\ \A c : ~Ordered(c) /\ OrderedOnce(c) BY DEF Init, Queued, Single, Ordered, OrderedOnce
<1>r. /\ rec.state = "pending" /\ disk.state = "pending" /\ rec.held = FALSE
      /\ rec.retirement = "none" /\ disk.retirement = "none"
      /\ tickets["publish"] = "none" /\ tickets["fork"] = "none" BY DEF Init, Kinds
<1>2. RecordInv BY <1>r DEF Init, RecordInv
<1>3. SyncInv BY <1>q DEF Init, SyncInv
<1>4. TicketInv
  <2>1. PublishInv BY <1>q, <1>r DEF Init, PublishInv, PublishPlaces
  <2>2. ForkInv BY <1>q, <1>r DEF Init, ForkInv, ForkPlaces
  <2>3. RequestInv BY <1>q DEF Init, RequestInv
  <2>4. GrantInv BY <1>r DEF Init, GrantInv
  <2>5. ChildInv BY DEF Init, ChildInv
  <2>6. VerifiedInv BY <1>r DEF VerifiedInv
  <2> QED BY <2>1, <2>2, <2>3, <2>4, <2>5, <2>6 DEF TicketInv
<1>5. FrameInv BY DEF Init, FrameInv, Of
<1>6. CountInv
  <2> SUFFICES ASSUME NEW id \in TransferIds PROVE Owed(id) <= asked[id] BY DEF CountInv
  <2>0. id # None BY ActorAssumption
  <2>1. Count(frames, id) = 0
    <3>1. frames = <<Of("accepted")>> BY DEF Init
    <3>2. Count(<<Of("accepted")>>, id) = One(Of("accepted").id = id) BY CountOne
    <3>3. One(Of("accepted").id = id) = 0 BY <2>0 DEF One, Of
    <3> QED BY <3>1, <3>2, <3>3, Zenon
  <2>2. Count(inbox, id) = 0 /\ Count(socket, id) = 0 BY CountEmpty DEF Init
  <2>3. One(deferred = id) = 0 BY <2>0 DEF Init, One
  <2>4. One(doing \in Committing /\ current = id) = 0 BY DEF Init, One, Committing
  <2>5. asked[id] = 0 BY DEF Init
  <2> QED BY <1>0, <2>1, <2>2, <2>3, <2>4, <2>5, OwedIs
<1>7. ExitInv BY DEF Init, ExitInv
<1> QED BY <1>1, <1>2, <1>3, <1>4, <1>5, <1>6, <1>7 DEF Inv

LEMMA InvStep ==
  ASSUME Inv, [Next]_vars
  PROVE  Inv'
<1>1. Base /\ RecordInv /\ SyncInv /\ TicketInv /\ FrameInv /\ CountInv /\ ExitInv BY DEF Inv, Base
<1>2. Types' /\ EndInv'
  <2>1. Base' BY <1>1, BaseStep
  <2> QED BY <2>1 DEF Base
<1>3. RecordInv' BY <1>1, RecordStep
<1>4. SyncInv' BY <1>1, SyncStep
<1>5. TicketInv' BY <1>1, TicketStep
<1>6. FrameInv' BY <1>1, FrameStep
<1>7. CountInv' BY <1>1, CountStep
<1>8. ExitInv' BY <1>1, ExitStep
<1> QED BY <1>2, <1>3, <1>4, <1>5, <1>6, <1>7, <1>8 DEF Inv

(* The layers hold in every state of the daemon, whatever the owner sends, *)
(* however its threads, its child and its signals interleave, and whichever *)
(* record write fails (operation.rs: ControlIo, Actor, Worker; lifecycle.rs: *)
(* Daemon::handle). *)
THEOREM Invariance == Spec => []Inv
<1>1. Init => Inv BY InvInit
<1>2. Inv /\ [Next]_vars => Inv' BY InvStep
<1> QED BY <1>1, <1>2, PTL DEF Spec

(* Every variable keeps its type, and a transfer that is being committed, *)
(* released or finished has a request (Actor::commit_transfer). *)
THEOREM TypeCorrect == Spec => []TypeOK
<1>1. Inv => TypeOK BY DEF Inv, Types
<1> QED BY <1>1, Invariance, PTL

LEMMA InvEffects ==
  ASSUME Inv
  PROVE  EffectsFollowRecord
<1>1. VerifiedIsQuiet
  <2> SUFFICES ASSUME disk.retirement = "verified"
               PROVE  worker \notin {"publishing", "forking"} /\ ~row /\ proc \in {"none", "gone"}
    BY DEF VerifiedIsQuiet
  <2>1. ~InFlight(tickets) /\ ~row /\ proc \in {"none", "gone"} BY DEF Inv, TicketInv, VerifiedInv
  <2>2. tickets["publish"] # "committed" /\ tickets["fork"] # "committed" BY <2>1, InFlightIs
  <2>3. worker \notin {"publishing", "forking"} BY <2>2 DEF Inv, TicketInv, GrantInv
  <2> QED BY <2>1, <2>3
<1>2. RunsOnlyTransferred BY DEF RunsOnlyTransferred, Inv, RecordInv
<1>3. QueuedWithdrawalWins BY DEF QueuedWithdrawalWins, Inv, SyncInv, RecordInv
<1> QED BY <1>1, <1>2, <1>3 DEF EffectsFollowRecord

(* No effect overtakes the record: once a retirement is verified on disk no *)
(* publication or fork is under way, the row and the child are gone; the *)
(* command runs only when the transfer is on disk; and no launch overtakes a *)
(* withdrawal that could be read when the decision was taken (the ticket *)
(* rendezvous of ActorEvent::Commit, Actor::retire, begin_sync). *)
THEOREM EffectsFollow == Spec => []EffectsFollowRecord
<1>1. Inv => EffectsFollowRecord BY InvEffects
<1> QED BY <1>1, Invariance, PTL

LEMMA InvCounts ==
  ASSUME Inv
  PROVE  MessagesCountOnce
<1>0. Base BY DEF Inv, Base
<1>1. ASSUME NEW id \in TransferIds PROVE Cardinality(Answers(id)) <= asked[id]
  <2>1. Cardinality(Answers(id)) = Count(frames, id) BY DEF Answers, Count, Naming
  <2>2. Owed(id) <= asked[id] BY DEF Inv, CountInv
  <2>3. asked[id] \in Nat BY <1>0, TypeParts DEF Base, OtherTypes
  <2> DEFINE f == Count(frames, id)
             g == Count(inbox, id)
             h == Count(socket, id)
             u == One(deferred = id)
             w == One(doing \in Committing /\ current = id)
  <2>4. Owed(id) = f + g + h + u + w /\ f \in Nat /\ g \in Nat /\ h \in Nat BY <1>0, OwedIs
  <2>5. u \in {0, 1} /\ w \in {0, 1} BY OneType
  <2>6. f <= asked[id]
    <3> HIDE DEF f, g, h, u, w
    <3> QED BY <2>2, <2>3, <2>4, <2>5
  <2> QED BY <2>1, <2>6
<1>2. OneAnswerPerRequest BY <1>1 DEF OneAnswerPerRequest, Inv, FrameInv
<1>3. ExitNotLost
  <2>1. ExitInv BY DEF Inv
  <2> QED BY <2>1, Zenon DEF ExitInv, ExitNotLost, Told
<1> QED BY <1>2, <1>3 DEF MessagesCountOnce

(* A transfer request has at most one answer, `transferred` only for the *)
(* request the record names and after `ready`; and the exit of a *)
(* transferred session's child is never between the actor and the serving *)
(* loop without one of them having it (on_owner, retire, commit_transfer, *)
(* OperationLink::holds, Msg::OperationTransferred). *)
THEOREM CountedOnce == Spec => []MessagesCountOnce
<1>1. Inv => MessagesCountOnce BY InvCounts
<1> QED BY <1>1, Invariance, PTL
============================================================================
