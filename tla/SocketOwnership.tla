--------------------------- MODULE SocketOwnership ---------------------------
(***************************************************************************)
(* Whose is the accepted end of a connection (crates/pty/src/daemon/       *)
(* ownership.rs, native/darwin_socket_owner.c): a client asks the daemon   *)
(* whether the session's child, or an exact descendant of it, holds it.    *)
(* The daemon reads the process table, looks for the socket, reads the     *)
(* table again, looks again, and reads it once more; the processes fork,   *)
(* exit and hand descriptors on meanwhile, and a table is read row by row. *)
(***************************************************************************)
EXTENDS Integers, Sequences, FiniteSets, FiniteSetsExt

CONSTANTS
  Root,      \* the child's pid
  Pids,      \* the pids processes can have, Root included; 1 is their reaper
  Attempts,  \* CHANGED_TABLE_ATTEMPTS
  MaxMoves   \* bound: what the processes do meanwhile, and rows refused

VARIABLES
  os, blind,  \* processes whose identity cannot be read
  rows, fresh, holds, conn,  \* the machine: processes, next start token, who holds the socket, is it established
  pc, left, tab,    \* the table being read: the rows still to read, the rows read
  before, middle,   \* the tree snapshots taken
  todo, cur, tries, \* the socket search: pids left, the one searched, attempts made
  found, answer,
  sure,      \* the confirming search found a live descendant with the socket
  steady,    \* who has been a readable descendant with the socket all along
  missed,    \* the rows each table is without although their processes are there
  moves

machine == <<rows, fresh, holds, conn>>
search == <<todo, cur, tries>>
ownvars == <<os, blind, machine, pc, left, tab, before, middle, search, found, answer, sure, steady, missed, moves>>

RootTok == 1
NoRow == [tok |-> 0, ppid |-> 0, state |-> "none"]
NoCur == [pid |-> 0, tok |-> 0, listed |-> FALSE]
There(r) == r.state # "none"

----------------------------------------------------------------------------
(* The process tree of a table t (a function from pids to rows). *)
Below(t, root) ==
  LET Kids(S) == {p \in DOMAIN t : t[p].ppid \in S}
      Down[k \in 0..Cardinality(DOMAIN t)] == IF k = 0 THEN {root} ELSE Down[k - 1] \union Kids(Down[k - 1])
  IN  Down[Cardinality(DOMAIN t)]
(* tree_snapshot: the root must be the very child, alive. *)
RootIsChild(t) == Root \in DOMAIN t /\ t[Root].state = "run" /\ t[Root].tok = RootTok
TreeSnapshot(t) == [p \in Below(t, Root) |-> t[p]]
(* verified_chain: from the owner up to the root, each alive and known; an *)
(* empty chain is the refusal. *)
Verified(tree, p) == p \in DOMAIN tree /\ tree[p].state # "zombie" /\ tree[p].tok # 0
Link(tree, p) == [pid |-> p, tok |-> tree[p].tok]
VerifiedChain(tree, owner) ==
  LET Up[k \in 0..Cardinality(Pids)] ==
        IF k = 0 THEN [at |-> owner, chain |-> <<>>, ok |-> Verified(tree, owner)]
        ELSE IF ~Up[k - 1].ok \/ Up[k - 1].at = Root THEN Up[k - 1]
        ELSE [at |-> tree[Up[k - 1].at].ppid, chain |-> Append(Up[k - 1].chain, Link(tree, Up[k - 1].at)),
              ok |-> Verified(tree, tree[Up[k - 1].at].ppid)]
      top == Up[Cardinality(Pids)]
  IN  IF top.ok /\ top.at = Root THEN Append(top.chain, Link(tree, Root)) ELSE <<>>

(* The machine itself as a table. *)
Alive == [p \in {q \in Pids : There(rows[q])} |-> rows[p]]
Descends(p) == RootIsChild(Alive) /\ p \in Below(Alive, Root) /\ rows[p].state = "run"
HoldsNow(p) == p \in holds /\ conn = "established" /\ Descends(p)

----------------------------------------------------------------------------
OwnInit ==
  /\ os \in {"linux", "macos"} /\ blind \in {{}, {Max(Pids)}}
  /\ \E kids \in SUBSET (Pids \ {Root}) :
       rows = [p \in Pids |-> IF p = Root THEN [tok |-> RootTok, ppid |-> 1, state |-> "run"]
                              ELSE IF p \in kids THEN [tok |-> p, ppid |-> Root, state |-> "run"] ELSE NoRow]
  /\ fresh = Max(Pids) + 1 /\ conn = "established"
  /\ holds \in SUBSET {p \in Pids : There(rows[p])} /\ Cardinality(holds) <= 1
  /\ pc = "asked" /\ left = {} /\ tab = <<>> /\ before = <<>> /\ middle = <<>>
  /\ todo = {} /\ cur = NoCur /\ tries = 0 /\ found = 0 /\ answer = "" /\ sure = FALSE
  /\ steady = {p \in holds : HoldsNow(p) /\ p \notin blind} /\ moves = 0
  /\ missed = [read1 |-> {}, read2 |-> {}, read3 |-> {}]

----------------------------------------------------------------------------
(* What the processes do. *)
Moves ==
  /\ moves < MaxMoves /\ pc \notin {"asked", "done"} /\ moves' = moves + 1
  /\ UNCHANGED <<os, blind, pc, left, tab, before, middle, search, found, answer, sure, missed>>
Steadies == steady' = {p \in steady : HoldsNow(p)' /\ rows'[p].tok = rows[p].tok}
Fork(p, q) ==
  /\ rows[p].state = "run" /\ ~There(rows[q])
  /\ rows' = [rows EXCEPT ![q] = [tok |-> fresh, ppid |-> p, state |-> "run"]] /\ fresh' = fresh + 1
  /\ holds' = IF p \in holds THEN holds \union {q} ELSE holds
  /\ UNCHANGED conn /\ Moves /\ Steadies
Exit(p) ==
  /\ rows[p].state = "run"
  /\ rows' = [q \in Pids |-> IF q = p THEN [rows[p] EXCEPT !.state = "zombie"]
                             ELSE IF rows[q].ppid = p /\ There(rows[q]) THEN [rows[q] EXCEPT !.ppid = 1] ELSE rows[q]]
  /\ holds' = holds \ {p}
  /\ UNCHANGED <<fresh, conn>> /\ Moves /\ Steadies
Reaped(p) ==
  /\ rows[p].state = "zombie" /\ rows' = [rows EXCEPT ![p] = NoRow]
  /\ UNCHANGED <<fresh, holds, conn>> /\ Moves /\ Steadies
(* A descriptor is sent over a unix socket, or closed. *)
HandsOn(p, q) ==
  /\ p \in holds /\ rows[q].state = "run" /\ q \notin holds
  /\ \E keep \in BOOLEAN : holds' = (IF keep THEN holds ELSE holds \ {p}) \union {q}
  /\ UNCHANGED <<rows, fresh, conn>> /\ Moves /\ Steadies
Disconnects ==
  /\ conn = "established" /\ conn' = "closed"
  /\ UNCHANGED <<rows, fresh, holds>> /\ Moves /\ Steadies

----------------------------------------------------------------------------
(* inspect_with. *)
Alone == UNCHANGED <<os, blind, machine, steady>>
Rest == Alone /\ UNCHANGED <<moves, missed>>
Unavailable == pc' = "done" /\ answer' = "unavailable"
StartTable(at) == pc' = at /\ left' = Pids /\ tab' = <<>>
(* validate_tuple: no scope, two addresses of one family (0 stands for *)
(* what does not parse), two ports. *)
ValidateTuple(t) == ~t.scoped /\ t.local # 0 /\ t.remote = t.local /\ t.ports
(* on_accepted_socket_ownership: asked of this generation's child, which *)
(* runs, is known and has its record. *)
RequestStands(r) == r.decodes /\ r.generation = "own" /\ ~r.exited /\ r.record = "own" /\ r.child
Tuples == [scoped : BOOLEAN, local : {0, 4}, remote : {4, 6}, ports : BOOLEAN]
Questions == [decodes : BOOLEAN, generation : {"own", "other"}, exited : BOOLEAN, record : {"own", "other", "none"}, child : BOOLEAN]
Asked(r, t) ==
  /\ pc = "asked"
  /\ IF RequestStands(r) /\ ValidateTuple(t) THEN StartTable("read1") /\ UNCHANGED answer
     ELSE Unavailable /\ UNCHANGED <<left, tab>>
  /\ UNCHANGED <<before, middle, search, found, sure>> /\ Rest
Asks == pc = "asked" /\ \E r \in Questions, t \in Tuples : Asked(r, t)
(* ProcTable::read, row by row; a read that fails is no table, but a table *)
(* without a row that was refused is one (is_readable, not is_complete). *)
RowOf(p) == IF p \in blind THEN [rows[p] EXCEPT !.tok = 0] ELSE rows[p]
ReadRow ==
  /\ pc \in {"read1", "read2", "read3"} /\ left # {}
  /\ LET p == Min(left)
     IN  /\ left' = left \ {p}
         /\ tab' = IF There(rows[p]) THEN [q \in DOMAIN tab \union {p} |-> IF q = p THEN RowOf(p) ELSE tab[q]] ELSE tab
  /\ UNCHANGED <<pc, before, middle, search, found, answer, sure>> /\ Rest
RowRefused ==
  /\ pc \in {"read1", "read2", "read3"} /\ left # {} /\ There(rows[Min(left)])
  /\ left' = left \ {Min(left)} /\ missed' = [missed EXCEPT ![pc] = @ \union {Min(left)}]
  /\ moves < MaxMoves /\ moves' = moves + 1
  /\ UNCHANGED <<pc, tab, before, middle, search, found, answer, sure>> /\ Alone
ReadFails ==
  /\ pc \in {"read1", "read2", "read3"} /\ left # {} /\ Unavailable
  /\ UNCHANGED <<left, tab, before, middle, search, found, sure>> /\ Rest
TableRead(at) == pc = at /\ left = {}
Searches(pids, at) == todo' = pids /\ cur' = NoCur /\ tries' = 0 /\ pc' = at
Searchable(tree) == {p \in DOMAIN tree : tree[p].state # "zombie"}
BeforeRead ==
  /\ TableRead("read1")
  /\ IF RootIsChild(tab) THEN before' = TreeSnapshot(tab) /\ Searches(Searchable(TreeSnapshot(tab)), "search") /\ UNCHANGED answer
     ELSE Unavailable /\ UNCHANGED <<before, search>>
  /\ UNCHANGED <<left, tab, middle, found, sure>> /\ Rest

(* inspect_linux, scan_pid: a process's socket table and descriptors are *)
(* listed, then the descriptors are looked at one by one. *)
Listed(p) == p \in holds /\ conn = "established"
Searching == pc \in {"search", "confirm"}
ListFds ==
  /\ Searching /\ cur = NoCur /\ todo # {}
  /\ LET p == Min(todo)
     IN  IF rows[p].state = "run"
         THEN cur' = [pid |-> p, tok |-> rows[p].tok, listed |-> Listed(p)] /\ UNCHANGED <<pc, answer>>
         ELSE Unavailable /\ UNCHANGED cur
  /\ UNCHANGED <<left, tab, before, middle, todo, tries, found, sure>> /\ Rest
(* A descriptor that closed after it was listed is passed over on Linux; *)
(* on macOS the whole table is listed again, up to Attempts times. *)
Same == rows[cur.pid].state = "run" /\ rows[cur.pid].tok = cur.tok
Vanished == cur.listed /\ cur.pid \notin holds
ScansAgain ==
  IF tries + 1 < Attempts THEN tries' = tries + 1 /\ cur' = NoCur /\ UNCHANGED <<pc, answer, todo, found, sure>>
  ELSE Unavailable /\ UNCHANGED <<todo, cur, tries, found, sure>>
LookAtFds ==
  /\ Searching /\ cur # NoCur
  /\ CASE ~Same -> Unavailable /\ UNCHANGED <<todo, cur, tries, found, sure>>
       [] Same /\ cur.listed /\ ~Vanished ->
            /\ pc' = IF pc = "search" THEN "seen" ELSE "confirmed"
            /\ found' = cur.pid /\ sure' = (pc = "confirm" /\ Descends(cur.pid))
            /\ cur' = NoCur /\ UNCHANGED <<todo, tries, answer>>
       [] Same /\ Vanished /\ os = "macos" -> ScansAgain
       [] OTHER -> todo' = todo \ {cur.pid} /\ cur' = NoCur /\ tries' = 0 /\ UNCHANGED <<pc, answer, found, sure>>
  /\ UNCHANGED <<left, tab, before, middle>> /\ Rest
NotFound ==
  /\ pc = "search" /\ cur = NoCur /\ todo = {}
  /\ found' = 0 /\ StartTable("read2")
  /\ UNCHANGED <<before, middle, search, answer, sure>> /\ Rest
Seen ==
  /\ pc = "seen" /\ StartTable("read2")
  /\ UNCHANGED <<before, middle, search, found, answer, sure>> /\ Rest
(* The second table: a negative answer needs an unchanged tree whose every *)
(* process is known; a positive one needs an unchanged chain. *)
Unidentified == \E p \in DOMAIN before : before[p].state # "zombie" /\ before[p].tok = 0
NegativeStands(tree) == before = tree /\ ~Unidentified
ChainStands(tree) == VerifiedChain(before, found) # <<>> /\ VerifiedChain(tree, found) = VerifiedChain(before, found)
MiddleRead ==
  /\ TableRead("read2")
  /\ CASE ~RootIsChild(tab) -> Unavailable /\ UNCHANGED <<middle, search>>
       [] RootIsChild(tab) /\ found = 0 ->
            pc' = "done" /\ answer' = (IF NegativeStands(TreeSnapshot(tab)) THEN "notowned" ELSE "unavailable") /\ UNCHANGED <<middle, search>>
       [] RootIsChild(tab) /\ found # 0 /\ ChainStands(TreeSnapshot(tab)) ->
            middle' = TreeSnapshot(tab) /\ Searches({found}, "confirm") /\ UNCHANGED answer
       [] OTHER -> Unavailable /\ UNCHANGED <<middle, search>>
  /\ UNCHANGED <<left, tab, before, found, sure>> /\ Rest
Unconfirmed ==
  /\ pc = "confirm" /\ cur = NoCur /\ todo = {} /\ Unavailable
  /\ UNCHANGED <<left, tab, before, middle, search, found, sure>> /\ Rest
Confirmed ==
  /\ pc = "confirmed" /\ StartTable("read3")
  /\ UNCHANGED <<before, middle, search, found, answer, sure>> /\ Rest
(* Mutant: the confirmed socket is believed without the last table. *)
LastTableStandsUnread == TRUE
LastTableStands == RootIsChild(tab) /\ ChainStands(TreeSnapshot(tab))
AfterRead ==
  /\ TableRead("read3") /\ pc' = "done"
  /\ answer' = IF LastTableStands THEN "owned" ELSE "unavailable"
  /\ UNCHANGED <<left, tab, before, middle, search, found, sure>> /\ Rest

OwnNext ==
  \/ \E p \in Pids, q \in Pids \ {Root} : Fork(p, q) \/ HandsOn(p, q)
  \/ \E p \in Pids : Exit(p) \/ Reaped(p)
  \/ Disconnects
  \/ Asks \/ ReadRow \/ RowRefused \/ ReadFails \/ BeforeRead \/ ListFds \/ LookAtFds \/ NotFound \/ Seen
  \/ MiddleRead \/ Unconfirmed \/ Confirmed \/ AfterRead
OwnSpec == OwnInit /\ [][OwnNext]_ownvars

----------------------------------------------------------------------------
OwnTypeOK ==
  /\ answer \in {"", "owned", "notowned", "unavailable"} /\ (answer # "") = (pc = "done")
  /\ holds \subseteq Pids /\ steady \subseteq holds /\ tries < Attempts
(* "Owned" is answered only when the confirming search found the socket *)
(* with a live process that descended from the session's own child at that *)
(* moment; "not owned" is never answered of a socket that one known *)
(* descendant held from the question to the answer, unless the same row was *)
(* refused to both of the tables that had to agree.  (inspect_with, *)
(* verified_chain) *)
OwnershipIsProved ==
  /\ answer = "owned" => sure
  /\ answer = "notowned" => steady = {} \/ missed.read1 \intersect missed.read2 # {}
(* Not so: "a caller that must prove it saw every descendant does [care]: *)
(* without this, a skipped row reads as a tree that has no such process" *)
(* (proctable.rs, is_complete). *)
NotOwnedIsProved == answer = "notowned" => steady = {}
=============================================================================
