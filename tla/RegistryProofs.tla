--------------------------- MODULE RegistryProofs ---------------------------
(***************************************************************************)
(* Proofs about the commands and collectors that signal processes and      *)
(* remove rows, and about the freeze of a tree, for any set of pids, any   *)
(* number of processes, and whatever happens between two steps.            *)
(***************************************************************************)
EXTENDS MCRegistry, WellFoundedInduction, TLAPS

----------------------------------------------------------------------------
(* The descendants of a process: the least set with its children. *)

LEMMA WalkClosed ==
  ASSUME NEW rt, NEW tb, NEW c \in DOMAIN tb, c # rt, tb[c].ppid \in Walk(rt, tb) \cup {rt}
  PROVE  c \in Walk(rt, tb)
BY DEF Walk

LEMMA WalkLeast ==
  ASSUME NEW rt, NEW tb, NEW W \in SUBSET DOMAIN tb,
         \A c \in DOMAIN tb : c # rt /\ tb[c].ppid \in W \cup {rt} => c \in W
  PROVE  Walk(rt, tb) \subseteq W
BY DEF Walk

(* The freeze looks at its own tree in the same way. *)
LEMMA SameWalk == \A rt, tb : F!Walk(rt, tb) = Walk(rt, tb)
BY DEF Walk, F!Walk

----------------------------------------------------------------------------
(* The root of the tree that is frozen. *)

LEMMA LeastPid ==
  ASSUME NEW X, X \subseteq Nat, X # {}
  PROVE  \E x \in X : \A y \in X : x <= y
<1> DEFINE Less == {pr \in Nat \X Nat : pr[1] < pr[2]}
<1>1. IsWellFoundedOn(Less, Nat) BY NatLessThanWellFounded DEF OpToRel
<1> HIDE DEF Less
<1>2. PICK x \in X : \A y \in X : ~(<<y, x>> \in Less) BY <1>1, WFMin
<1>3. \A y \in X : ~(y < x) BY <1>2 DEF Less
<1> QED BY <1>3

LEMMA RootIsPid == F!Root \in Pids
<1>1. \E p \in Pids : \A q \in Pids : p <= q BY LeastPid, MachineAssumption
<1> QED BY <1>1 DEF F!Root

----------------------------------------------------------------------------
(* The freeze of a tree: the inductive invariant.  It is about the freeze *)
(* up to its verdict; what terminates the tree afterwards claims nothing. *)

FreezeRow == [tok : Nat, ppid : Nat, pgid : Nat, state : {"run", "stop"}]
FreezeIds == [pid : Pids, tok : Nat]
FreezeReader == [left : SUBSET Pids, rows : UNION {[D -> FreezeRow] : D \in SUBSET Pids},
                 dropped : BOOLEAN]
FreezeState ==
  [pc : {"first", "root", "stop", "judge", "frozen", "term", "ended"},
   attempt : Int, limit : Int, observed : SUBSET FreezeIds, missed : SUBSET FreezeIds,
   previous : SUBSET FreezeIds, twice : BOOLEAN, result : {"none", "unavailable", "complete"},
   tree : SUBSET FreezeIds]
FreezeTypes ==
  /\ tree \in UNION {[D -> FreezeRow] : D \in SUBSET Pids}
  /\ born \in Nat /\ reader \in FreezeReader /\ z \in FreezeState

(* A process that was stopped stays: nobody resumes it, and it cannot exit. *)
Halted(p) == p \in DOMAIN tree /\ tree[p].state = "stop"

(* A row that shows a stopped process shows what it still is. *)
RowsInv ==
  \A p \in DOMAIN reader.rows : reader.rows[p].state = "stop" =>
    Halted(p) /\ tree[p].tok = reader.rows[p].tok

RootInv ==
  /\ F!Root \in DOMAIN tree
  /\ z.pc \in {"stop", "judge"} => Halted(F!Root)
  /\ z.pc \in {"first", "root"} => ~z.twice

(* Whoever was seen stopped when the verdict was "stopped" the first time. *)
Known == {F!Root} \cup {i.pid : i \in z.previous}
TwiceInv ==
  z.twice /\ z.pc \in {"stop", "judge"} => \A p \in Known : Halted(p)

(* The read after that verdict has, or will have, all their children: they *)
(* have had none since. *)
InRows(c) ==
  /\ c \in DOMAIN reader.rows
  /\ reader.rows[c].ppid = tree[c].ppid /\ reader.rows[c].tok = tree[c].tok
ChildrenInv ==
  z.twice /\ z.pc = "judge" =>
    \A c \in DOMAIN tree : tree[c].ppid \in Known => c \in reader.left \/ reader.dropped \/ InRows(c)

VerdictInv ==
  z.pc = "frozen" /\ z.result = "complete" => Halted(F!Root) /\ F!FrozenTreeIsWhole

Freezing == z.pc \notin {"term", "ended"}
FreezeInv ==
  FreezeTypes /\ (Freezing => RowsInv /\ RootInv /\ TwiceInv /\ ChildrenInv /\ VerdictInv)

LEMMA FreezeBegins == F!FreezeInit => FreezeInv
<1> SUFFICES ASSUME F!FreezeInit PROVE FreezeInv OBVIOUS
<1>0. F!Root \in Pids /\ F!Root \in Nat BY RootIsPid, MachineAssumption
<1>1. /\ tree = [p \in {F!Root} |-> [tok |-> 1, ppid |-> 1, pgid |-> F!Root, state |-> "run"]]
      /\ born = 1 /\ reader = [left |-> {}, rows |-> <<>>, dropped |-> FALSE]
      /\ z = [pc |-> "first", attempt |-> 0, limit |-> 4, observed |-> {},
              missed |-> {}, previous |-> {}, twice |-> FALSE, result |-> "none", tree |-> {}]
  BY DEF F!FreezeInit
<1>2. tree \in [{F!Root} -> FreezeRow] BY <1>0, <1>1 DEF FreezeRow
<1>3. <<>> \in [{} -> FreezeRow] /\ DOMAIN reader.rows = {} BY <1>1
<1>4. z \in FreezeState BY <1>1 DEF FreezeState
<1>5. reader \in FreezeReader BY <1>1, <1>3 DEF FreezeReader
<1>6. FreezeTypes BY <1>0, <1>1, <1>2, <1>4, <1>5 DEF FreezeTypes
<1>7. RowsInv BY <1>3 DEF RowsInv
<1>8. RootInv /\ TwiceInv /\ ChildrenInv /\ VerdictInv
  BY <1>1 DEF RootInv, TwiceInv, ChildrenInv, VerdictInv
<1> QED BY <1>6, <1>7, <1>8 DEF FreezeInv

LEMMA TreeFacts ==
  ASSUME FreezeTypes
  PROVE  /\ DOMAIN tree \subseteq Pids /\ DOMAIN reader.rows \subseteq Pids
         /\ tree \in [DOMAIN tree -> FreezeRow]
         /\ reader.rows \in [DOMAIN reader.rows -> FreezeRow]
         /\ reader.left \subseteq Pids /\ reader.dropped \in BOOLEAN
         /\ Known \subseteq Pids /\ 1 \notin Known /\ F!Root \in Known
<1>1. DOMAIN tree \subseteq Pids /\ tree \in [DOMAIN tree -> FreezeRow] BY DEF FreezeTypes
<1>2. reader.rows \in UNION {[D -> FreezeRow] : D \in SUBSET Pids} BY DEF FreezeTypes, FreezeReader
<1>3. DOMAIN reader.rows \subseteq Pids /\ reader.rows \in [DOMAIN reader.rows -> FreezeRow] BY <1>2
<1>4. reader.left \subseteq Pids /\ reader.dropped \in BOOLEAN BY DEF FreezeTypes, FreezeReader
<1>5. \A i \in z.previous : i.pid \in Pids BY DEF FreezeTypes, FreezeState, FreezeIds
<1>6. Known \subseteq Pids BY <1>5, RootIsPid DEF Known
<1> QED BY <1>1, <1>3, <1>4, <1>6, MachineAssumption DEF Known

(* What the machine does between the steps of the freeze: it leaves the *)
(* stopped processes alone, and they get no child. *)
LEMMA MachineKeeps ==
  ASSUME FreezeInv, FreezeTypes', UNCHANGED <<reader, z>>,
         \A p \in Pids : Halted(p) => Halted(p)' /\ tree'[p].tok = tree[p].tok,
         \A c \in DOMAIN tree' : Halted(tree'[c].ppid) =>
           c \in DOMAIN tree /\ tree'[c].ppid = tree[c].ppid /\ tree'[c].tok = tree[c].tok,
         F!Root \in DOMAIN tree'
  PROVE  FreezeInv'
<1>0. FreezeTypes /\ F!Root \in Pids BY RootIsPid DEF FreezeInv
<1>1. SUFFICES ASSUME Freezing
               PROVE  RowsInv' /\ RootInv' /\ TwiceInv' /\ ChildrenInv' /\ VerdictInv'
  BY DEF FreezeInv, Freezing
<1>2. RowsInv /\ RootInv /\ TwiceInv /\ ChildrenInv /\ VerdictInv BY <1>1 DEF FreezeInv
<1>3. RowsInv'
  <2> SUFFICES ASSUME NEW p \in DOMAIN reader.rows, reader.rows[p].state = "stop"
               PROVE  Halted(p)' /\ tree'[p].tok = reader.rows[p].tok BY DEF RowsInv
  <2>1. Halted(p) /\ tree[p].tok = reader.rows[p].tok BY <1>2 DEF RowsInv
  <2>2. p \in Pids BY <1>0, TreeFacts
  <2> QED BY <2>1, <2>2
<1>4. RootInv' BY <1>0, <1>2 DEF RootInv
<1>5. Known' = Known BY DEF Known
<1>6. TwiceInv' BY <1>0, <1>2, <1>5, TreeFacts DEF TwiceInv
<1>7. ChildrenInv'
  <2> SUFFICES ASSUME z.twice, z.pc = "judge", NEW c \in DOMAIN tree', tree'[c].ppid \in Known
               PROVE  c \in reader.left \/ reader.dropped \/ InRows(c)' BY <1>5 DEF ChildrenInv
  <2>1. Halted(tree'[c].ppid) BY <1>2 DEF TwiceInv
  <2>2. c \in DOMAIN tree /\ tree'[c].ppid = tree[c].ppid /\ tree'[c].tok = tree[c].tok BY <2>1
  <2>3. c \in reader.left \/ reader.dropped \/ InRows(c) BY <1>2, <2>2 DEF ChildrenInv
  <2> QED BY <2>2, <2>3 DEF InRows
<1>8. VerdictInv'
  <2> SUFFICES ASSUME z.pc = "frozen", z.result = "complete"
               PROVE  Halted(F!Root)' /\ F!FrozenTreeIsWhole' BY DEF VerdictInv
  <2>1. Halted(F!Root) /\ F!FrozenTreeIsWhole BY <1>2 DEF VerdictInv
  <2> DEFINE W == Walk(F!Root, tree)
  <2>2. \A p \in W : Halted(p) /\ F!Identity(tree, p) \in z.tree
    BY <2>1, SameWalk DEF F!FrozenTreeIsWhole, Halted, Walk
  <2>3. W \subseteq Pids BY <2>2, <1>0, TreeFacts DEF Halted
  <2>4. W \in SUBSET DOMAIN tree' BY <2>2, <2>3 DEF Halted
  <2>5. ASSUME NEW c \in DOMAIN tree', c # F!Root, tree'[c].ppid \in W \cup {F!Root}
        PROVE  c \in W
    <3>1. Halted(tree'[c].ppid) BY <2>1, <2>2, <2>5
    <3>2. c \in DOMAIN tree /\ tree'[c].ppid = tree[c].ppid BY <3>1
    <3> QED BY <3>2, <2>5, WalkClosed
  <2>6. Walk(F!Root, tree') \subseteq W
    <3> HIDE DEF W
    <3> QED BY <2>4, <2>5, WalkLeast
  <2>7. \A p \in W : Halted(p)' /\ F!Identity(tree', p) \in z.tree BY <2>2, <2>3 DEF F!Identity
  <2> QED BY <1>0, <2>1, <2>6, <2>7, SameWalk DEF F!FrozenTreeIsWhole, Halted
<1> QED BY <1>3, <1>4, <1>6, <1>7, <1>8

LEMMA ForkKeeps ==
  ASSUME FreezeInv, NEW p \in Pids, NEW q \in Pids, F!Fork(p, q)
  PROVE  FreezeInv'
<1>0. FreezeTypes BY DEF FreezeInv
<1>1. /\ p \in DOMAIN tree /\ tree[p].state = "run" /\ q \notin DOMAIN tree
      /\ tree' = [x \in DOMAIN tree \cup {q} |->
                   IF x = q THEN [tok |-> born + 1, ppid |-> p, pgid |-> tree[p].pgid, state |-> "run"]
                   ELSE tree[x]]
      /\ born' = born + 1 /\ UNCHANGED <<reader, z>> BY DEF F!Fork
<1>2. tree' \in [DOMAIN tree \cup {q} -> FreezeRow]
  BY <1>0, <1>1, TreeFacts, MachineAssumption DEF FreezeRow, FreezeTypes
<1>d. DOMAIN tree \cup {q} \in SUBSET Pids BY <1>0, TreeFacts
<1>e. tree' \in UNION {[D -> FreezeRow] : D \in SUBSET Pids} BY <1>2, <1>d
<1>3. FreezeTypes' BY <1>0, <1>1, <1>e DEF FreezeTypes
<1>4. \A x \in Pids : Halted(x) => Halted(x)' /\ tree'[x].tok = tree[x].tok BY <1>1 DEF Halted
<1>5. \A c \in DOMAIN tree' : Halted(tree'[c].ppid) =>
        c \in DOMAIN tree /\ tree'[c].ppid = tree[c].ppid /\ tree'[c].tok = tree[c].tok
  BY <1>1 DEF Halted
<1>6. CASE Freezing BY <1>1, <1>3, <1>4, <1>5, <1>6, MachineKeeps DEF FreezeInv, RootInv
<1>7. CASE ~Freezing BY <1>1, <1>3, <1>7 DEF FreezeInv, Freezing
<1> QED BY <1>6, <1>7

LEMMA ExitKeeps ==
  ASSUME FreezeInv, NEW p \in Pids, F!Exits(p)
  PROVE  FreezeInv'
<1>0. FreezeTypes BY DEF FreezeInv
<1>1. /\ p \in DOMAIN tree /\ tree[p].state = "run" /\ p # F!Root
      /\ tree' = [x \in DOMAIN tree \ {p} |->
                   IF tree[x].ppid = p THEN [tree[x] EXCEPT !.ppid = 1] ELSE tree[x]]
      /\ UNCHANGED <<born, reader, z>> BY DEF F!Exits, F!Without
<1>a. \A x \in DOMAIN tree : tree[x] \in FreezeRow BY <1>0, TreeFacts
<1>b. \A x \in DOMAIN tree' : /\ tree'[x] \in FreezeRow /\ tree'[x].state = tree[x].state
                              /\ tree'[x].tok = tree[x].tok /\ tree'[x].ppid \in {1, tree[x].ppid}
  BY <1>a, <1>1 DEF FreezeRow
<1>2. tree' \in [DOMAIN tree \ {p} -> FreezeRow] BY <1>1, <1>b
<1>3. FreezeTypes' BY <1>0, <1>1, <1>2, TreeFacts DEF FreezeTypes
<1>4. \A x \in Pids : Halted(x) => Halted(x)' /\ tree'[x].tok = tree[x].tok BY <1>1, <1>b DEF Halted
<1>5. ~Halted(1) BY <1>0, TreeFacts, MachineAssumption DEF Halted
<1>6. \A c \in DOMAIN tree' : Halted(tree'[c].ppid) =>
        c \in DOMAIN tree /\ tree'[c].ppid = tree[c].ppid /\ tree'[c].tok = tree[c].tok
  BY <1>1, <1>b, <1>5
<1>7. CASE Freezing BY <1>1, <1>3, <1>4, <1>6, <1>7, MachineKeeps DEF FreezeInv, RootInv
<1>8. CASE ~Freezing BY <1>1, <1>3, <1>8 DEF FreezeInv, Freezing
<1> QED BY <1>7, <1>8

(* A read of the next row. *)
LEMMA ReadKeeps ==
  ASSUME FreezeInv, F!ReadRow
  PROVE  FreezeInv'
<1>0. FreezeTypes BY DEF FreezeInv
<1>a. PICK p : \E denied \in BOOLEAN :
        /\ p \notin DOMAIN tree => denied
        /\ reader' = [reader EXCEPT
             !.left = (@ \cup {q \in DOMAIN tree : q > p}) \ {p},
             !.rows = IF denied THEN @ ELSE [x \in DOMAIN @ \cup {p} |-> IF x = p THEN tree[p] ELSE @[x]],
             !.dropped = @ \/ (denied /\ ~(p \notin DOMAIN tree))]
  <2> DEFINE p0 == CHOOSE x \in reader.left : \A y \in reader.left : x <= y
  <2>1. PICK d0 \in {p0 \notin DOMAIN tree, TRUE} :
          reader' = [reader EXCEPT
             !.left = (@ \cup {q \in DOMAIN tree : q > p0}) \ {p0},
             !.rows = IF d0 THEN @ ELSE [x \in DOMAIN @ \cup {p0} |-> IF x = p0 THEN tree[p0] ELSE @[x]],
             !.dropped = @ \/ (d0 /\ ~(p0 \notin DOMAIN tree))] BY DEF F!ReadRow
  <2> HIDE DEF p0
  <2>2. d0 \in BOOLEAN /\ (p0 \notin DOMAIN tree => d0) BY <2>1, Zenon
  <2> QED BY <2>1, <2>2, Zenon
<1>1. PICK denied \in BOOLEAN :
        /\ p \notin DOMAIN tree => denied
        /\ reader' = [reader EXCEPT
             !.left = (@ \cup {q \in DOMAIN tree : q > p}) \ {p},
             !.rows = IF denied THEN @ ELSE [x \in DOMAIN @ \cup {p} |-> IF x = p THEN tree[p] ELSE @[x]],
             !.dropped = @ \/ (denied /\ ~(p \notin DOMAIN tree))] BY <1>a, Zenon
<1>2. UNCHANGED <<tree, born, z>> BY DEF F!ReadRow
<1>3. /\ reader'.left = (reader.left \cup {q \in DOMAIN tree : q > p}) \ {p}
      /\ reader'.rows = IF denied THEN reader.rows
                        ELSE [x \in DOMAIN reader.rows \cup {p} |-> IF x = p THEN tree[p] ELSE reader.rows[x]]
      /\ reader'.dropped = (reader.dropped \/ (denied /\ ~(p \notin DOMAIN tree)))
      /\ reader' = [left |-> reader'.left, rows |-> reader'.rows, dropped |-> reader'.dropped]
  BY <1>0, <1>1, Zenon DEF FreezeTypes, FreezeReader
<1>4. DOMAIN tree \subseteq Pids /\ tree \in [DOMAIN tree -> FreezeRow] BY <1>0, TreeFacts
<1>5. reader'.rows \in UNION {[D -> FreezeRow] : D \in SUBSET Pids}
  <2>1. CASE denied BY <1>0, <1>3, <2>1 DEF FreezeTypes, FreezeReader
  <2>2. CASE ~denied
    <3>1. p \in DOMAIN tree BY <1>1, <2>2
    <3>2. DOMAIN reader.rows \cup {p} \in SUBSET Pids BY <1>0, <3>1, TreeFacts
    <3>3. reader'.rows \in [DOMAIN reader.rows \cup {p} -> FreezeRow]
      BY <1>0, <1>3, <2>2, <3>1, TreeFacts
    <3> QED BY <3>2, <3>3
  <2> QED BY <2>1, <2>2
<1>6. reader'.left \subseteq Pids BY <1>0, <1>3, TreeFacts
<1>7. reader'.dropped \in BOOLEAN BY <1>3
<1>8. FreezeTypes'
  <2>1. reader' \in FreezeReader BY <1>3, <1>5, <1>6, <1>7 DEF FreezeReader
  <2> QED BY <1>0, <1>2, <2>1 DEF FreezeTypes
<1>9. SUFFICES ASSUME Freezing
               PROVE  RowsInv' /\ RootInv' /\ TwiceInv' /\ ChildrenInv' /\ VerdictInv'
  BY <1>2, <1>8 DEF FreezeInv, Freezing
<1>10. RowsInv /\ RootInv /\ TwiceInv /\ ChildrenInv /\ VerdictInv BY <1>9 DEF FreezeInv
<1>11. Known' = Known /\ \A x : Halted(x)' <=> Halted(x) BY <1>2 DEF Known, Halted
<1>12. RowsInv'
  <2>1. CASE denied BY <1>2, <1>3, <1>10, <1>11, <2>1 DEF RowsInv
  <2>2. CASE ~denied
    <3>1. p \in DOMAIN tree BY <1>1, <2>2
    <3> QED BY <1>2, <1>3, <1>10, <1>11, <2>2, <3>1 DEF RowsInv, Halted
  <2> QED BY <2>1, <2>2
<1>13. RootInv' /\ TwiceInv' BY <1>2, <1>10, <1>11 DEF RootInv, TwiceInv
<1>14. ChildrenInv'
  <2> SUFFICES ASSUME z.twice, z.pc = "judge", NEW c \in DOMAIN tree, tree[c].ppid \in Known
               PROVE  c \in reader'.left \/ reader'.dropped \/ InRows(c)' BY <1>2, <1>11 DEF ChildrenInv
  <2>1. c \in reader.left \/ reader.dropped \/ InRows(c) BY <1>10 DEF ChildrenInv
  <2>2. CASE c = p
    <3>1. CASE denied BY <1>3, <2>2, <3>1
    <3>2. CASE ~denied BY <1>2, <1>3, <2>2, <3>2 DEF InRows
    <3> QED BY <3>1, <3>2
  <2>3. CASE c # p
    <3>1. CASE reader.dropped BY <1>3, <3>1
    <3>2. CASE c \in reader.left BY <1>3, <2>3, <3>2
    <3>3. CASE InRows(c) BY <1>2, <1>3, <2>3, <3>3 DEF InRows
    <3> QED BY <2>1, <3>1, <3>2, <3>3
  <2> QED BY <2>2, <2>3
<1>15. VerdictInv' BY <1>2, <1>10, <1>11 DEF VerdictInv, F!FrozenTreeIsWhole
<1> QED BY <1>12, <1>13, <1>14, <1>15

(* The steps of the freeze. *)
LEMMA ObservedFacts ==
  ASSUME FreezeTypes
  PROVE  F!ObservedIdentities(F!Root, reader.rows) \subseteq FreezeIds
<1>1. DOMAIN reader.rows \subseteq Pids /\ reader.rows \in [DOMAIN reader.rows -> FreezeRow] BY TreeFacts
<1>2. F!Walk(F!Root, reader.rows) \subseteq DOMAIN reader.rows BY DEF F!Walk
<1> QED BY <1>1, <1>2 DEF F!ObservedIdentities, F!Identity, FreezeIds, FreezeRow

LEMMA StartFacts ==
  ASSUME FreezeTypes, F!StartRead
  PROVE  /\ reader' \in FreezeReader /\ RowsInv'
         /\ reader'.left = DOMAIN tree
<1>1. reader' = [left |-> DOMAIN tree, rows |-> <<>>, dropped |-> FALSE] BY DEF F!StartRead
<1>2. <<>> \in [{} -> FreezeRow] /\ DOMAIN reader'.rows = {} BY <1>1
<1>3. reader' \in FreezeReader BY <1>1, <1>2, TreeFacts DEF FreezeReader
<1> QED BY <1>1, <1>2, <1>3 DEF RowsInv

LEMMA FirstKeeps ==
  ASSUME FreezeInv, F!FreezeFirst
  PROVE  FreezeInv'
<1>0. FreezeTypes /\ F!StartRead /\ UNCHANGED <<tree, born>> /\ z.pc = "first"
  BY DEF FreezeInv, F!FreezeFirst
<1>1. z' = [z EXCEPT !.pc = "root"] BY DEF F!FreezeFirst
<1>2. z' \in FreezeState /\ z'.pc = "root" /\ z'.twice = z.twice BY <1>0, <1>1 DEF FreezeTypes, FreezeState
<1>3. RootInv BY <1>0 DEF FreezeInv, Freezing
<1>4. FreezeTypes' BY <1>0, <1>2, StartFacts DEF FreezeTypes
<1>5. RootInv' BY <1>0, <1>2, <1>3 DEF RootInv
<1>6. TwiceInv' /\ ChildrenInv' /\ VerdictInv' BY <1>2 DEF TwiceInv, ChildrenInv, VerdictInv
<1> QED BY <1>0, <1>4, <1>5, <1>6, StartFacts DEF FreezeInv

LEMMA RootKeeps ==
  ASSUME FreezeInv, F!FreezeRoot
  PROVE  FreezeInv'
<1> DEFINE sn == [z EXCEPT !.observed = F!ObservedIdentities(F!Root, reader.rows),
                           !.limit = IF F!CompleteSnapshot(F!Root, F!Table) THEN @ ELSE 1]
<1>0. FreezeTypes /\ UNCHANGED <<born, reader>> /\ z.pc = "root" BY DEF FreezeInv, F!FreezeRoot
<1>1. RowsInv /\ RootInv BY <1>0 DEF FreezeInv, Freezing
<1>2. \/ tree' = [tree EXCEPT ![F!Root].state = "stop"] /\ z' = [sn EXCEPT !.pc = "stop"]
      \/ UNCHANGED tree /\ z' = [sn EXCEPT !.pc = "frozen", !.result = "unavailable"]
  BY DEF F!FreezeRoot, F!Table
<1>3. sn \in FreezeState /\ sn.twice = z.twice /\ ~z.twice
  <2> DEFINE lm == IF F!CompleteSnapshot(F!Root, F!Table) THEN z.limit ELSE 1
             ob == F!ObservedIdentities(F!Root, reader.rows)
  <2>1. z \in FreezeState /\ z.limit \in Int BY <1>0 DEF FreezeTypes, FreezeState
  <2>2. lm \in Int /\ ob \in SUBSET FreezeIds BY <1>0, <2>1, ObservedFacts
  <2>3. sn = [z EXCEPT !.observed = ob, !.limit = lm] OBVIOUS
  <2> HIDE DEF lm, ob, sn
  <2> QED BY <1>0, <1>1, <2>1, <2>2, <2>3 DEF FreezeState, RootInv
<1> HIDE DEF sn
<1>4. CASE tree' = [tree EXCEPT ![F!Root].state = "stop"] /\ z' = [sn EXCEPT !.pc = "stop"]
  <2>1. z' \in FreezeState /\ z'.pc = "stop" /\ ~z'.twice BY <1>3, <1>4 DEF FreezeState
  <2>2. /\ DOMAIN tree' = DOMAIN tree /\ F!Root \in DOMAIN tree
        /\ \A p \in DOMAIN tree : /\ tree'[p] \in FreezeRow /\ tree'[p].tok = tree[p].tok
                                  /\ tree[p].state = "stop" => tree'[p].state = "stop"
        /\ Halted(F!Root)' BY <1>0, <1>1, <1>4, TreeFacts DEF RootInv, FreezeRow, Halted
  <2>3. FreezeTypes'
    <3>1. tree' \in [DOMAIN tree -> FreezeRow] BY <1>4, <2>2
    <3>2. DOMAIN tree \in SUBSET Pids BY <1>0, TreeFacts
    <3> QED BY <1>0, <2>1, <3>1, <3>2 DEF FreezeTypes
  <2>4. RowsInv' BY <1>0, <1>1, <2>2 DEF RowsInv, Halted
  <2>5. RootInv' /\ TwiceInv' /\ ChildrenInv' /\ VerdictInv'
    BY <2>1, <2>2 DEF RootInv, TwiceInv, ChildrenInv, VerdictInv
  <2> QED BY <2>3, <2>4, <2>5 DEF FreezeInv
<1>5. CASE UNCHANGED tree /\ z' = [sn EXCEPT !.pc = "frozen", !.result = "unavailable"]
  <2>1. z' \in FreezeState /\ z'.pc = "frozen" /\ z'.result = "unavailable" /\ ~z'.twice
    BY <1>3, <1>5 DEF FreezeState
  <2>2. FreezeTypes' BY <1>0, <1>5, <2>1 DEF FreezeTypes
  <2>3. RowsInv' BY <1>0, <1>1, <1>5 DEF RowsInv, Halted
  <2>4. RootInv' /\ TwiceInv' /\ ChildrenInv' /\ VerdictInv'
    BY <1>1, <1>5, <2>1 DEF RootInv, TwiceInv, ChildrenInv, VerdictInv
  <2> QED BY <2>2, <2>3, <2>4 DEF FreezeInv
<1> QED BY <1>2, <1>4, <1>5

LEMMA StopKeeps ==
  ASSUME FreezeInv, F!FreezeStop
  PROVE  FreezeInv'
<1>0. FreezeTypes /\ UNCHANGED born /\ F!StartRead /\ z.pc = "stop" BY DEF FreezeInv, F!FreezeStop
<1>1. RootInv /\ TwiceInv BY <1>0 DEF FreezeInv, Freezing
<1>2. PICK ms \in {{}} \cup {{i} : i \in F!StillLive(z.observed, tree)} :
        /\ tree' = F!Stopped(tree, z.observed \ ms)
        /\ z' = [z EXCEPT !.pc = "judge", !.attempt = @ + 1, !.missed = ms] BY DEF F!FreezeStop
<1>3. ms \subseteq FreezeIds
  <2>1. F!StillLive(z.observed, tree) \subseteq FreezeIds BY <1>0 DEF FreezeTypes, FreezeState, F!StillLive
  <2> QED BY <1>2, <2>1
<1>4. z' \in FreezeState /\ z'.pc = "judge" /\ z'.twice = z.twice /\ z'.previous = z.previous
  <2>1. z \in FreezeState /\ z.attempt + 1 \in Int BY <1>0 DEF FreezeTypes, FreezeState
  <2>2. ms \in SUBSET FreezeIds BY <1>3
  <2>3. z' = [z EXCEPT !.pc = "judge", !.attempt = z.attempt + 1, !.missed = ms] BY <1>2
  <2> QED BY <2>1, <2>2, <2>3 DEF FreezeState
<1>5. /\ DOMAIN tree' = DOMAIN tree /\ tree' \in [DOMAIN tree -> FreezeRow]
      /\ \A p : Halted(p) => Halted(p)'
  <2>0. \A p \in DOMAIN tree : tree[p] \in FreezeRow BY <1>0, TreeFacts
  <2> DEFINE hs == {i.pid : i \in F!StillLive(z.observed \ ms, tree)}
  <2>1. tree' = [p \in DOMAIN tree |-> IF p \in hs THEN [tree[p] EXCEPT !.state = "stop"] ELSE tree[p]]
    BY <1>2 DEF F!Stopped
  <2> HIDE DEF hs
  <2> QED BY <2>0, <2>1 DEF FreezeRow, Halted
<1>6. FreezeTypes'
  <2>1. DOMAIN tree \in SUBSET Pids BY <1>0, TreeFacts
  <2> QED BY <1>0, <1>4, <1>5, <2>1, StartFacts DEF FreezeTypes
<1>7. RootInv' BY <1>0, <1>1, <1>4, <1>5 DEF RootInv
<1>8. TwiceInv'
  <2>1. Known' = Known BY <1>4 DEF Known
  <2> QED BY <1>0, <1>1, <1>4, <1>5, <2>1 DEF TwiceInv
<1>9. ChildrenInv' BY <1>0, <1>5, StartFacts DEF ChildrenInv
<1>10. VerdictInv' BY <1>4 DEF VerdictInv
<1> QED BY <1>0, <1>6, <1>7, <1>8, <1>9, <1>10, StartFacts DEF FreezeInv

(* What a verdict is taken from. *)
LEMMA VerdictFacts ==
  ASSUME FreezeTypes, NEW ob \in SUBSET FreezeIds
  PROVE  /\ F!StillLive(ob, reader.rows) \subseteq ob
         /\ \A i \in F!StillLive(ob, reader.rows) :
              i.pid \in DOMAIN reader.rows /\ reader.rows[i.pid].tok = i.tok
         /\ \A i \in ob : i.pid \in DOMAIN reader.rows /\ reader.rows[i.pid].tok = i.tok =>
              i \in F!StillLive(ob, reader.rows)
         /\ \A X : F!AllStopped(F!Root, X, reader.rows) =>
              \A i \in X : i.pid \in DOMAIN reader.rows /\ reader.rows[i.pid].state = "stop"
<1>1. \A p \in DOMAIN reader.rows : reader.rows[p].state # "zombie" BY TreeFacts DEF FreezeRow
<1> QED BY <1>1 DEF F!StillLive, F!Process, F!AllStopped

LEMMA JudgeKeeps ==
  ASSUME FreezeInv, F!FreezeJudge
  PROVE  FreezeInv'
<1> DEFINE ob == z.observed \cup F!ObservedIdentities(F!Root, reader.rows)
           lv == F!StillLive(ob, reader.rows)
           st == F!AllStopped(F!Root, lv, reader.rows)
           mr == [z EXCEPT !.observed = ob, !.twice = st, !.previous = lv]
<1>0. /\ FreezeTypes /\ UNCHANGED <<tree, born, reader>> /\ z.pc = "judge"
      /\ reader.left = {} /\ z' = F!Judge(z, F!Table) BY DEF FreezeInv, F!FreezeJudge, F!Reading
<1>1. RowsInv /\ RootInv /\ TwiceInv /\ ChildrenInv BY <1>0 DEF FreezeInv, Freezing
<1>2. \/ z' = [mr EXCEPT !.pc = "frozen", !.result = "unavailable"]
      \/ z' = [mr EXCEPT !.pc = "stop"]
      \/ /\ ~reader.dropped /\ st /\ z.twice /\ z.previous = lv
         /\ z' = [mr EXCEPT !.pc = "frozen", !.result = "complete", !.tree = lv]
  BY <1>0 DEF F!Judge, F!Unavailable, F!CompleteSnapshot, F!Table
<1>3. ob \in SUBSET FreezeIds /\ F!ObservedIdentities(F!Root, reader.rows) \subseteq ob
  BY <1>0, ObservedFacts DEF FreezeTypes, FreezeState
<1>4. lv \in SUBSET FreezeIds BY <1>0, <1>3, VerdictFacts
<1>5. st \in BOOLEAN BY DEF F!AllStopped
<1>6. z \in FreezeState BY <1>0 DEF FreezeTypes
<1>7. st => \A i \in lv : Halted(i.pid) /\ tree[i.pid].tok = i.tok
  BY <1>0, <1>1, <1>3, VerdictFacts DEF RowsInv
<1> HIDE DEF ob, st
<1>8. mr \in FreezeState /\ mr.twice = st /\ mr.previous = lv
  <2> HIDE DEF lv
  <2> QED BY <1>3, <1>4, <1>5, <1>6 DEF FreezeState
<1> HIDE DEF mr
<1>9. CASE z' = [mr EXCEPT !.pc = "frozen", !.result = "unavailable"]
  <2>1. z' \in FreezeState /\ z'.pc = "frozen" /\ z'.result = "unavailable" BY <1>8, <1>9 DEF FreezeState
  <2>2. FreezeTypes' BY <1>0, <2>1 DEF FreezeTypes
  <2>3. RowsInv' BY <1>0, <1>1 DEF RowsInv, Halted
  <2>4. RootInv' /\ TwiceInv' /\ ChildrenInv' /\ VerdictInv'
    BY <1>0, <1>1, <2>1 DEF RootInv, TwiceInv, ChildrenInv, VerdictInv
  <2> QED BY <2>2, <2>3, <2>4 DEF FreezeInv
<1>10. CASE z' = [mr EXCEPT !.pc = "stop"]
  <2>1. z' \in FreezeState /\ z'.pc = "stop" /\ z'.twice = st /\ z'.previous = lv
    BY <1>8, <1>10 DEF FreezeState
  <2>2. FreezeTypes' BY <1>0, <2>1 DEF FreezeTypes
  <2>3. RowsInv' BY <1>0, <1>1 DEF RowsInv, Halted
  <2>4. \A p : Halted(p)' <=> Halted(p) BY <1>0 DEF Halted
  <2>5. RootInv' BY <1>0, <1>1, <2>1, <2>4 DEF RootInv
  <2>6. TwiceInv'
    <3>1. Known' = {F!Root} \cup {i.pid : i \in lv} BY <2>1 DEF Known
    <3>2. Halted(F!Root) BY <1>0, <1>1 DEF RootInv
    <3> HIDE DEF lv
    <3> QED BY <1>7, <2>1, <2>4, <3>1, <3>2 DEF TwiceInv
  <2>7. ChildrenInv' /\ VerdictInv' BY <2>1 DEF ChildrenInv, VerdictInv
  <2> QED BY <2>2, <2>3, <2>5, <2>6, <2>7 DEF FreezeInv
<1>11. CASE /\ ~reader.dropped /\ st /\ z.twice /\ z.previous = lv
            /\ z' = [mr EXCEPT !.pc = "frozen", !.result = "complete", !.tree = lv]
  <2>1. z' \in FreezeState /\ z'.pc = "frozen" /\ z'.tree = lv
    <3> HIDE DEF lv
    <3> QED BY <1>4, <1>8, <1>11 DEF FreezeState
  <2>2. FreezeTypes' BY <1>0, <2>1 DEF FreezeTypes
  <2>3. RowsInv' BY <1>0, <1>1 DEF RowsInv, Halted
  <2>4. RootInv' /\ TwiceInv' /\ ChildrenInv' BY <1>0, <1>1, <2>1 DEF RootInv, TwiceInv, ChildrenInv
  <2>5. Halted(F!Root) BY <1>0, <1>1 DEF RootInv
  <2> DEFINE W == {p \in Walk(F!Root, reader.rows) : \E i \in lv : i.pid = p}
  <2>6. \A p \in W : Halted(p) /\ F!Identity(tree, p) \in lv
    <3> SUFFICES ASSUME NEW p \in W PROVE Halted(p) /\ F!Identity(tree, p) \in lv OBVIOUS
    <3>1. PICK i \in lv : i.pid = p OBVIOUS
    <3>2. Halted(p) /\ tree[p].tok = i.tok BY <1>7, <1>11, <3>1
    <3>3. i = [pid |-> i.pid, tok |-> i.tok] BY <1>4, <3>1 DEF FreezeIds
    <3> QED BY <3>1, <3>2, <3>3 DEF F!Identity
  <2>7. W \in SUBSET DOMAIN tree BY <2>6 DEF Halted
  <2>8. ASSUME NEW c \in DOMAIN tree, c # F!Root, tree[c].ppid \in W \cup {F!Root}
        PROVE  c \in W
    <3>1. tree[c].ppid \in Known BY <1>11, <2>8 DEF Known
    <3>2. InRows(c) BY <1>0, <1>1, <1>11, <3>1 DEF ChildrenInv
    <3>3. c \in Walk(F!Root, reader.rows) BY <2>8, <3>2, WalkClosed DEF InRows
    <3>4. reader.rows[c].state # "zombie" BY <1>0, <3>2, TreeFacts DEF FreezeRow, InRows
    <3>5. F!Identity(reader.rows, c) \in ob BY <1>3, <3>3, <3>4, SameWalk DEF F!ObservedIdentities
    <3>6. F!Identity(reader.rows, c).pid = c /\ F!Identity(reader.rows, c).tok = reader.rows[c].tok
      BY DEF F!Identity
    <3>7. F!Identity(reader.rows, c) \in lv BY <1>0, <1>3, <3>2, <3>5, <3>6, VerdictFacts DEF InRows
    <3> QED BY <3>3, <3>6, <3>7
  <2>9. Walk(F!Root, tree) \subseteq W
    <3> HIDE DEF W
    <3> QED BY <2>7, <2>8, WalkLeast
  <2>10. F!FrozenTreeIsWhole'
    <3> HIDE DEF W, lv
    <3> QED BY <1>0, <2>1, <2>6, <2>9, SameWalk DEF F!FrozenTreeIsWhole, Halted
  <2>11. VerdictInv' BY <1>0, <2>5, <2>10 DEF VerdictInv, Halted
  <2> QED BY <2>2, <2>3, <2>4, <2>11 DEF FreezeInv
<1> QED BY <1>2, <1>9, <1>10, <1>11

LEMMA TerminateKeeps ==
  ASSUME FreezeInv, F!Terminate
  PROVE  FreezeInv'
<1>0. FreezeTypes /\ UNCHANGED <<born, reader>> BY DEF FreezeInv, F!Terminate
<1>1. \E dead : tree' = [p \in DOMAIN tree \ dead |->
                   IF tree[p].ppid \in dead THEN [tree[p] EXCEPT !.ppid = 1] ELSE tree[p]]
  BY DEF F!Terminate
<1>2. PICK dead : tree' = [p \in DOMAIN tree \ dead |->
                   IF tree[p].ppid \in dead THEN [tree[p] EXCEPT !.ppid = 1] ELSE tree[p]] BY <1>1
<1>3. \A p \in DOMAIN tree : tree[p] \in FreezeRow BY <1>0, TreeFacts
<1>4. tree' \in [DOMAIN tree \ dead -> FreezeRow] BY <1>2, <1>3 DEF FreezeRow
<1>5. DOMAIN tree \ dead \in SUBSET Pids BY <1>0, TreeFacts
<1>6. z' \in FreezeState /\ z'.pc \in {"term", "ended"} BY <1>0 DEF F!Terminate, FreezeTypes, FreezeState
<1>7. FreezeTypes' BY <1>0, <1>4, <1>5, <1>6 DEF FreezeTypes
<1> QED BY <1>6, <1>7 DEF FreezeInv, Freezing

LEMMA FreezeSteps ==
  ASSUME FreezeInv, F!FreezeNext
  PROVE  FreezeInv'
BY ForkKeeps, ExitKeeps, ReadKeeps, FirstKeeps, RootKeeps, StopKeeps, JudgeKeeps,
   TerminateKeeps DEF F!FreezeNext

LEMMA FreezeStands == UNCHANGED freezeVars /\ FreezeInv => FreezeInv'
BY DEF freezeVars, FreezeInv, FreezeTypes, RowsInv, RootInv, TwiceInv, ChildrenInv, VerdictInv,
       Freezing, Halted, Known, InRows, F!FrozenTreeIsWhole

LEMMA FreezeWhole == FreezeInv => F!FrozenTreeIsWhole
<1> SUFFICES ASSUME FreezeInv, z.pc = "frozen", z.result = "complete" PROVE F!FrozenTreeIsWhole
  BY DEF F!FrozenTreeIsWhole
<1> QED BY DEF FreezeInv, Freezing, VerdictInv

----------------------------------------------------------------------------
(* The commands that end, signal and remove: the inductive invariant. *)

RealPids == Nat \ {0, 1}
ProcRow == [tok : Nat, ppid : Nat, pgid : Nat, state : {"run"}, ses : Nat]
RecType ==
  [gen : Nat, pid : Nat, tok : Nat, boot : {"here", "none"}, exited : BOOLEAN, perm : BOOLEAN,
   keep : BOOLEAN, stamp : BOOLEAN, old : BOOLEAN, spent : BOOLEAN, aged : BOOLEAN, fails : Nat,
   flapping : BOOLEAN, orphan : BOOLEAN, idle : BOOLEAN]
RowType == [rec : RecType, sidecar : Nat, socket : BOOLEAN]
Ids == [pid : Nat, tok : Nat]
Places == {"idle", "open", "check", "tag", "snapshot", "signal", "wait", "cleanup", "aftermath",
           "term", "kill", "remeasure", "report", "status", "send", "remove", "first", "second",
           "clean", "decide", "spawn", "act", "done"}
CmdType ==
  [op : Ops, pc : Places, obs : RecType, pid : Nat, pin : Nat, auth : {"none", "match", "legacy"},
   before : SUBSET Ids, groups : SUBSET Nat, tree : SUBSET Ids, pins : SUBSET Ids,
   left : SUBSET Ids, unseen : SUBSET Ids, cleaned : BOOLEAN,
   result : {"none", "refused", "signal_failed", "still_running", "verified", "left",
             "not_running", "signalled", "unverified", "did_not_exit", "removed", "replaced",
             "missing", "running", "invalid", "exited", "vanished", "retired", "skipped",
             "reaped", "swept", "stale", "flapping_skipped", "flapped", "failed", "respawned",
             "acted"},
   hit : SUBSET [tok : Nat, ses : Nat]]

(* A process has init or a process of its own session for a parent. *)
ProcsGood(tb, n) ==
  /\ DOMAIN tb \subseteq RealPids /\ tb \in [DOMAIN tb -> ProcRow]
  /\ \A p \in DOMAIN tb :
       /\ tb[p].tok <= n
       /\ tb[p].ppid = 1 \/ (tb[p].ppid \in DOMAIN tb /\ tb[tb[p].ppid].ses = tb[p].ses)
ProcsOK == fork \in Nat /\ ProcsGood(procs, fork)

(* A record names one process for good, of its own generation. *)
Recorded(r) ==
  /\ r.gen = 0 => r.pid = 0 /\ r.tok = 0
  /\ r.gen # 0 => /\ r.tok = r.gen /\ r.gen <= fork /\ r.pid \in RealPids
                  /\ \A p \in DOMAIN procs : p = r.pid /\ procs[p].tok = r.tok => procs[p].ses = r.gen
RowOK ==
  /\ row \in RowType /\ Recorded(row.rec)
  /\ row.sidecar \in {0, row.rec.pid}
  /\ row.rec.gen = 0 => row = NoRow

(* The record a command observed is the row's if it is of its generation. *)
ObsOK ==
  /\ Recorded(cmd.obs)
  /\ cmd.obs.gen # 0 /\ cmd.obs.gen = row.rec.gen => cmd.obs.pid = row.rec.pid

(* What a stop remembers of the tree, and has pinned, was of the session. *)
TreeOK ==
  /\ cmd.pins # {} => cmd.pins \subseteq cmd.before /\ cmd.pc \in {"term", "kill"}
  /\ \A i \in cmd.before :
       /\ i.tok <= fork
       /\ \A p \in DOMAIN procs : p = i.pid /\ procs[p].tok = i.tok => procs[p].ses = cmd.obs.gen

Early == {"idle", "first", "decide"}
HitOK ==
  /\ cmd.op # "signal" => \A h \in cmd.hit : h.ses = cmd.obs.gen
  /\ cmd.pc \in Early => cmd.hit = {} /\ cmd.before = {}
  /\ cmd.pc # "done" => cmd.result = "none"

(* An rm that is about to remove has seen the daemon it observed lost. *)
RmOK ==
  cmd.op = "rm" =>
    /\ cmd.pc \in {"wait", "remove"} => cmd.obs.gen # 0 /\ cmd.pid = cmd.obs.pid
    /\ cmd.pc = "remove" => DaemonOf(cmd.obs) = {}

(* While a permanent session is started again its name is empty. *)
SpawnOK == cmd.pc = "spawn" => row = NoRow /\ cmd.obs.gen # 0

(* What is not left is gone, or was missing from the table. *)
VerifiedOK ==
  cmd.op = "stop" /\ ((cmd.pc = "report" /\ cmd.left = {}) \/ cmd.result = "verified")
    => StillLive(cmd.before, procs) \subseteq cmd.unseen

(* What gc saw when it looked at what it sweeps or gives up. *)
Wanted(r) ==
  /\ cmd.op = "sweep" => ~r.perm /\ ~KeepHolds(r)
  /\ cmd.op = "abandon" => r.perm /\ r.idle
LookOK == cmd.pc # "idle" => Wanted(cmd.obs)
Looked == cmd.op \in {"sweep", "abandon"} => cmd.pc # "idle"

CmdOK == cmd \in CmdType /\ ObsOK /\ TreeOK /\ HitOK /\ RmOK /\ SpawnOK /\ VerifiedOK /\ LookOK
ControlInv == ProcsOK /\ RowOK /\ CmdOK

----------------------------------------------------------------------------
(* The machine. *)

(* A process of the second table was in the first, or is newer than n. *)
Newer(tb, tb2, n) ==
  \A p \in DOMAIN tb2 :
    (p \in DOMAIN tb /\ tb2[p].tok = tb[p].tok /\ tb2[p].ses = tb[p].ses) \/ tb2[p].tok > n

LEMMA ReapFacts ==
  ASSUME NEW tb, NEW n \in Nat, ProcsGood(tb, n), NEW gone
  PROVE  ProcsGood(Reap(tb, gone), n) /\ Newer(tb, Reap(tb, gone), n)
<1> DEFINE t2 == Reap(tb, gone)
<1>1. t2 = [x \in DOMAIN tb \ gone |-> IF tb[x].ppid \in gone THEN [tb[x] EXCEPT !.ppid = 1] ELSE tb[x]]
  BY DEF Reap
<1>2. \A x \in DOMAIN tb : tb[x] \in ProcRow BY DEF ProcsGood
<1>3. \A x \in DOMAIN tb \ gone :
        /\ t2[x] \in ProcRow /\ t2[x].tok = tb[x].tok /\ t2[x].ses = tb[x].ses
        /\ tb[x].ppid \in gone => t2[x].ppid = 1
        /\ tb[x].ppid \notin gone => t2[x].ppid = tb[x].ppid BY <1>1, <1>2 DEF ProcRow
<1>4. DOMAIN t2 = DOMAIN tb \ gone /\ t2 \in [DOMAIN tb \ gone -> ProcRow] BY <1>1, <1>3
<1> HIDE DEF t2
<1>5. ProcsGood(t2, n) BY <1>3, <1>4 DEF ProcsGood
<1>6. Newer(tb, t2, n) BY <1>3, <1>4 DEF Newer
<1> QED BY <1>5, <1>6 DEF t2

LEMMA AddFacts ==
  ASSUME NEW tb, NEW n \in Nat, NEW m \in Nat, n <= m, ProcsGood(tb, m), NEW p \in RealPids,
         p \notin DOMAIN tb, NEW pr \in ProcRow, n < pr.tok, pr.tok <= m + 1,
         pr.ppid = 1 \/ (pr.ppid \in DOMAIN tb /\ tb[pr.ppid].ses = pr.ses)
  PROVE  ProcsGood(Add(tb, p, pr), m + 1) /\ Newer(tb, Add(tb, p, pr), n)
<1> DEFINE t2 == Add(tb, p, pr)
<1>1. t2 = [x \in DOMAIN tb \cup {p} |-> IF x = p THEN pr ELSE tb[x]] BY DEF Add
<1>2. /\ DOMAIN t2 = DOMAIN tb \cup {p} /\ t2[p] = pr
      /\ \A x \in DOMAIN tb : t2[x] = tb[x] BY <1>1
<1>3. t2 \in [DOMAIN tb \cup {p} -> ProcRow] BY <1>1 DEF ProcsGood
<1> HIDE DEF t2
<1>4. \A x \in DOMAIN tb : tb[x].tok \in Nat /\ tb[x].tok <= m BY DEF ProcsGood, ProcRow
<1>5. ProcsGood(t2, m + 1) BY <1>2, <1>3, <1>4 DEF ProcsGood
<1>6. Newer(tb, t2, n) BY <1>2 DEF Newer
<1> QED BY <1>5, <1>6 DEF t2

LEMMA NewerThrough ==
  ASSUME NEW t1, NEW t2, NEW t3, NEW n \in Nat, Newer(t1, t2, n), Newer(t2, t3, n)
  PROVE  Newer(t1, t3, n)
BY DEF Newer

(* What is said of identities stands while the machine goes on. *)
LEMMA TimeFacts ==
  ASSUME ProcsOK, ProcsOK', fork <= fork', Newer(procs, procs', fork)
  PROVE  /\ \A r \in RecType : Recorded(r) => Recorded(r)'
         /\ \A r \in RecType : Recorded(r) /\ r.gen # 0 /\ DaemonOf(r) = {} => DaemonOf(r)' = {}
         /\ \A i \in Ids : \A g :
              /\ i.tok <= fork
              /\ \A p \in DOMAIN procs : p = i.pid /\ procs[p].tok = i.tok => procs[p].ses = g
              => /\ i.tok <= fork'
                 /\ \A p \in DOMAIN procs' :
                      p = i.pid /\ procs'[p].tok = i.tok => procs'[p].ses = g
         /\ \A X \in SUBSET Ids : (\A i \in X : i.tok <= fork) => StillLive(X, procs') \subseteq StillLive(X, procs)
<1>0. fork \in Nat /\ fork' \in Nat BY DEF ProcsOK
<1>1. /\ \A p \in DOMAIN procs : procs[p].tok \in Nat /\ procs[p].state = "run"
      /\ \A p \in DOMAIN procs' : procs'[p].tok \in Nat /\ procs'[p].state = "run"
  BY DEF ProcsOK, ProcsGood, ProcRow
<1>2. \A r \in RecType : Recorded(r) => Recorded(r)'
  <2> SUFFICES ASSUME NEW r \in RecType, Recorded(r) PROVE Recorded(r)' OBVIOUS
  <2>1. r.gen \in Nat /\ r.tok \in Nat BY DEF RecType
  <2> QED BY <1>0, <1>1, <2>1 DEF Recorded, Newer
<1>3. \A r \in RecType : Recorded(r) /\ r.gen # 0 /\ DaemonOf(r) = {} => DaemonOf(r)' = {}
  <2> SUFFICES ASSUME NEW r \in RecType, Recorded(r), r.gen # 0, DaemonOf(r) = {},
                      NEW p \in DaemonOf(r)'
               PROVE  FALSE OBVIOUS
  <2>1. r.gen \in Nat /\ r.tok \in Nat /\ r.tok <= fork BY DEF RecType, Recorded
  <2>2. p \in DOMAIN procs' /\ p = r.pid /\ procs'[p].tok = r.tok BY DEF DaemonOf
  <2>3. p \in DOMAIN procs /\ procs[p].tok = r.tok BY <1>0, <1>1, <2>1, <2>2 DEF Newer
  <2> QED BY <2>2, <2>3 DEF DaemonOf
<1>4. ASSUME NEW i \in Ids, NEW g, i.tok <= fork,
             \A p \in DOMAIN procs : p = i.pid /\ procs[p].tok = i.tok => procs[p].ses = g
      PROVE  /\ i.tok <= fork'
             /\ \A p \in DOMAIN procs' : p = i.pid /\ procs'[p].tok = i.tok => procs'[p].ses = g
  <2>1. i.tok \in Nat BY DEF Ids
  <2> QED BY <1>0, <1>1, <1>4, <2>1 DEF Newer
<1>5. ASSUME NEW X \in SUBSET Ids, \A i \in X : i.tok <= fork, NEW i \in StillLive(X, procs')
      PROVE  i \in StillLive(X, procs)
  <2>1. i \in X /\ i.tok \in Nat /\ i.tok <= fork BY <1>5 DEF StillLive, Ids
  <2>2. i.pid \in DOMAIN procs' /\ procs'[i.pid].tok = i.tok BY <1>5 DEF StillLive, Process
  <2>3. i.pid \in DOMAIN procs /\ procs[i.pid].tok = i.tok BY <1>0, <1>1, <2>1, <2>2 DEF Newer
  <2>4. procs[i.pid].state # "zombie" BY <1>1, <2>3
  <2> QED BY <2>1, <2>3, <2>4 DEF StillLive, Process
<1> QED BY <1>2, <1>3, <1>4, <1>5

LEMMA NoRecFacts == NoRec \in RecType /\ NoRec.gen = 0 /\ NoRow \in RowType /\ NoRow.rec = NoRec
BY DEF NoRec, Record, RecType, NoRow, RowType

(* A step that leaves the command alone. *)
LEMMA WorldKeeps ==
  ASSUME ControlInv, ProcsOK', RowOK', UNCHANGED cmd, fork <= fork',
         Newer(procs, procs', fork), cmd.pc = "spawn" => row' = row,
         row'.rec.gen # 0 /\ row'.rec.gen <= fork =>
           row'.rec.gen = row.rec.gen /\ row'.rec.pid = row.rec.pid
  PROVE  ControlInv'
<1>0. ProcsOK /\ cmd \in CmdType /\ ObsOK /\ TreeOK /\ HitOK /\ RmOK /\ SpawnOK /\ VerifiedOK /\ LookOK
  BY DEF ControlInv, CmdOK
<1>1. cmd.obs \in RecType /\ cmd.before \in SUBSET Ids BY <1>0 DEF CmdType
<1>2. ObsOK'
  <2>1. Recorded(cmd.obs) /\ Recorded(cmd.obs)' BY <1>0, <1>1, TimeFacts DEF ObsOK
  <2>2. cmd.obs.gen # 0 => cmd.obs.gen <= fork BY <2>1 DEF Recorded
  <2> QED BY <1>0, <2>1, <2>2 DEF ObsOK
<1>3. TreeOK' BY <1>0, <1>1, TimeFacts DEF TreeOK
<1>4. HitOK' BY <1>0 DEF HitOK
<1>5. RmOK'
  <2>1. Recorded(cmd.obs) BY <1>0 DEF ObsOK
  <2>2. cmd.obs.gen # 0 /\ DaemonOf(cmd.obs) = {} => DaemonOf(cmd.obs)' = {}
    BY <1>0, <1>1, <2>1, TimeFacts DEF DaemonOf
  <2> QED BY <1>0, <2>2 DEF RmOK
<1>6. SpawnOK' BY <1>0 DEF SpawnOK
<1>7. VerifiedOK'
  <2>1. \A i \in cmd.before : i.tok <= fork BY <1>0 DEF TreeOK
  <2>2. StillLive(cmd.before, procs') \subseteq StillLive(cmd.before, procs)
    BY <1>0, <1>1, <2>1, TimeFacts
  <2> QED BY <1>0, <2>2 DEF VerifiedOK
<1>8. LookOK' BY <1>0 DEF LookOK, Wanted
<1> QED BY <1>0, <1>2, <1>3, <1>4, <1>5, <1>6, <1>7, <1>8 DEF ControlInv, CmdOK

LEMMA ControlBegins == ControlInit => ControlInv
<1> SUFFICES ASSUME ControlInit PROVE ControlInv OBVIOUS
<1>1. PICK boot \in Boots, perm \in BOOLEAN :
        row = [rec |-> Record(1, 2, 1, boot, perm), sidecar |-> 2, socket |-> TRUE]
  BY DEF ControlInit, WorldInit
<1>2. PICK op \in Ops : cmd = Idle(op) BY DEF ControlInit
<1>3. procs = [p \in {2, 3} |-> Proc(p - 1, p - 1, p, 1)] /\ fork = 2 BY DEF ControlInit, WorldInit
<1>4. boot \in {"here", "none"} BY MachineAssumption
<1>5. ProcsOK BY <1>3 DEF ProcsOK, ProcsGood, Proc, ProcRow, RealPids
<1>6. row.rec \in RecType /\ row.rec.gen = 1 /\ row.rec.pid = 2 /\ row.rec.tok = 1
  BY <1>1, <1>4 DEF Record, RecType
<1>7. row \in RowType /\ row.sidecar = 2 BY <1>1, <1>6 DEF RowType
<1>8. RowOK BY <1>3, <1>6, <1>7 DEF RowOK, Recorded, RealPids, Proc
<1>9. cmd \in CmdType BY <1>2, NoRecFacts DEF Idle, CmdType, Places
<1>10. /\ cmd.obs = NoRec /\ cmd.pc = "idle" /\ cmd.before = {} /\ cmd.pins = {}
       /\ cmd.hit = {} /\ cmd.result = "none" BY <1>2 DEF Idle
<1>11. CmdOK BY <1>9, <1>10, NoRecFacts
         DEF CmdOK, ObsOK, TreeOK, HitOK, RmOK, SpawnOK, VerifiedOK, LookOK, Recorded, NoRec, Record
<1> QED BY <1>5, <1>8, <1>11 DEF ControlInv

----------------------------------------------------------------------------
(* The row: it stays of its generation, or goes. *)
RowEdited ==
  /\ row.rec.gen # 0 /\ row' \in RowType
  /\ row'.rec.gen = row.rec.gen /\ row'.rec.pid = row.rec.pid /\ row'.rec.tok = row.rec.tok
  /\ row'.sidecar \in {0, row.rec.pid}
RowChange == UNCHANGED row \/ row' = NoRow \/ RowEdited

LEMMA RowFacts ==
  ASSUME ProcsOK, ProcsOK', RowOK, fork <= fork', Newer(procs, procs', fork), RowChange
  PROVE  /\ RowOK'
         /\ row'.rec.gen # 0 => row'.rec.gen = row.rec.gen /\ row'.rec.pid = row.rec.pid
<1>0. row \in RowType /\ row.rec \in RecType /\ Recorded(row.rec) BY DEF RowOK, RowType
<1>1. Recorded(row.rec) BY <1>0
<1>2. CASE UNCHANGED row
  <2>1. Recorded(row.rec)' BY <1>0, <1>2, TimeFacts DEF Recorded
  <2> QED BY <1>2, <2>1 DEF RowOK
<1>3. CASE row' = NoRow
  <2>1. Recorded(row.rec)' BY <1>3, NoRecFacts DEF Recorded, NoRec, Record
  <2> QED BY <1>3, <2>1, NoRecFacts DEF RowOK, NoRow
<1>4. CASE RowEdited
  <2>1. row'.rec \in RecType BY <1>4 DEF RowEdited, RowType
  <2>2. \A r \in RecType : r.gen = row.rec.gen /\ r.pid = row.rec.pid /\ r.tok = row.rec.tok => Recorded(r)
    BY <1>0 DEF Recorded
  <2>3. \A r \in RecType : r.gen = row.rec.gen /\ r.pid = row.rec.pid /\ r.tok = row.rec.tok => Recorded(r)'
    BY <2>2, TimeFacts
  <2>4. Recorded(row.rec)' BY <1>4, <2>1, <2>3 DEF RowEdited, Recorded
  <2> QED BY <1>4, <2>4 DEF RowEdited, RowOK
<1> QED BY <1>2, <1>3, <1>4 DEF RowChange

(* The edits of a record in place. *)
LEMMA EditFacts ==
  ASSUME RowOK, row.rec.gen # 0
  PROVE  /\ \A b \in BOOLEAN :
              /\ row' = [row EXCEPT !.rec.keep = b] => RowEdited
              /\ row' = [row EXCEPT !.rec.perm = b] => RowEdited
              /\ row' = [row EXCEPT !.rec.old = b] => RowEdited
              /\ row' = [row EXCEPT !.rec.spent = b] => RowEdited
              /\ row' = [row EXCEPT !.rec.aged = b] => RowEdited
              /\ row' = [row EXCEPT !.rec.stamp = b] => RowEdited
              /\ row' = [row EXCEPT !.rec.idle = b] => RowEdited
              /\ row' = [row EXCEPT !.rec.orphan = b] => RowEdited
         /\ \A n \in Nat : row' = [row EXCEPT !.rec.flapping = TRUE, !.rec.fails = n] => RowEdited
         /\ row' = CleanupSocket(row) => RowEdited
         /\ row' = [rec |-> [row.rec EXCEPT !.exited = TRUE], sidecar |-> 0, socket |-> FALSE] => RowEdited
<1>0. row \in RowType /\ row.rec \in RecType /\ row.sidecar \in {0, row.rec.pid} BY DEF RowOK, RowType
<1>1. ASSUME NEW b \in BOOLEAN, row' = [row EXCEPT !.rec.keep = b] PROVE RowEdited
  BY <1>0, <1>1 DEF RowEdited, RowType, RecType
<1>2. ASSUME NEW b \in BOOLEAN, row' = [row EXCEPT !.rec.perm = b] PROVE RowEdited
  BY <1>0, <1>2 DEF RowEdited, RowType, RecType
<1>3. ASSUME NEW b \in BOOLEAN, row' = [row EXCEPT !.rec.old = b] PROVE RowEdited
  BY <1>0, <1>3 DEF RowEdited, RowType, RecType
<1>4. ASSUME NEW b \in BOOLEAN, row' = [row EXCEPT !.rec.idle = b] PROVE RowEdited
  BY <1>0, <1>4 DEF RowEdited, RowType, RecType
<1>5. ASSUME NEW b \in BOOLEAN, row' = [row EXCEPT !.rec.orphan = b] PROVE RowEdited
  BY <1>0, <1>5 DEF RowEdited, RowType, RecType
<1>6. ASSUME NEW b \in BOOLEAN, row' = [row EXCEPT !.rec.stamp = b] PROVE RowEdited
  BY <1>0, <1>6 DEF RowEdited, RowType, RecType
<1>a. ASSUME NEW b \in BOOLEAN, row' = [row EXCEPT !.rec.spent = b] PROVE RowEdited
  BY <1>0, <1>a DEF RowEdited, RowType, RecType
<1>b. ASSUME NEW b \in BOOLEAN, row' = [row EXCEPT !.rec.aged = b] PROVE RowEdited
  BY <1>0, <1>b DEF RowEdited, RowType, RecType
<1>7. ASSUME NEW n \in Nat, row' = [row EXCEPT !.rec.flapping = TRUE, !.rec.fails = n] PROVE RowEdited
  BY <1>0, <1>7 DEF RowEdited, RowType, RecType
<1>8. ASSUME row' = CleanupSocket(row) PROVE RowEdited
  <2>1. row' = [rec |-> row.rec, sidecar |-> 0, socket |-> FALSE]
    BY <1>0, <1>8 DEF CleanupSocket, RowType
  <2>2. row' \in RowType BY <1>0, <2>1 DEF RowType
  <2> QED BY <2>1, <2>2 DEF RowEdited
<1>9. ASSUME row' = [rec |-> [row.rec EXCEPT !.exited = TRUE], sidecar |-> 0, socket |-> FALSE]
      PROVE  RowEdited
  <2> DEFINE r0 == [row.rec EXCEPT !.exited = TRUE]
  <2>1. r0 \in RecType /\ r0.gen = row.rec.gen /\ r0.pid = row.rec.pid /\ r0.tok = row.rec.tok
    BY <1>0 DEF RecType
  <2>2. row' = [rec |-> r0, sidecar |-> 0, socket |-> FALSE] BY <1>9
  <2> HIDE DEF r0
  <2>3. row' \in RowType BY <2>1, <2>2 DEF RowType
  <2> QED BY <2>1, <2>2, <2>3 DEF RowEdited
<1> QED BY <1>1, <1>2, <1>3, <1>4, <1>5, <1>6, <1>7, <1>8, <1>9, <1>a, <1>b

LEMMA StillFacts ==
  ASSUME ProcsOK, UNCHANGED <<procs, fork>>
  PROVE  ProcsOK' /\ fork <= fork' /\ Newer(procs, procs', fork)
BY DEF ProcsOK, Newer

----------------------------------------------------------------------------
(* The world moves. *)

(* A launch: a daemon, its child, and their row. *)
LEMMA LaunchFacts ==
  ASSUME ProcsOK, NEW d \in Pids, NEW c \in Pids, d # c, d \notin DOMAIN procs, c \notin DOMAIN procs,
         procs' = Add(Add(procs, d, Proc(fork + 1, 1, d, fork + 1)), c, Proc(fork + 2, d, c, fork + 1)),
         fork' = fork + 2,
         row' \in RowType, row'.rec.gen = fork + 1, row'.rec.pid = d, row'.rec.tok = fork + 1,
         row'.sidecar = d
  PROVE  ProcsOK' /\ Newer(procs, procs', fork) /\ RowOK'
<1> DEFINE t1 == Add(procs, d, Proc(fork + 1, 1, d, fork + 1))
<1>0. fork \in Nat /\ ProcsGood(procs, fork) /\ d \in RealPids /\ c \in RealPids /\ d \in Nat /\ c \in Nat
  BY MachineAssumption DEF ProcsOK, RealPids
<1>1. Proc(fork + 1, 1, d, fork + 1) \in ProcRow /\ Proc(fork + 2, d, c, fork + 1) \in ProcRow
  BY <1>0 DEF Proc, ProcRow
<1>2. /\ Proc(fork + 1, 1, d, fork + 1).tok = fork + 1 /\ Proc(fork + 1, 1, d, fork + 1).ppid = 1
      /\ Proc(fork + 2, d, c, fork + 1).tok = fork + 2 /\ Proc(fork + 2, d, c, fork + 1).ppid = d
      /\ Proc(fork + 1, 1, d, fork + 1).ses = fork + 1 /\ Proc(fork + 2, d, c, fork + 1).ses = fork + 1
  BY DEF Proc
<1>3. ProcsGood(t1, fork + 1) /\ Newer(procs, t1, fork) BY <1>0, <1>1, <1>2, AddFacts
<1>4. /\ DOMAIN t1 = DOMAIN procs \cup {d} /\ t1[d] = Proc(fork + 1, 1, d, fork + 1) BY DEF Add
<1> HIDE DEF t1
<1>5. ProcsGood(procs', fork + 2) /\ Newer(t1, procs', fork)
  <2>1. c \notin DOMAIN t1 BY <1>4
  <2>2. procs' = Add(t1, c, Proc(fork + 2, d, c, fork + 1)) BY DEF t1
  <2>3. fork + 1 \in Nat /\ fork <= fork + 1 /\ fork < fork + 2 /\ fork + 2 = fork + 1 + 1 BY <1>0
  <2> QED BY <1>0, <1>1, <1>2, <1>3, <1>4, <2>1, <2>2, <2>3, AddFacts
<1>6. Newer(procs, procs', fork) BY <1>0, <1>3, <1>5, NewerThrough
<1>7. ProcsOK' BY <1>0, <1>5 DEF ProcsOK
<1>8. \A p \in DOMAIN procs' : p = d => procs'[p].ses = fork + 1
  <2>1. procs' = Add(t1, c, Proc(fork + 2, d, c, fork + 1)) BY DEF t1
  <2> QED BY <1>2, <1>4, <2>1 DEF Add
<1>9. RowOK' BY <1>0, <1>8 DEF RowOK, Recorded
<1> QED BY <1>6, <1>7, <1>9

LEMMA LaunchKeeps ==
  ASSUME ControlInv, NEW d \in Pids, NEW c \in Pids, Launch(d, c), cmd.pc # "spawn", UNCHANGED cmd
  PROVE  ControlInv'
<1>0. ProcsOK /\ fork \in Nat BY DEF ControlInv, ProcsOK
<1>1. /\ d # c /\ d \notin DOMAIN procs /\ c \notin DOMAIN procs BY DEF Launch
<1>2. PICK boot \in Boots, perm \in BOOLEAN : Launched(d, c, boot, perm) BY DEF Launch
<1>3. boot \in {"here", "none"} BY MachineAssumption
<1>4. /\ procs' = Add(Add(procs, d, Proc(fork + 1, 1, d, fork + 1)), c, Proc(fork + 2, d, c, fork + 1))
      /\ fork' = fork + 2
      /\ row' = [rec |-> Record(fork + 1, d, fork + 1, boot, perm), sidecar |-> d, socket |-> TRUE]
  BY <1>2 DEF Launched
<1>5. d \in Nat BY MachineAssumption
<1>6. /\ Record(fork + 1, d, fork + 1, boot, perm) \in RecType
      /\ row'.rec.gen = fork + 1 /\ row'.rec.pid = d /\ row'.rec.tok = fork + 1
  BY <1>0, <1>3, <1>4, <1>5 DEF Record, RecType
<1>7. row' \in RowType /\ row'.sidecar = d BY <1>4, <1>5, <1>6 DEF RowType
<1>8. ProcsOK' /\ Newer(procs, procs', fork) /\ RowOK' BY <1>0, <1>1, <1>4, <1>6, <1>7, LaunchFacts
<1>9. fork <= fork' /\ ~(row'.rec.gen <= fork) BY <1>0, <1>4, <1>6
<1> QED BY <1>8, <1>9, WorldKeeps

LEMMA WorldStepKeeps ==
  ASSUME ControlInv, WorldStep \/ TimePasses(Reads), UNCHANGED cmd
  PROVE  ControlInv'
<1>0. ProcsOK /\ RowOK /\ fork \in Nat /\ ProcsGood(procs, fork) /\ SpawnOK
  BY DEF ControlInv, ProcsOK, CmdOK
<1>a. cmd.pc = "spawn" => row.rec.gen = 0 BY <1>0, NoRecFacts DEF SpawnOK
<1>b. row.rec.gen = 0 => ~DaemonLives BY DEF DaemonLives, DaemonOf
<1>c. ASSUME ProcsOK', fork <= fork', Newer(procs, procs', fork), RowChange,
             cmd.pc = "spawn" => row' = row
      PROVE  ControlInv' BY <1>0, <1>c, RowFacts, WorldKeeps
<1>1. ASSUME NEW p \in Pids, NEW q \in Pids, ChildForks(p, q) PROVE ControlInv'
  <2>1. /\ p \in DOMAIN procs /\ q \notin DOMAIN procs /\ UNCHANGED row /\ fork' = fork + 1
        /\ procs' = Add(procs, q, [procs[p] EXCEPT !.tok = fork + 1, !.ppid = p]) BY <1>1 DEF ChildForks
  <2> DEFINE pr == [procs[p] EXCEPT !.tok = fork + 1, !.ppid = p]
  <2>2. procs[p] \in ProcRow /\ p \in Nat BY <1>0, <2>1, MachineAssumption DEF ProcsGood
  <2>a. ASSUME NEW r0 \in ProcRow, NEW n \in Nat
        PROVE  /\ [r0 EXCEPT !.tok = n, !.ppid = p] \in ProcRow
               /\ [r0 EXCEPT !.tok = n, !.ppid = p].tok = n
               /\ [r0 EXCEPT !.tok = n, !.ppid = p].ppid = p
               /\ [r0 EXCEPT !.tok = n, !.ppid = p].ses = r0.ses BY <2>2 DEF ProcRow
  <2>b. fork + 1 \in Nat BY <1>0
  <2>3. pr \in ProcRow /\ pr.tok = fork + 1 /\ pr.ppid = p /\ pr.ses = procs[p].ses
    BY <2>2, <2>a, <2>b, Zenon
  <2> HIDE DEF pr
  <2>4. q \in RealPids BY MachineAssumption DEF RealPids
  <2>5. ProcsGood(Add(procs, q, pr), fork + 1) /\ Newer(procs, Add(procs, q, pr), fork)
    BY <1>0, <2>1, <2>3, <2>4, AddFacts
  <2>6. ProcsOK' /\ Newer(procs, procs', fork) /\ fork <= fork' BY <1>0, <2>1, <2>5 DEF ProcsOK, pr
  <2> QED BY <1>c, <2>1, <2>6 DEF RowChange
<1>2. ASSUME NEW p \in Pids, Stranger(p) PROVE ControlInv'
  <2>1. p \notin DOMAIN procs /\ UNCHANGED row /\ fork' = fork + 1
        /\ procs' = Add(procs, p, Proc(fork + 1, 1, p, 0)) BY <1>2 DEF Stranger
  <2>2. p \in RealPids /\ p \in Nat BY MachineAssumption DEF RealPids
  <2>3. Proc(fork + 1, 1, p, 0) \in ProcRow /\ Proc(fork + 1, 1, p, 0).tok = fork + 1
        /\ Proc(fork + 1, 1, p, 0).ppid = 1 BY <1>0, <2>2 DEF Proc, ProcRow
  <2>4. ProcsGood(procs', fork + 1) /\ Newer(procs, procs', fork) BY <1>0, <2>1, <2>2, <2>3, AddFacts
  <2>5. ProcsOK' /\ fork <= fork' BY <1>0, <2>1, <2>4 DEF ProcsOK
  <2> QED BY <1>c, <2>1, <2>4, <2>5 DEF RowChange
<1>3. ASSUME NEW gone, procs' = Reap(procs, gone), UNCHANGED <<fork, row>> PROVE ControlInv'
  <2>1. ProcsGood(procs', fork) /\ Newer(procs, procs', fork) BY <1>0, <1>3, ReapFacts
  <2>2. ProcsOK' /\ fork <= fork' BY <1>0, <1>3, <2>1 DEF ProcsOK
  <2> QED BY <1>c, <1>3, <2>1, <2>2 DEF RowChange
<1>4. ASSUME UNCHANGED <<procs, fork>>, row.rec.gen # 0, RowChange PROVE ControlInv'
  BY <1>0, <1>a, <1>c, <1>4, StillFacts
<1>5. CASE DaemonRecordsExit
  <2>1. row.rec.gen # 0 /\ UNCHANGED <<procs, fork>> BY <1>b, <1>5 DEF DaemonRecordsExit
  <2>2. RowChange BY <1>0, <1>5, <2>1, EditFacts DEF DaemonRecordsExit, RowChange
  <2> QED BY <1>4, <2>1, <2>2
<1>6. CASE UserTags
  <2>1. row.rec.gen # 0 /\ UNCHANGED <<procs, fork>> BY <1>6 DEF UserTags
  <2>2. RowChange BY <1>0, <1>6, <2>1, EditFacts DEF UserTags, RowChange
  <2> QED BY <1>4, <2>1, <2>2
<1>7. CASE TimePasses(Reads)
  <2>1. row.rec.gen # 0 /\ UNCHANGED <<procs, fork>> BY SMTT(60), <1>7 DEF TimePasses
  <2>2. RowChange BY <1>0, <1>7, <2>1, EditFacts DEF TimePasses, RowChange
  <2> QED BY <1>4, <2>1, <2>2
<1>8. CASE DaemonEnds BY <1>3, <1>8 DEF DaemonEnds
<1>9. ASSUME NEW p \in Pids, ProcessExits(p) PROVE ControlInv' BY <1>3, <1>9 DEF ProcessExits
<1> QED BY <1>1, <1>2, <1>5, <1>6, <1>7, <1>8, <1>9 DEF WorldStep

----------------------------------------------------------------------------
(* What the identity checks tell. *)

LEMMA IdentityFacts ==
  ASSUME ProcsOK, NEW r \in RecType, Recorded(r), NEW p \in Nat
  PROVE  /\ CheckDaemonIdentity(p, r, procs, Boot) \in {"gone", "mismatch", "unknown", "match"}
         /\ \/ CheckDaemonIdentity(p, r, procs, Boot) = "match"
            \/ CheckControlIdentity(p, r, procs, Boot) \in {"match", "legacy"}
            => p \in DOMAIN procs /\ r.gen # 0 /\ procs[p].ses = r.gen
         /\ /\ r.gen # 0 /\ p = r.pid
            /\ \/ CheckDaemonIdentity(p, r, procs, Boot) \in {"gone", "mismatch"}
               \/ CheckControlIdentity(p, r, procs, Boot) \in {"gone", "mismatch"}
            => DaemonOf(r) = {}
<1>0. \A q \in DOMAIN procs : procs[q] \in ProcRow BY DEF ProcsOK, ProcsGood
<1>1. \A q : HasExited(procs, q) <=> q \notin DOMAIN procs BY <1>0 DEF HasExited, Process, ProcRow
<1>2. r.pid \in Nat /\ r.tok \in Nat /\ r.boot \in {"here", "none"} BY DEF RecType
<1>3. CheckBootIdentity(r, Boot) \in {"unknown", "match"} BY <1>2 DEF CheckBootIdentity, Boot
<1> DEFINE d == CheckDaemonIdentity(p, r, procs, Boot)
           k == CheckControlIdentity(p, r, procs, Boot)
<1>4. /\ p = 0 \/ p \notin DOMAIN procs => d = "gone"
      /\ p > 0 /\ p \in DOMAIN procs /\ r.pid \notin {0, p} => d = "mismatch"
      /\ p > 0 /\ p \in DOMAIN procs /\ r.pid \in {0, p} /\ r.tok = 0 => d = "unknown"
      /\ p > 0 /\ p \in DOMAIN procs /\ r.pid \in {0, p} /\ r.tok # 0 =>
           d = IF procs[p].tok # r.tok THEN "mismatch" ELSE CheckBootIdentity(r, Boot)
  BY <1>1 DEF CheckDaemonIdentity
<1>5. k = IF r.boot = "none" /\ r.tok # 0 /\ d = "unknown" THEN "legacy" ELSE d
  BY DEF CheckControlIdentity
<1> HIDE DEF d, k
<1>6. d \in {"gone", "mismatch", "unknown", "match"} BY <1>3, <1>4
<1>7. d = "match" \/ k \in {"match", "legacy"} => p \in DOMAIN procs /\ r.gen # 0 /\ procs[p].ses = r.gen
  <2> SUFFICES ASSUME d = "match" \/ k \in {"match", "legacy"}
               PROVE  p \in DOMAIN procs /\ r.gen # 0 /\ procs[p].ses = r.gen OBVIOUS
  <2>1. d = "match" \/ (d = "unknown" /\ r.tok # 0) BY <1>5, <1>6
  <2>2. p > 0 /\ p \in DOMAIN procs /\ r.pid \in {0, p} /\ r.tok # 0 BY <1>2, <1>4, <2>1
  <2>3. procs[p].tok = r.tok BY <1>3, <1>4, <2>1, <2>2
  <2>4. r.gen # 0 /\ r.pid = p BY <2>2 DEF Recorded, RealPids
  <2> QED BY <2>2, <2>3, <2>4 DEF Recorded
<1>8. r.gen # 0 /\ p = r.pid /\ (d \in {"gone", "mismatch"} \/ k \in {"gone", "mismatch"}) => DaemonOf(r) = {}
  <2> SUFFICES ASSUME r.gen # 0, p = r.pid, d \in {"gone", "mismatch"} \/ k \in {"gone", "mismatch"},
                      NEW q \in DaemonOf(r)
               PROVE  FALSE OBVIOUS
  <2>1. d \in {"gone", "mismatch"} BY <1>5
  <2>2. q = p /\ p \in DOMAIN procs /\ procs[p].tok = r.tok BY DEF DaemonOf
  <2>3. r.tok # 0 /\ p > 0 BY <1>2 DEF Recorded, RealPids
  <2> QED BY <1>3, <1>4, <2>1, <2>2, <2>3
<1> QED BY <1>6, <1>7, <1>8 DEF d, k

(* A row whose owner is lost has no daemon; one that matches, has. *)
LEMMA OwnerFacts ==
  ASSUME ProcsOK, RowOK
  PROVE  /\ OwnerLost => ~DaemonLives
         /\ row.rec.gen # 0 /\ CheckRecordIdentity(row.sidecar, row.rec, procs, Boot) = "mismatch" =>
              ~DaemonLives
         /\ row.rec.gen # 0 /\ DaemonIdentity \notin {"gone", "mismatch", "unknown"} =>
              (IF row.sidecar # 0 THEN row.sidecar ELSE row.rec.pid) \in DOMAIN procs
<1>0. row.rec \in RecType /\ Recorded(row.rec) /\ row.sidecar \in {0, row.rec.pid} /\ row.rec.pid \in Nat
  BY DEF RowOK, RowType, RecType
<1>1. CASE row.rec.gen = 0 BY <1>1 DEF DaemonLives, DaemonOf
<1>2. CASE row.rec.gen # 0
  <2>1. row.rec.pid # 0 BY <1>0, <1>2 DEF Recorded, RealPids
  <2>2. /\ CheckRecordIdentity(row.sidecar, row.rec, procs, Boot) =
             CheckDaemonIdentity(row.rec.pid, row.rec, procs, Boot)
        /\ DaemonIdentity = CheckDaemonIdentity(row.rec.pid, row.rec, procs, Boot)
    BY <1>0, <2>1 DEF DaemonIdentity, CheckRecordIdentityIn, CheckRecordIdentity
  <2>3. /\ CheckDaemonIdentity(row.rec.pid, row.rec, procs, Boot) \in {"gone", "mismatch", "unknown", "match"}
        /\ CheckDaemonIdentity(row.rec.pid, row.rec, procs, Boot) \in {"gone", "mismatch"} =>
             DaemonOf(row.rec) = {}
        /\ CheckDaemonIdentity(row.rec.pid, row.rec, procs, Boot) = "match" =>
             row.rec.pid \in DOMAIN procs BY <1>0, <1>2, IdentityFacts
  <2>4. (IF row.sidecar # 0 THEN row.sidecar ELSE row.rec.pid) = row.rec.pid BY <1>0
  <2> QED BY <2>2, <2>3, <2>4 DEF OwnerLost, KnownOwnerLost, DaemonLives
<1> QED BY <1>1, <1>2

(* A command that has shown its authority acts on its own session. *)
LEMMA AuthorityFacts ==
  ASSUME ControlInv
  PROVE  /\ Authority \in {"none", "match", "legacy"}
         /\ RequireIdentity => cmd.pid \in DOMAIN procs /\ procs[cmd.pid].ses = cmd.obs.gen
<1>0. /\ ProcsOK /\ cmd.obs \in RecType /\ Recorded(cmd.obs) /\ cmd.pid \in Nat /\ row.sidecar \in Nat
      /\ cmd.obs.pid \in Nat BY DEF ControlInv, CmdOK, CmdType, ObsOK, RowOK, RowType, RecType
<1> DEFINE w == IF row.sidecar # 0 THEN row.sidecar ELSE cmd.obs.pid
           a == ControlAuthority(row.sidecar, cmd.obs, procs, Boot)
<1>1. w \in Nat BY <1>0
<1>2. /\ a \in {"none", "match", "legacy"}
      /\ a # "none" => CheckControlIdentity(w, cmd.obs, procs, Boot) \in {"match", "legacy"}
  BY DEF ControlAuthority
<1>3. a # "none" => w \in DOMAIN procs /\ procs[w].ses = cmd.obs.gen
  <2> HIDE DEF a, w
  <2> QED BY <1>0, <1>1, <1>2, IdentityFacts
<1>4. CheckDaemonIdentity(cmd.pid, cmd.obs, procs, Boot) = "match" =>
        cmd.pid \in DOMAIN procs /\ procs[cmd.pid].ses = cmd.obs.gen BY <1>0, IdentityFacts
<1>5. ControlTarget(cmd.obs) = IF a = "none" THEN 0 ELSE w BY DEF ControlTarget
<1>6. /\ cmd.op = "stop" => Authority = IF ControlTarget(cmd.obs) = cmd.pid THEN a ELSE "none"
      /\ cmd.op # "stop" => Authority = IF CheckDaemonIdentity(cmd.pid, cmd.obs, procs, Boot) = "match"
                                        THEN "match" ELSE "none" BY DEF Authority
<1> HIDE DEF a, w
<1>7. Authority \in {"none", "match", "legacy"} BY <1>2, <1>6
<1>8. Authority # "none" => cmd.pid \in DOMAIN procs /\ procs[cmd.pid].ses = cmd.obs.gen
  BY <1>3, <1>4, <1>5, <1>6
<1> QED BY <1>7, <1>8 DEF RequireIdentity

----------------------------------------------------------------------------
(* A command goes on. *)

(* It keeps what it observed, and strikes its own. *)
Kept ==
  /\ Looked
  /\ cmd' \in CmdType /\ cmd'.op = cmd.op /\ cmd'.obs = cmd.obs /\ cmd'.before = cmd.before
  /\ cmd'.pins # {} => cmd'.pins \subseteq cmd.before /\ cmd'.pc \in {"term", "kill"}
  /\ cmd.op # "signal" => \A h \in cmd'.hit : h.ses = cmd.obs.gen
  /\ cmd'.pc \notin Early /\ (cmd'.pc # "done" => cmd'.result = "none")

LEMMA StepKeeps ==
  ASSUME ControlInv, ProcsOK', RowOK', fork <= fork', Newer(procs, procs', fork), Kept,
         cmd.obs.gen # 0 /\ cmd.obs.gen = row'.rec.gen => cmd.obs.pid = row'.rec.pid,
         RmOK', SpawnOK', VerifiedOK'
  PROVE  ControlInv'
<1>0. ProcsOK /\ cmd \in CmdType /\ ObsOK /\ TreeOK /\ LookOK BY DEF ControlInv, CmdOK
<1>1. cmd.obs \in RecType /\ cmd.before \in SUBSET Ids BY <1>0 DEF CmdType
<1>2. /\ cmd' \in CmdType /\ cmd'.op = cmd.op /\ cmd'.obs = cmd.obs /\ cmd'.before = cmd.before
      /\ cmd'.pins # {} => cmd'.pins \subseteq cmd.before /\ cmd'.pc \in {"term", "kill"}
      /\ cmd.op # "signal" => \A h \in cmd'.hit : h.ses = cmd.obs.gen
      /\ cmd'.pc \notin Early /\ (cmd'.pc # "done" => cmd'.result = "none") BY DEF Kept
<1>3. ObsOK'
  <2>1. \A r \in RecType : Recorded(r) => Recorded(r)' BY <1>0, TimeFacts
  <2>2. Recorded(cmd.obs)' BY <1>0, <1>1, <1>2, <2>1 DEF ObsOK, Recorded
  <2> QED BY <1>2, <2>2 DEF ObsOK
<1>4. TreeOK'
  <2>1. \A i \in cmd.before :
          /\ i.tok <= fork'
          /\ \A p \in DOMAIN procs' : p = i.pid /\ procs'[p].tok = i.tok => procs'[p].ses = cmd.obs.gen
    BY <1>0, <1>1, TimeFacts DEF TreeOK
  <2> QED BY <1>2, <2>1 DEF TreeOK
<1>5. HitOK' BY <1>2 DEF HitOK
<1>6. LookOK' BY <1>0, <1>2 DEF Kept, Looked, LookOK, Wanted
<1> QED BY <1>2, <1>3, <1>4, <1>5, <1>6 DEF ControlInv, CmdOK

(* The machine stands still, the row is kept, edited in place or removed. *)
LEMMA QuietKeeps ==
  ASSUME ControlInv, UNCHANGED <<procs, fork>>, RowChange, Kept, RmOK', SpawnOK', VerifiedOK'
  PROVE  ControlInv'
<1>0. ProcsOK /\ RowOK /\ ObsOK BY DEF ControlInv, CmdOK
<1>1. ProcsOK' /\ fork <= fork' /\ Newer(procs, procs', fork) BY <1>0, StillFacts
<1>2. RowOK' /\ (row'.rec.gen # 0 => row'.rec.gen = row.rec.gen /\ row'.rec.pid = row.rec.pid)
  BY <1>0, <1>1, RowFacts
<1> QED BY <1>0, <1>1, <1>2, StepKeeps DEF ObsOK

Results ==
  {"none", "refused", "signal_failed", "still_running", "verified", "left", "not_running",
   "signalled", "unverified", "did_not_exit", "removed", "replaced", "missing", "running",
   "invalid", "exited", "vanished", "retired", "skipped", "reaped", "swept", "stale",
   "flapping_skipped", "flapped", "failed", "respawned", "acted"}

LEMMA FinishFacts ==
  ASSUME ControlInv, NEW r \in Results, Finish(r), cmd.pc \notin {"term", "kill"}, Looked
  PROVE  /\ Kept /\ cmd'.pc = "done" /\ cmd'.result = r /\ cmd'.before = cmd.before
         /\ cmd'.unseen = cmd.unseen
<1>0. cmd \in CmdType /\ TreeOK /\ HitOK BY DEF ControlInv, CmdOK
<1>1. /\ cmd' \in CmdType /\ cmd'.op = cmd.op /\ cmd'.obs = cmd.obs /\ cmd'.before = cmd.before
      /\ cmd'.pins = cmd.pins /\ cmd'.hit = cmd.hit /\ cmd'.pc = "done" /\ cmd'.result = r
      /\ cmd'.unseen = cmd.unseen BY ZenonT(60), <1>0 DEF Finish, CmdType, Places, Results
<1> QED BY <1>0, <1>1 DEF Kept, TreeOK, HitOK, Early

LEMMA GotoFacts ==
  ASSUME ControlInv, NEW x \in Places \ Early, Goto(x), cmd.pc \notin {"term", "kill", "done"}, Looked
  PROVE  /\ Kept /\ cmd'.pc = x /\ cmd'.result = cmd.result /\ cmd'.before = cmd.before
         /\ cmd'.pid = cmd.pid
<1>0. cmd \in CmdType /\ TreeOK /\ HitOK BY DEF ControlInv, CmdOK
<1>1. /\ cmd' \in CmdType /\ cmd'.op = cmd.op /\ cmd'.obs = cmd.obs /\ cmd'.before = cmd.before
      /\ cmd'.pins = cmd.pins /\ cmd'.hit = cmd.hit /\ cmd'.pc = x /\ cmd'.result = cmd.result
      /\ cmd'.pid = cmd.pid BY <1>0 DEF Goto, CmdType
<1> QED BY <1>0, <1>1 DEF Kept, TreeOK, HitOK

LEMMA FinishKeeps ==
  ASSUME ControlInv, UNCHANGED <<procs, fork>>, RowChange, NEW r \in Results, r # "verified",
         Finish(r), cmd.pc \notin {"term", "kill"}, Looked
  PROVE  ControlInv'
<1>1. Kept /\ cmd'.pc = "done" /\ cmd'.result = r BY FinishFacts
<1>2. RmOK' /\ SpawnOK' /\ VerifiedOK' BY <1>1 DEF RmOK, SpawnOK, VerifiedOK
<1> QED BY <1>1, <1>2, QuietKeeps

LEMMA GotoKeeps ==
  ASSUME ControlInv, UNCHANGED <<procs, fork>>, RowChange, cmd.op # "rm",
         NEW x \in Places \ (Early \cup {"report", "spawn"}), Goto(x), cmd.pc \notin {"term", "kill", "done"}, Looked
  PROVE  ControlInv'
<1>1. /\ Kept /\ cmd'.pc = x /\ cmd'.result = cmd.result /\ cmd'.before = cmd.before BY GotoFacts
<1>2. cmd'.op = cmd.op BY <1>1 DEF Kept
<1>3. HitOK BY DEF ControlInv, CmdOK
<1>4. RmOK' /\ SpawnOK' /\ VerifiedOK' BY <1>1, <1>2, <1>3 DEF RmOK, SpawnOK, VerifiedOK, HitOK
<1> QED BY <1>1, <1>4, QuietKeeps

(* A command looks: it has struck nobody, and observes the row's record. *)
LEMMA LookKeeps ==
  ASSUME ControlInv, UNCHANGED <<procs, fork>>, UNCHANGED row \/ row' = NoRow, cmd.pc \in Early,
         cmd' \in CmdType, cmd'.op = cmd.op, cmd'.obs.gen = row.rec.gen,
         cmd'.obs.pid = row.rec.pid, cmd'.obs.tok = row.rec.tok, cmd'.before = cmd.before,
         cmd'.pins = cmd.pins, cmd'.hit = cmd.hit, cmd'.result = cmd.result, RmOK', SpawnOK', LookOK'
  PROVE  ControlInv'
<1>0. ProcsOK /\ RowOK /\ TreeOK /\ HitOK BY DEF ControlInv, CmdOK
<1>1. cmd.hit = {} /\ cmd.before = {} /\ cmd.result = "none" /\ cmd.pins = {}
  BY <1>0 DEF HitOK, TreeOK, Early
<1>2. ProcsOK' /\ fork <= fork' /\ Newer(procs, procs', fork) /\ RowChange
  BY <1>0, StillFacts DEF RowChange
<1>3. RowOK' /\ (row'.rec.gen # 0 => row'.rec.gen = row.rec.gen /\ row'.rec.pid = row.rec.pid)
  BY <1>0, <1>2, RowFacts
<1>4. ObsOK'
  <2>1. row.rec \in RecType /\ Recorded(row.rec) BY <1>0 DEF RowOK, RowType
  <2>2. Recorded(cmd.obs)' BY <2>1 DEF Recorded
  <2> QED BY <1>3, <2>2 DEF ObsOK
<1>5. TreeOK' /\ HitOK' BY <1>1 DEF TreeOK, HitOK
<1>6. VerifiedOK' BY <1>1 DEF VerifiedOK, StillLive
<1> QED BY <1>2, <1>3, <1>4, <1>5, <1>6 DEF ControlInv, CmdOK

LEMMA BeginKeeps ==
  ASSUME ControlInv, UNCHANGED wvars, cmd.pc = "idle", NEW p \in Nat, NEW x \in Places \ {"spawn", "remove"},
         Begin(x, p), cmd.op = "rm" /\ x = "wait" => row.rec.gen # 0 /\ p = row.rec.pid, Wanted(row.rec)
  PROVE  ControlInv'
<1>0. cmd \in CmdType /\ row.rec \in RecType BY DEF ControlInv, CmdOK, RowOK, RowType
<1>1. /\ cmd' \in CmdType /\ cmd'.op = cmd.op /\ cmd'.obs = row.rec /\ cmd'.before = cmd.before
      /\ cmd'.pins = cmd.pins /\ cmd'.hit = cmd.hit /\ cmd'.result = cmd.result
      /\ cmd'.pc = x /\ cmd'.pid = p BY <1>0 DEF Begin, CmdType
<1>2. RmOK' /\ SpawnOK' /\ LookOK' BY <1>1 DEF RmOK, SpawnOK, LookOK, Wanted
<1>3. UNCHANGED <<procs, fork, row>> BY DEF wvars
<1> QED BY <1>1, <1>2, <1>3, LookKeeps DEF Early

----------------------------------------------------------------------------
(* stop. *)

LEMMA TargetIsPid == ASSUME ControlInv PROVE ControlTarget(row.rec) \in Nat
BY DEF ControlInv, RowOK, RowType, RecType, ControlTarget

LEMMA StopLookKeeps == ASSUME ControlInv, StopLooks PROVE ControlInv'
<1>1. cmd.pc = "idle" /\ cmd.op = "stop" /\ UNCHANGED wvars BY DEF StopLooks, Ready, At
<1>2. CASE Begin("open", ControlTarget(row.rec)) BY <1>1, <1>2, TargetIsPid, BeginKeeps DEF Places, Wanted
<1>3. CASE Finish("refused") BY <1>1, <1>3, FinishKeeps DEF Results, RowChange, Looked, wvars
<1> QED BY <1>2, <1>3 DEF StopLooks

LEMMA StopOpenKeeps == ASSUME ControlInv, StopOpens PROVE ControlInv'
<1>1. cmd.pc = "open" /\ cmd.op = "stop" /\ UNCHANGED wvars BY DEF StopOpens, HandleOpens, At
<1>2. CASE Finish("signal_failed") BY <1>1, <1>2, FinishKeeps DEF Results, RowChange, wvars, Looked
<1>3. CASE cmd.pid \in DOMAIN procs
  <2>0. cmd \in CmdType /\ TreeOK /\ HitOK BY DEF ControlInv, CmdOK
  <2>1. procs[cmd.pid].tok \in Nat BY <1>3 DEF ControlInv, ProcsOK, ProcsGood, ProcRow
  <2>2. Authority \in {"none", "match", "legacy"} BY AuthorityFacts
  <2>3. cmd' = [cmd EXCEPT !.auth = Authority, !.pin = procs[cmd.pid].tok, !.pc = "check"]
    BY <1>3 DEF StopOpens, HandleOpens
  <2>4. /\ cmd' \in CmdType /\ cmd'.op = cmd.op /\ cmd'.obs = cmd.obs /\ cmd'.before = cmd.before
        /\ cmd'.pins = cmd.pins /\ cmd'.hit = cmd.hit /\ cmd'.pc = "check" /\ cmd'.result = cmd.result
    BY ZenonT(60), <2>0, <2>1, <2>2, <2>3 DEF CmdType, Places
  <2>5. Kept BY <1>1, <2>0, <2>4 DEF Kept, TreeOK, HitOK, Early, Looked
  <2>6. RmOK' /\ SpawnOK' /\ VerifiedOK' BY <1>1, <2>0, <2>4 DEF RmOK, SpawnOK, VerifiedOK, HitOK
  <2> QED BY <1>1, <2>5, <2>6, QuietKeeps DEF wvars, RowChange
<1> QED BY <1>2, <1>3 DEF StopOpens, HandleOpens

LEMMA StopCheckKeeps == ASSUME ControlInv, StopChecks PROVE ControlInv'
<1>1. cmd.pc = "check" /\ cmd.op = "stop" /\ UNCHANGED wvars BY DEF StopChecks, At
<1>2. CASE Finish("signal_failed") BY <1>1, <1>2, FinishKeeps DEF Results, RowChange, wvars, Looked
<1>3. ASSUME NEW x \in {"tag", "snapshot"}, Goto(x) PROVE ControlInv'
  BY <1>1, <1>3, GotoKeeps DEF Places, Early, RowChange, wvars, Looked
<1> QED BY <1>2, <1>3 DEF StopChecks

LEMMA StopTagKeeps == ASSUME ControlInv, StopDropsStrategy PROVE ControlInv'
<1>1. cmd.pc = "tag" /\ cmd.op = "stop" /\ UNCHANGED <<procs, fork>> /\ Goto("snapshot")
  BY DEF StopDropsStrategy, At
<1>2. RowOK BY DEF ControlInv
<1>3. RowChange BY <1>2, EditFacts DEF StopDropsStrategy, RowChange
<1> QED BY <1>1, <1>3, GotoKeeps DEF Places, Early, Looked

(* What a read of the table shows is there. *)
LEMMA ReadFacts ==
  ASSUME ProcsOK, NEW t \in TableReads
  PROVE  /\ DOMAIN t.rows \subseteq DOMAIN procs /\ \A p \in DOMAIN t.rows : t.rows[p] = procs[p]
<1>1. CASE t = [rows |-> procs, readable |-> TRUE, complete |-> TRUE] BY <1>1
<1>2. CASE t = Unreadable BY <1>2 DEF Unreadable
<1>3. CASE \E p \in DOMAIN procs :
             t = [rows |-> [x \in DOMAIN procs \ {p} |-> procs[x]], readable |-> TRUE, complete |-> FALSE]
  BY <1>3
<1> QED BY <1>1, <1>2, <1>3 DEF TableReads

LEMMA IdFacts ==
  ASSUME ProcsOK, NEW t \in TableReads
  PROVE  /\ \A p \in DOMAIN t.rows : Identity(t.rows, p) \in Ids /\ t.rows[p].pgid \in Nat
         /\ SnapshotFromTable(cmd.pid, t.rows) \in SUBSET Ids
         /\ GroupsInTree(cmd.pid, t.rows) \in SUBSET Nat
<1>1. DOMAIN t.rows \subseteq RealPids /\ \A p \in DOMAIN t.rows : t.rows[p] \in ProcRow
  BY ReadFacts DEF ProcsOK, ProcsGood
<1>2. \A p \in DOMAIN t.rows : Identity(t.rows, p) \in Ids /\ t.rows[p].pgid \in Nat
  BY <1>1 DEF Identity, Ids, ProcRow, RealPids
<1>3. Walk(cmd.pid, t.rows) \subseteq DOMAIN t.rows BY DEF Walk
<1> QED BY <1>2, <1>3 DEF SnapshotFromTable, GroupsInTree

(* The tree that is seen below a process is of the session of the process. *)
LEMMA SessionTree ==
  ASSUME ProcsOK, NEW t \in TableReads, NEW d \in DOMAIN procs
  PROVE  \A p \in Walk(d, t.rows) : p \in DOMAIN t.rows /\ procs[p].ses = procs[d].ses
<1> DEFINE W == {p \in DOMAIN t.rows : procs[p].ses = procs[d].ses}
<1>0. DOMAIN t.rows \subseteq DOMAIN procs /\ \A p \in DOMAIN t.rows : t.rows[p] = procs[p] BY ReadFacts
<1>1. /\ DOMAIN procs \subseteq RealPids
      /\ \A p \in DOMAIN procs :
           procs[p].ppid = 1 \/ (procs[p].ppid \in DOMAIN procs /\ procs[procs[p].ppid].ses = procs[p].ses)
  BY DEF ProcsOK, ProcsGood
<1>2. ASSUME NEW c \in DOMAIN t.rows, c # d, t.rows[c].ppid \in W \cup {d} PROVE c \in W
  <2>1. procs[c].ppid \in DOMAIN procs /\ procs[procs[c].ppid].ses = procs[d].ses BY <1>0, <1>2
  <2>2. procs[c].ppid # 1 BY <1>1, <2>1 DEF RealPids
  <2> QED BY <1>0, <1>1, <2>1, <2>2
<1>3. W \in SUBSET DOMAIN t.rows OBVIOUS
<1> HIDE DEF W
<1>4. Walk(d, t.rows) \subseteq W BY <1>2, <1>3, WalkLeast
<1>5. \A p \in W : p \in DOMAIN t.rows /\ procs[p].ses = procs[d].ses BY DEF W
<1> QED BY <1>4, <1>5

LEMMA StopSnapshotKeeps == ASSUME ControlInv, StopSnapshots PROVE ControlInv'
<1>1. cmd.pc = "snapshot" /\ cmd.op = "stop" /\ UNCHANGED <<procs, fork, row>> /\ UNCHANGED wvars
  BY DEF StopSnapshots, At, wvars
<1>2. CASE Finish("signal_failed") BY <1>1, <1>2, FinishKeeps DEF Results, RowChange, wvars, Looked
<1>3. CASE RequireIdentity
  <2>1. PICK t \in TableReads :
          cmd' = [cmd EXCEPT !.before = SnapshotFromTable(cmd.pid, t.rows),
                             !.groups = GroupsInTree(cmd.pid, t.rows),
                             !.tree = SnapshotFromTable(cmd.pid, procs), !.pc = "signal"]
    BY <1>3 DEF StopSnapshots
  <2>0. ProcsOK /\ RowOK /\ cmd \in CmdType /\ ObsOK /\ TreeOK /\ HitOK BY DEF ControlInv, CmdOK
  <2>2. SnapshotFromTable(cmd.pid, t.rows) \in SUBSET Ids /\ GroupsInTree(cmd.pid, t.rows) \in SUBSET Nat
    BY <2>0, IdFacts
  <2>3. SnapshotFromTable(cmd.pid, procs) \in SUBSET Ids
    <3>1. [rows |-> procs, readable |-> TRUE, complete |-> TRUE] \in TableReads BY DEF TableReads
    <3> QED BY <2>0, <3>1, IdFacts
  <2>4. /\ cmd' \in CmdType /\ cmd'.op = cmd.op /\ cmd'.obs = cmd.obs
        /\ cmd'.before = SnapshotFromTable(cmd.pid, t.rows) /\ cmd'.result = cmd.result
        /\ cmd'.pins = cmd.pins /\ cmd'.hit = cmd.hit /\ cmd'.pc = "signal"
    BY ZenonT(60), <2>0, <2>1, <2>2, <2>3 DEF CmdType, Places
  <2>5. cmd.pid \in DOMAIN procs /\ procs[cmd.pid].ses = cmd.obs.gen BY <1>3, AuthorityFacts
  <2>6. ASSUME NEW i \in cmd'.before
        PROVE  /\ i.tok <= fork
               /\ \A p \in DOMAIN procs : p = i.pid /\ procs[p].tok = i.tok => procs[p].ses = cmd.obs.gen
    <3>1. PICK q \in Walk(cmd.pid, t.rows) : i = Identity(t.rows, q) BY <2>4, <2>6 DEF SnapshotFromTable
    <3>2. q \in DOMAIN t.rows /\ procs[q].ses = cmd.obs.gen BY <2>0, <2>5, SessionTree
    <3>3. q \in DOMAIN procs /\ i.pid = q /\ i.tok = procs[q].tok
      BY <2>0, <3>1, <3>2, ReadFacts DEF Identity
    <3>4. procs[q].tok <= fork BY <2>0, <3>3 DEF ProcsOK, ProcsGood
    <3> QED BY <3>2, <3>3, <3>4
  <2>7. cmd.pins = {} BY <1>1, <2>0 DEF TreeOK
  <2>8. TreeOK' BY <1>1, <2>4, <2>6, <2>7 DEF TreeOK
  <2>9. ProcsOK' BY <1>1, <2>0, StillFacts
  <2>10. RowOK' BY <1>1, <2>0 DEF RowOK, Recorded
  <2>11. ObsOK' BY <1>1, <2>0, <2>4 DEF ObsOK, Recorded
  <2>12. HitOK' BY <1>1, <2>0, <2>4 DEF HitOK, Early
  <2>a. LookOK' BY <1>1, <2>4 DEF LookOK, Wanted
  <2>13. RmOK' /\ SpawnOK' BY <1>1, <2>4 DEF RmOK, SpawnOK
  <2>14. VerifiedOK'
    <3>1. cmd.result # "verified" BY <1>1, <2>0 DEF HitOK
    <3> QED BY <2>4, <3>1 DEF VerifiedOK
  <2> QED BY <2>4, <2>8, <2>9, <2>10, <2>11, <2>12, <2>13, <2>14, <2>a DEF ControlInv, CmdOK
<1> QED BY <1>2, <1>3 DEF StopSnapshots

(* A stop, or a collector, strikes the process it holds, which is its own. *)
LEMMA HeldIsOwn ==
  ASSUME ControlInv, RequireIdentity
  PROVE  /\ Struck(Held) \in SUBSET [tok : Nat, ses : Nat]
         /\ \A h \in Struck(Held) : h.ses = cmd.obs.gen
<1>1. cmd.pid \in DOMAIN procs /\ procs[cmd.pid].ses = cmd.obs.gen BY AuthorityFacts
<1>2. procs[cmd.pid] \in ProcRow BY <1>1 DEF ControlInv, ProcsOK, ProcsGood
<1>3. Held \subseteq {cmd.pid} BY DEF Held
<1>4. \A h \in Struck(Held) : h = [tok |-> procs[cmd.pid].tok, ses |-> procs[cmd.pid].ses]
  BY <1>3 DEF Struck
<1> QED BY <1>1, <1>2, <1>4 DEF ProcRow

LEMMA StopSignalKeeps == ASSUME ControlInv, StopSignals PROVE ControlInv'
<1>1. cmd.pc = "signal" /\ cmd.op = "stop" /\ UNCHANGED wvars BY DEF StopSignals, At
<1>2. CASE Finish("signal_failed") BY <1>1, <1>2, FinishKeeps DEF Results, RowChange, wvars, Looked
<1>3. CASE RequireIdentity
  <2>0. cmd \in CmdType /\ TreeOK /\ HitOK /\ VerifiedOK BY DEF ControlInv, CmdOK
  <2>1. cmd' = [cmd EXCEPT !.hit = cmd.hit \cup Struck(Held), !.pc = "wait"] BY <1>3 DEF StopSignals
  <2>2. /\ Struck(Held) \in SUBSET [tok : Nat, ses : Nat]
        /\ \A h \in Struck(Held) : h.ses = cmd.obs.gen BY <1>3, HeldIsOwn
  <2>a. cmd.hit \cup Struck(Held) \in SUBSET [tok : Nat, ses : Nat] BY <2>0, <2>2 DEF CmdType
  <2>3. /\ cmd' \in CmdType /\ cmd'.op = cmd.op /\ cmd'.obs = cmd.obs /\ cmd'.before = cmd.before
        /\ cmd'.pins = cmd.pins /\ cmd'.hit = cmd.hit \cup Struck(Held) /\ cmd'.pc = "wait"
        /\ cmd'.result = cmd.result BY ZenonT(60), <2>0, <2>1, <2>a DEF CmdType, Places
  <2>4. Kept BY <1>1, <2>0, <2>2, <2>3 DEF Kept, TreeOK, HitOK, Early, Looked
  <2>5. RmOK' /\ SpawnOK' /\ VerifiedOK' BY <1>1, <2>0, <2>3 DEF RmOK, SpawnOK, VerifiedOK, HitOK
  <2> QED BY <1>1, <2>4, <2>5, QuietKeeps DEF wvars, RowChange
<1> QED BY <1>2, <1>3 DEF StopSignals

LEMMA StopWaitKeeps == ASSUME ControlInv, StopWaits PROVE ControlInv'
<1>1. cmd.pc = "wait" /\ cmd.op = "stop" /\ UNCHANGED wvars BY DEF StopWaits, At
<1>2. CASE Finish("still_running") BY <1>1, <1>2, FinishKeeps DEF Results, RowChange, wvars, Looked
<1>3. CASE Goto("cleanup") BY <1>1, <1>3, GotoKeeps DEF Places, Early, RowChange, wvars, Looked
<1> QED BY <1>2, <1>3 DEF StopWaits

(* A step of stop that sets no more than cleaned, groups or left. *)
LEMMA StopStepKeeps ==
  ASSUME ControlInv, UNCHANGED <<procs, fork>>, RowChange, cmd.op = "stop",
         cmd.pc \notin {"term", "kill", "done"}, cmd' \in CmdType, cmd'.op = cmd.op,
         cmd'.obs = cmd.obs, cmd'.before = cmd.before, cmd'.pins = cmd.pins, cmd'.hit = cmd.hit,
         cmd'.result = cmd.result, cmd'.pc \notin Early \cup {"spawn", "done"},
         cmd'.pc = "report" /\ cmd'.left = {} => StillLive(cmd.before, procs) \subseteq cmd'.unseen
  PROVE  ControlInv'
<1>0. TreeOK /\ HitOK BY DEF ControlInv, CmdOK
<1>1. Kept BY <1>0 DEF Kept, TreeOK, HitOK, Looked
<1>2. RmOK' /\ SpawnOK' /\ VerifiedOK' BY <1>0 DEF RmOK, SpawnOK, VerifiedOK, HitOK
<1> QED BY <1>1, <1>2, QuietKeeps

LEMMA StopCleanKeeps == ASSUME ControlInv, StopCleans PROVE ControlInv'
<1>0. cmd \in CmdType /\ RowOK BY DEF ControlInv, CmdOK
<1>1. cmd.pc = "cleanup" /\ cmd.op = "stop" /\ UNCHANGED <<procs, fork>> BY DEF StopCleans, At
<1>2. CASE UNCHANGED row /\ Goto("aftermath") BY <1>1, <1>2, GotoKeeps DEF Places, Early, RowChange, Looked
<1>3. CASE row' = CleanupSocket(row) /\ cmd' = [cmd EXCEPT !.cleaned = TRUE, !.pc = "aftermath"]
  <2>1. RowChange
    <3>1. CASE row.rec.gen # 0 BY <1>0, <1>3, <3>1, EditFacts DEF RowChange
    <3>2. CASE row.rec.gen = 0
      <4>1. row = NoRow BY <1>0, <3>2 DEF RowOK
      <4>2. row' = NoRow BY <1>3, <4>1 DEF CleanupSocket, NoRow
      <4> QED BY <4>2 DEF RowChange
    <3> QED BY <3>1, <3>2
  <2>2. /\ cmd' \in CmdType /\ cmd'.op = cmd.op /\ cmd'.obs = cmd.obs /\ cmd'.before = cmd.before
        /\ cmd'.pins = cmd.pins /\ cmd'.hit = cmd.hit /\ cmd'.pc = "aftermath" /\ cmd'.result = cmd.result
    BY ZenonT(60), <1>0, <1>3 DEF CmdType, Places
  <2> QED BY <1>1, <2>1, <2>2, StopStepKeeps DEF Early
<1> QED BY <1>2, <1>3 DEF StopCleans

(* What the aftermath leaves out has gone, or was not shown to it. *)
LEMMA AftermathFacts ==
  ASSUME ControlInv, NEW t \in TableReads
  PROVE  /\ Aftermath(t) \subseteq cmd.before
         /\ Unseen(t) \subseteq cmd.before
         /\ Aftermath(t) = {} => StillLive(cmd.before, procs) \subseteq Unseen(t)
<1>1. ProcsOK BY DEF ControlInv
<1>2. Aftermath(t) = IF ~t.readable THEN cmd.before ELSE {i \in cmd.before : IsSameProcess(i, t.rows)}
  BY DEF Aftermath
<1>3. DOMAIN t.rows \subseteq DOMAIN procs /\ \A p \in DOMAIN t.rows : t.rows[p] = procs[p] BY <1>1, ReadFacts
<1>4. StillLive(cmd.before, procs) = {i \in cmd.before : IsSameProcess(i, procs)}
  BY DEF StillLive, IsSameProcess
<1>5. \A i : i.pid \in DOMAIN t.rows /\ IsSameProcess(i, procs) => IsSameProcess(i, t.rows)
  BY <1>3 DEF IsSameProcess, StillLive, Process
<1>6. Unseen(t) = IF t.readable THEN {i \in StillLive(cmd.before, procs) : i.pid \notin DOMAIN t.rows} ELSE {}
  BY DEF Unseen
<1> QED BY <1>2, <1>4, <1>5, <1>6

LEMMA StopMeasureKeeps == ASSUME ControlInv, StopMeasures PROVE ControlInv'
<1>0. cmd \in CmdType BY DEF ControlInv, CmdOK
<1>1. cmd.pc = "aftermath" /\ cmd.op = "stop" /\ UNCHANGED wvars BY DEF StopMeasures, At
<1>2. PICK t \in TableReads :
        \/ cmd' = [cmd EXCEPT !.left = Aftermath(t), !.unseen = Unseen(t), !.pc = "report"]
        \/ cmd' = [cmd EXCEPT !.pc = "term"] BY DEF StopMeasures
<1>3. /\ Aftermath(t) \subseteq cmd.before /\ Unseen(t) \subseteq cmd.before
      /\ Aftermath(t) = {} => StillLive(cmd.before, procs) \subseteq Unseen(t) BY AftermathFacts
<1>4. cmd.before \in SUBSET Ids BY <1>0 DEF CmdType
<1>5. /\ cmd' \in CmdType /\ cmd'.op = cmd.op /\ cmd'.obs = cmd.obs /\ cmd'.before = cmd.before
      /\ cmd'.pins = cmd.pins /\ cmd'.hit = cmd.hit /\ cmd'.result = cmd.result
      /\ cmd'.pc \in {"term", "report"} /\ (cmd'.pc = "report" => cmd'.left = Aftermath(t) /\ cmd'.unseen = Unseen(t))
  <2>1. Aftermath(t) \in SUBSET Ids /\ Unseen(t) \in SUBSET Ids BY <1>3, <1>4
  <2> QED BY ZenonT(60), <1>0, <1>2, <2>1 DEF CmdType, Places
<1> QED BY <1>1, <1>3, <1>5, StopStepKeeps DEF Early, wvars, RowChange

LEMMA StopRemeasureKeeps == ASSUME ControlInv, StopRemeasures PROVE ControlInv'
<1>0. cmd \in CmdType /\ ProcsOK BY DEF ControlInv, CmdOK
<1>1. cmd.pc = "remeasure" /\ cmd.op = "stop" /\ UNCHANGED wvars BY DEF StopRemeasures, At
<1>2. PICK t \in TableReads, u \in TableReads :
        cmd' = [cmd EXCEPT !.left = Aftermath(t) \cup
                             {Identity(u.rows, p) : p \in MembersOfGroups(cmd.groups, u.rows)},
                           !.unseen = Unseen(t), !.pc = "report"] BY DEF StopRemeasures
<1> DEFINE X == {Identity(u.rows, p) : p \in MembersOfGroups(cmd.groups, u.rows)}
<1>3. /\ Aftermath(t) \subseteq cmd.before /\ Unseen(t) \subseteq cmd.before
      /\ Aftermath(t) = {} => StillLive(cmd.before, procs) \subseteq Unseen(t) BY AftermathFacts
<1>4. cmd.before \in SUBSET Ids BY <1>0 DEF CmdType
<1>5. X \in SUBSET Ids BY <1>0, IdFacts DEF MembersOfGroups
<1>6. cmd' = [cmd EXCEPT !.left = Aftermath(t) \cup X, !.unseen = Unseen(t), !.pc = "report"] BY <1>2
<1> HIDE DEF X
<1>7. Aftermath(t) \cup X \in SUBSET Ids /\ Unseen(t) \in SUBSET Ids BY <1>3, <1>4, <1>5
<1>8. /\ cmd' \in CmdType /\ cmd'.op = cmd.op /\ cmd'.obs = cmd.obs /\ cmd'.before = cmd.before
      /\ cmd'.pins = cmd.pins /\ cmd'.hit = cmd.hit /\ cmd'.result = cmd.result
      /\ cmd'.pc = "report" /\ cmd'.left = Aftermath(t) \cup X /\ cmd'.unseen = Unseen(t)
  BY ZenonT(60), <1>0, <1>6, <1>7 DEF CmdType, Places
<1>9. cmd'.left = {} => Aftermath(t) = {} BY <1>8
<1> QED BY <1>1, <1>3, <1>8, <1>9, StopStepKeeps DEF Early, wvars, RowChange

LEMMA StopReportKeeps == ASSUME ControlInv, StopReports PROVE ControlInv'
<1>0. VerifiedOK BY DEF ControlInv, CmdOK
<1>1. cmd.pc = "report" /\ cmd.op = "stop" /\ UNCHANGED wvars BY DEF StopReports, At
<1>2. PICK r \in {"signal_failed", "verified", "left"} : Finish(r) /\ (r = "verified" => cmd.left = {})
  BY DEF StopReports
<1>3. Kept /\ cmd'.pc = "done" /\ cmd'.result = r /\ cmd'.before = cmd.before /\ cmd'.unseen = cmd.unseen
  BY <1>1, <1>2, FinishFacts DEF Results, Looked
<1>4. RmOK' /\ SpawnOK' BY <1>3 DEF RmOK, SpawnOK
<1>5. VerifiedOK' BY <1>0, <1>1, <1>2, <1>3 DEF VerifiedOK, wvars
<1> QED BY <1>1, <1>3, <1>4, <1>5, QuietKeeps DEF wvars, RowChange

(* The sweep of the groups: it holds what it remembers, and nothing else. *)
LEMMA SweepOnFacts ==
  ASSUME ControlInv, NEW H \in SUBSET [tok : Nat, ses : Nat], SweepOn([cmd EXCEPT !.hit = H])
  PROVE  /\ cmd' \in CmdType /\ cmd'.op = cmd.op /\ cmd'.obs = cmd.obs /\ cmd'.before = cmd.before
         /\ cmd'.pins = {} /\ cmd'.hit = H /\ cmd'.result = cmd.result
         /\ cmd'.pc \in {"kill", "remeasure"}
<1>0. cmd \in CmdType BY DEF ControlInv, CmdOK
<1> DEFINE c == [cmd EXCEPT !.hit = H]
<1>1. /\ c \in CmdType /\ c.op = cmd.op /\ c.obs = cmd.obs /\ c.before = cmd.before
      /\ c.hit = H /\ c.result = cmd.result BY <1>0 DEF CmdType
<1>2. PICK x \in {"kill", "remeasure"} : cmd' = [c EXCEPT !.pins = {}, !.pc = x] BY DEF SweepOn
<1> HIDE DEF c
<1>3. /\ cmd' \in CmdType /\ cmd'.op = c.op /\ cmd'.obs = c.obs /\ cmd'.before = c.before
      /\ cmd'.pins = {} /\ cmd'.hit = c.hit /\ cmd'.result = c.result /\ cmd'.pc = x
  BY ZenonT(60), <1>1, <1>2 DEF CmdType, Places
<1> QED BY <1>1, <1>3

LEMMA SweepPinKeeps == ASSUME ControlInv, SweepPins PROVE ControlInv'
<1>0. cmd \in CmdType /\ ProcsOK /\ TreeOK /\ HitOK BY DEF ControlInv, CmdOK
<1>1. cmd.pc \in {"term", "kill"} /\ cmd.op = "stop" /\ UNCHANGED wvars BY DEF SweepPins
<1>2. PICK t \in TableReads :
        LET owned == {g \in cmd.groups : GroupIsOwned(g, t)}
            pins == {Identity(t.rows, p) : p \in MembersOfGroups(owned, t.rows)}
        IN  IF pins = {} THEN SweepOn(cmd) ELSE cmd' = [cmd EXCEPT !.pins = pins] BY DEF SweepPins
<1> DEFINE owned == {g \in cmd.groups : GroupIsOwned(g, t)}
           P == {Identity(t.rows, p) : p \in MembersOfGroups(owned, t.rows)}
<1>3. P \subseteq cmd.before
  <2> SUFFICES ASSUME NEW p \in MembersOfGroups(owned, t.rows) PROVE Identity(t.rows, p) \in cmd.before
    OBVIOUS
  <2>1. t.rows[p].pgid \in owned BY DEF MembersOfGroups
  <2>2. GroupIsOwned(t.rows[p].pgid, t) BY <2>1
  <2>3. p \in MembersOfGroups({t.rows[p].pgid}, t.rows) BY DEF MembersOfGroups
  <2> QED BY <2>2, <2>3 DEF GroupIsOwned
<1>4. SweepOn(cmd) \/ cmd' = [cmd EXCEPT !.pins = P] BY <1>2
<1> HIDE DEF P, owned
<1>5. cmd.before \in SUBSET Ids /\ cmd.hit \in SUBSET [tok : Nat, ses : Nat] BY <1>0 DEF CmdType
<1>6. /\ cmd' \in CmdType /\ cmd'.op = cmd.op /\ cmd'.obs = cmd.obs /\ cmd'.before = cmd.before
      /\ cmd'.hit = cmd.hit /\ cmd'.result = cmd.result
      /\ cmd'.pc \in {"term", "kill", "remeasure"}
      /\ cmd'.pins # {} => cmd'.pins = P /\ cmd'.pc = cmd.pc
  <2>1. CASE SweepOn(cmd)
    <3>1. [cmd EXCEPT !.hit = cmd.hit] = cmd BY <1>0 DEF CmdType
    <3> QED BY <1>5, <2>1, <3>1, SweepOnFacts
  <2>2. CASE cmd' = [cmd EXCEPT !.pins = P]
    <3>1. P \in SUBSET Ids BY <1>3, <1>5
    <3> QED BY <1>0, <1>1, <2>2, <3>1 DEF CmdType
  <2> QED BY <1>4, <2>1, <2>2
<1>7. Kept BY <1>0, <1>1, <1>3, <1>6 DEF Kept, HitOK, Early, Looked
<1>8. RmOK' /\ SpawnOK' /\ VerifiedOK' BY <1>0, <1>1, <1>6 DEF RmOK, SpawnOK, VerifiedOK, HitOK
<1> QED BY <1>1, <1>7, <1>8, QuietKeeps DEF wvars, RowChange

LEMMA SweepSignalKeeps == ASSUME ControlInv, SweepSignals PROVE ControlInv'
<1>0. /\ cmd \in CmdType /\ ProcsOK /\ RowOK /\ ObsOK /\ TreeOK /\ HitOK
      /\ fork \in Nat /\ ProcsGood(procs, fork) BY DEF ControlInv, CmdOK, ProcsOK
<1>1. cmd.pc \in {"term", "kill"} /\ cmd.op = "stop" /\ cmd.pins # {} /\ UNCHANGED <<fork, row>>
  BY DEF SweepSignals
<1> DEFINE struck == {i.pid : i \in StillLive(cmd.pins, procs)}
           H == cmd.hit \cup Struck(struck)
<1>2. PICK spared : procs' = Reap(procs, struck \ spared) BY DEF SweepSignals
<1>3. SweepOn([cmd EXCEPT !.hit = H]) BY DEF SweepSignals
<1>4. \A p \in struck : p \in DOMAIN procs /\ procs[p].ses = cmd.obs.gen
  <2> SUFFICES ASSUME NEW i \in StillLive(cmd.pins, procs)
               PROVE  i.pid \in DOMAIN procs /\ procs[i.pid].ses = cmd.obs.gen OBVIOUS
  <2>1. i \in cmd.pins /\ i.pid \in DOMAIN procs /\ procs[i.pid].tok = i.tok BY DEF StillLive, Process
  <2>2. i \in cmd.before BY <1>0, <2>1 DEF TreeOK
  <2> QED BY <1>0, <2>1, <2>2 DEF TreeOK
<1> HIDE DEF struck
<1>5. \A p \in DOMAIN procs : procs[p].tok \in Nat /\ procs[p].ses \in Nat BY <1>0 DEF ProcsGood, ProcRow
<1>6. /\ Struck(struck) \in SUBSET [tok : Nat, ses : Nat]
      /\ \A h \in Struck(struck) : h.ses = cmd.obs.gen BY <1>4, <1>5 DEF Struck
<1>7. /\ H \in SUBSET [tok : Nat, ses : Nat]
      /\ \A h \in H : h.ses = cmd.obs.gen BY <1>0, <1>1, <1>6 DEF CmdType, HitOK
<1> HIDE DEF H
<1>8. /\ cmd' \in CmdType /\ cmd'.op = cmd.op /\ cmd'.obs = cmd.obs /\ cmd'.before = cmd.before
      /\ cmd'.pins = {} /\ cmd'.hit = H /\ cmd'.result = cmd.result
      /\ cmd'.pc \in {"kill", "remeasure"} BY <1>3, <1>7, SweepOnFacts
<1>9. Kept BY <1>0, <1>1, <1>7, <1>8 DEF Kept, HitOK, Early, Looked
<1>10. RmOK' /\ SpawnOK' /\ VerifiedOK' BY <1>0, <1>1, <1>8 DEF RmOK, SpawnOK, VerifiedOK, HitOK
<1>11. ProcsGood(procs', fork) /\ Newer(procs, procs', fork) BY <1>0, <1>2, ReapFacts
<1>12. ProcsOK' /\ fork <= fork' BY <1>0, <1>1, <1>11 DEF ProcsOK
<1>13. RowOK' /\ (row'.rec.gen # 0 => row'.rec.gen = row.rec.gen /\ row'.rec.pid = row.rec.pid)
  BY <1>0, <1>1, <1>11, <1>12, RowFacts DEF RowChange
<1> QED BY <1>0, <1>9, <1>10, <1>11, <1>12, <1>13, StepKeeps DEF ObsOK

----------------------------------------------------------------------------
(* signal. *)

LEMMA SignalLookKeeps == ASSUME ControlInv, SignalLooks PROVE ControlInv'
<1>1. cmd.pc = "idle" /\ cmd.op = "signal" /\ UNCHANGED wvars BY DEF SignalLooks, Ready, At
<1>2. CASE Begin("status", ControlTarget(row.rec)) BY <1>1, <1>2, TargetIsPid, BeginKeeps DEF Places, Wanted
<1>3. CASE Finish("not_running") BY <1>1, <1>3, FinishKeeps DEF Results, RowChange, Looked, wvars
<1> QED BY <1>2, <1>3 DEF SignalLooks

LEMMA SignalAskKeeps == ASSUME ControlInv, SignalAsks PROVE ControlInv'
<1>0. cmd \in CmdType /\ TreeOK /\ HitOK BY DEF ControlInv, CmdOK
<1>1. cmd.pc = "status" /\ cmd.op = "signal" /\ UNCHANGED wvars BY DEF SignalAsks, At
<1>2. CASE Finish("refused") BY <1>1, <1>2, FinishKeeps DEF Results, RowChange, wvars, Looked
<1>3. ASSUME NEW k \in DOMAIN procs, cmd' = [cmd EXCEPT !.pid = k, !.pin = procs[k].tok, !.pc = "send"]
      PROVE  ControlInv'
  <2>1. k \in Nat /\ procs[k].tok \in Nat BY DEF ControlInv, ProcsOK, ProcsGood, ProcRow, RealPids
  <2>2. /\ cmd' \in CmdType /\ cmd'.op = cmd.op /\ cmd'.obs = cmd.obs /\ cmd'.before = cmd.before
        /\ cmd'.pins = cmd.pins /\ cmd'.hit = cmd.hit /\ cmd'.pc = "send" /\ cmd'.result = cmd.result
    BY ZenonT(60), <1>0, <1>3, <2>1 DEF CmdType, Places
  <2>3. Kept BY <1>0, <1>1, <2>2 DEF Kept, TreeOK, HitOK, Early, Looked
  <2>4. RmOK' /\ SpawnOK' /\ VerifiedOK' BY <1>1, <2>2 DEF RmOK, SpawnOK, VerifiedOK
  <2> QED BY <1>1, <2>3, <2>4, QuietKeeps DEF wvars, RowChange
<1> QED BY <1>2, <1>3 DEF SignalAsks

LEMMA SignalSendKeeps == ASSUME ControlInv, SignalSends PROVE ControlInv'
<1>0. cmd \in CmdType /\ TreeOK /\ HitOK BY DEF ControlInv, CmdOK
<1>1. cmd.pc = "send" /\ cmd.op = "signal" /\ UNCHANGED wvars BY DEF SignalSends, At
<1> DEFINE H == Struck({p \in DOMAIN procs : procs[p].pgid = cmd.pid})
<1>2. \A p \in DOMAIN procs : procs[p].tok \in Nat /\ procs[p].ses \in Nat
  BY DEF ControlInv, ProcsOK, ProcsGood, ProcRow
<1>3. H \in SUBSET [tok : Nat, ses : Nat] BY <1>2 DEF Struck
<1>4. cmd' = [cmd EXCEPT !.hit = H, !.pc = "done", !.result = "signalled"] BY DEF SignalSends
<1> HIDE DEF H
<1>5. /\ cmd' \in CmdType /\ cmd'.op = cmd.op /\ cmd'.obs = cmd.obs /\ cmd'.before = cmd.before
      /\ cmd'.pins = cmd.pins /\ cmd'.pc = "done" BY ZenonT(60), <1>0, <1>3, <1>4 DEF CmdType, Places
<1>6. Kept BY <1>0, <1>1, <1>5 DEF Kept, TreeOK, Early, Looked
<1>7. RmOK' /\ SpawnOK' /\ VerifiedOK' BY <1>1, <1>5 DEF RmOK, SpawnOK, VerifiedOK
<1> QED BY <1>1, <1>6, <1>7, QuietKeeps DEF wvars, RowChange

----------------------------------------------------------------------------
(* rm, and the steps that remove under the locks. *)

(* A row that is removed, or let be, by a command that then ends. *)
LEMMA EndKeeps ==
  ASSUME ControlInv, UNCHANGED <<procs, fork>>, UNCHANGED row \/ row' = NoRow,
         cmd.pc \notin {"term", "kill"}, NEW r \in Results, r # "verified", Finish(r), Looked
  PROVE  ControlInv'
BY FinishKeeps DEF RowChange, Looked

LEMMA RemoveLookKeeps == ASSUME ControlInv, RemoveLooks PROVE ControlInv'
<1>0. RowOK BY DEF ControlInv
<1>1. cmd.pc = "idle" /\ cmd.op = "rm" /\ UNCHANGED wvars /\ row # NoRow BY DEF RemoveLooks, Ready, At
<1>2. CASE Finish("refused") BY <1>1, <1>2, EndKeeps DEF Results, wvars, Looked
<1>3. CASE Begin("wait", IF row.sidecar # 0 THEN row.sidecar ELSE row.rec.pid)
  <2>1. row.rec.gen # 0 /\ row.rec.pid \in Nat /\ row.sidecar \in {0, row.rec.pid}
    BY <1>0, <1>1 DEF RowOK, RowType, RecType
  <2>2. (IF row.sidecar # 0 THEN row.sidecar ELSE row.rec.pid) = row.rec.pid BY <2>1
  <2>3. Begin("wait", row.rec.pid) BY <1>3, <2>2
  <2> QED BY <1>1, <2>1, <2>3, BeginKeeps DEF Places, Wanted
<1> QED BY <1>2, <1>3 DEF RemoveLooks

LEMMA RemoveWaitKeeps == ASSUME ControlInv, RemoveWaits PROVE ControlInv'
<1>0. ProcsOK /\ RowOK /\ cmd \in CmdType /\ RmOK /\ ObsOK BY DEF ControlInv, CmdOK
<1>1. cmd.pc = "wait" /\ cmd.op = "rm" /\ UNCHANGED wvars BY DEF RemoveWaits, At
<1>a. UNCHANGED <<procs, fork, row>> BY <1>1 DEF wvars
<1>2. cmd.obs \in RecType /\ Recorded(cmd.obs) /\ cmd.obs.gen # 0 /\ cmd.pid = cmd.obs.pid /\ cmd.pid \in Nat
  BY <1>0, <1>1 DEF CmdType, ObsOK, RmOK
<1> DEFINE check == IF cmd.obs.boot = "none" THEN CheckControlIdentity(cmd.pid, cmd.obs, procs, Boot)
                    ELSE CheckDaemonIdentity(cmd.pid, cmd.obs, procs, Boot)
<1>3. KnownOwnerLost(check) => DaemonOf(cmd.obs) = {} BY <1>0, <1>2, IdentityFacts DEF KnownOwnerLost
<1>4. \/ KnownOwnerLost(check) /\ Goto("remove")
      \/ Finish("unverified") \/ UNCHANGED cmd \/ Finish("did_not_exit") BY DEF RemoveWaits
<1> HIDE DEF check
<1>5. CASE Finish("unverified") \/ Finish("did_not_exit") BY <1>1, <1>a, <1>5, EndKeeps DEF Results, Looked
<1>6. CASE UNCHANGED cmd
  <2>1. ProcsOK' /\ fork <= fork' /\ Newer(procs, procs', fork) BY <1>0, <1>a, StillFacts
  <2>2. RowOK' BY <1>0, <1>a, <2>1, RowFacts DEF RowChange
  <2> QED BY <1>a, <1>6, <2>1, <2>2, WorldKeeps
<1>7. CASE KnownOwnerLost(check) /\ Goto("remove")
  <2>1. /\ Kept /\ cmd'.pc = "remove" /\ cmd'.result = cmd.result /\ cmd'.before = cmd.before
        /\ cmd'.pid = cmd.pid BY <1>1, <1>7, GotoFacts DEF Places, Early, Looked
  <2>2. cmd'.op = cmd.op /\ cmd'.obs = cmd.obs BY <2>1 DEF Kept
  <2>3. DaemonOf(cmd.obs)' = {} BY <1>a, <1>3, <1>7, <2>2 DEF DaemonOf
  <2>4. RmOK' BY <1>2, <2>1, <2>2, <2>3 DEF RmOK
  <2>5. SpawnOK' /\ VerifiedOK' BY <1>1, <2>1, <2>2 DEF SpawnOK, VerifiedOK
  <2> QED BY <1>a, <2>1, <2>4, <2>5, QuietKeeps DEF RowChange
<1> QED BY <1>4, <1>5, <1>6, <1>7

LEMMA RemoveKeeps ==
  ASSUME ControlInv, RemoveRemoves \/ RemoveGeneration \/ ExitEvidence \/ RetireStale
  PROVE  ControlInv'
<1>1. CASE RemoveRemoves BY <1>1, EndKeeps DEF RemoveRemoves, At, Results, Looked
<1>2. CASE RemoveGeneration BY <1>2, EndKeeps DEF RemoveGeneration, Ready, At, Results, Looked
<1>3. CASE RetireStale BY <1>3, EndKeeps DEF RetireStale, Ready, At, Results, Looked
<1>4. CASE ExitEvidence
  <2>1. cmd.pc = "idle" /\ Looked /\ UNCHANGED <<procs, fork, row>>
    BY <1>4 DEF ExitEvidence, Ready, At, wvars, Looked
  <2>2. PICK r \in {"missing", "running", "invalid", "exited", "vanished"} : Finish(r)
    BY <1>4 DEF ExitEvidence
  <2> QED BY <2>1, <2>2, EndKeeps DEF Results, Looked
<1> QED BY <1>1, <1>2, <1>3, <1>4

----------------------------------------------------------------------------
(* The collectors. *)

LEMMA CollectorsLook ==
  ASSUME ControlInv, ReapLooks \/ SweepLooks \/ ReconcileLooks \/ RetentionLooks
  PROVE  ControlInv'
<1>1. cmd.pc = "idle" /\ cmd.op # "rm" /\ UNCHANGED wvars
  BY DEF ReapLooks, SweepLooks, ReconcileLooks, RetentionLooks, Ready, At
<1>2. PICK x \in {"first", "clean", "decide", "act"} : Begin(x, 0)
  BY DEF ReapLooks, SweepLooks, ReconcileLooks, RetentionLooks
<1>3. Wanted(row.rec)
  BY DEF Wanted, ReapLooks, SweepLooks, ReconcileLooks, RetentionLooks, RemovableFinished, Ready, At
<1> QED BY <1>1, <1>2, <1>3, BeginKeeps DEF Places

LEMMA ReapFirstKeeps == ASSUME ControlInv, ReapFirst PROVE ControlInv'
<1>0. ProcsOK /\ RowOK /\ cmd \in CmdType BY DEF ControlInv, CmdOK
<1>1. cmd.pc = "first" /\ cmd.op \in {"orphan", "abandon"} /\ UNCHANGED wvars BY DEF ReapFirst, Reaping
<1>a. UNCHANGED <<procs, fork, row>> BY <1>1 DEF wvars
<1>2. CASE Finish("skipped") BY <1>1, <1>a, <1>2, EndKeeps DEF Results, Looked
<1>3. CASE Goto("second") BY <1>1, <1>a, <1>3, GotoKeeps DEF Places, Early, RowChange, Looked
<1> DEFINE w == IF row.sidecar # 0 THEN row.sidecar ELSE row.rec.pid
<1>4. CASE /\ Eligible /\ DaemonIdentity # "unknown" /\ ~OwnerLost
           /\ cmd' = [cmd EXCEPT !.pid = w, !.pin = procs[w].tok, !.obs = row.rec,
                                 !.auth = "match", !.pc = "signal"]
  <2>1. row.rec.gen # 0 BY <1>4 DEF Eligible, MatchesObservation
  <2>2. w \in DOMAIN procs BY <1>0, <1>4, <2>1, OwnerFacts DEF OwnerLost, KnownOwnerLost
  <2>3. w \in Nat /\ procs[w].tok \in Nat /\ row.rec \in RecType
    BY <1>0, <2>2 DEF ProcsOK, ProcsGood, ProcRow, RealPids, RowOK, RowType
  <2> HIDE DEF w
  <2>4. /\ cmd' \in CmdType /\ cmd'.op = cmd.op /\ cmd'.obs = row.rec /\ cmd'.before = cmd.before
        /\ cmd'.pins = cmd.pins /\ cmd'.hit = cmd.hit /\ cmd'.pc = "signal" /\ cmd'.result = cmd.result
    BY ZenonT(60), <1>0, <1>4, <2>3 DEF CmdType, Places
  <2>5. RmOK' /\ SpawnOK' BY <1>1, <2>4 DEF RmOK, SpawnOK
  <2>6. LookOK' BY <1>1, <1>4, <2>4 DEF LookOK, Wanted, Eligible
  <2> QED BY <1>1, <1>a, <2>4, <2>5, <2>6, LookKeeps DEF Early
<1> QED BY <1>2, <1>3, <1>4 DEF ReapFirst

LEMMA ReapSignalKeeps == ASSUME ControlInv, ReapSignals PROVE ControlInv'
<1>0. cmd \in CmdType /\ TreeOK /\ HitOK BY DEF ControlInv, CmdOK
<1>1. cmd.pc = "signal" /\ cmd.op \in {"orphan", "abandon"} /\ UNCHANGED wvars BY DEF ReapSignals, Reaping
<1>2. CASE Finish("skipped") BY <1>1, <1>2, EndKeeps DEF Results, wvars, Looked
<1>3. CASE RequireIdentity
  <2>1. cmd' = [cmd EXCEPT !.hit = Struck(Held), !.pc = "wait"] BY <1>3 DEF ReapSignals
  <2>2. /\ Struck(Held) \in SUBSET [tok : Nat, ses : Nat]
        /\ \A h \in Struck(Held) : h.ses = cmd.obs.gen BY <1>3, HeldIsOwn
  <2>3. /\ cmd' \in CmdType /\ cmd'.op = cmd.op /\ cmd'.obs = cmd.obs /\ cmd'.before = cmd.before
        /\ cmd'.pins = cmd.pins /\ cmd'.hit = Struck(Held) /\ cmd'.pc = "wait"
        /\ cmd'.result = cmd.result BY ZenonT(60), <1>0, <2>1, <2>2 DEF CmdType, Places
  <2>4. Kept BY <1>0, <1>1, <2>2, <2>3 DEF Kept, TreeOK, HitOK, Early, Looked
  <2>5. RmOK' /\ SpawnOK' /\ VerifiedOK' BY <1>1, <2>3 DEF RmOK, SpawnOK, VerifiedOK
  <2> QED BY <1>1, <2>4, <2>5, QuietKeeps DEF wvars, RowChange
<1> QED BY <1>2, <1>3 DEF ReapSignals

LEMMA ReapEndKeeps == ASSUME ControlInv, ReapWaits \/ ReapSecond PROVE ControlInv'
<1>1. CASE ReapWaits
  <2>1. cmd.pc = "wait" /\ cmd.op # "rm" /\ UNCHANGED <<procs, fork, row>>
    BY <1>1 DEF ReapWaits, Reaping, wvars
  <2>2. CASE Finish("skipped") BY <2>1, <2>2, EndKeeps DEF Results, Looked
  <2>3. CASE Goto("second") BY <2>1, <2>3, GotoKeeps DEF Places, Early, RowChange, Looked
  <2> QED BY <1>1, <2>2, <2>3 DEF ReapWaits
<1>2. CASE ReapSecond BY <1>2, EndKeeps DEF ReapSecond, Results, Looked
<1> QED BY <1>1, <1>2

LEMMA CleanupKeeps == ASSUME ControlInv, CleanupObservedSession PROVE ControlInv'
BY EndKeeps DEF CleanupObservedSession, At, Results, Looked

LEMMA RetentionKeeps == ASSUME ControlInv, RetentionActs PROVE ControlInv'
<1>0. RowOK BY DEF ControlInv
<1>1. cmd.pc = "act" /\ UNCHANGED <<procs, fork>> BY DEF RetentionActs, At
<1>2. CASE UNCHANGED row /\ Finish("stale") BY <1>1, <1>2, EndKeeps DEF Results, Looked
<1>3. CASE /\ MatchesObservation(cmd.obs) /\ Finish("acted")
           /\ row' = NoRow \/ row' = [row EXCEPT !.rec.stamp = TRUE]
  <2>1. row.rec.gen # 0 BY <1>3 DEF MatchesObservation
  <2>2. RowChange BY <1>0, <1>3, <2>1, EditFacts DEF RowChange
  <2> QED BY <1>1, <1>3, <2>2, FinishKeeps DEF Results, Looked
<1> QED BY <1>2, <1>3 DEF RetentionActs

LEMMA ReconcileDecideKeeps == ASSUME ControlInv, ReconcileDecides PROVE ControlInv'
<1>0. RowOK /\ cmd \in CmdType /\ row.rec \in RecType BY SMTT(60) DEF ControlInv, CmdOK, RowOK, RowType
<1>1. cmd.pc = "decide" /\ cmd.op = "reconcile" /\ UNCHANGED <<procs, fork>> BY DEF ReconcileDecides, At
<1>2. ASSUME UNCHANGED row, NEW r \in {"stale", "flapping_skipped", "failed"}, Finish(r) PROVE ControlInv'
  BY <1>1, <1>2, EndKeeps DEF Results, Looked
<1>3. CASE MatchesObservation(cmd.obs) /\ row.rec.perm
  <2>0. row.rec.gen # 0 /\ row.rec.fails \in Nat BY <1>0, <1>3 DEF MatchesObservation, RecType
  <2>1. ASSUME NEW n \in Nat, Finish("flapped"), row' = [row EXCEPT !.rec.flapping = TRUE, !.rec.fails = n]
        PROVE  ControlInv'
    <3>1. RowChange BY <1>0, <2>0, <2>1, EditFacts DEF RowChange
    <3> QED BY <1>1, <2>1, <3>1, FinishKeeps DEF Results, Looked
  <2>2. ASSUME NEW n \in Nat, NEW b \in BOOLEAN, row' = NoRow,
               cmd' = [cmd EXCEPT !.pc = "spawn",
                         !.obs = [row.rec EXCEPT !.fails = n, !.flapping = FALSE, !.perm = b]]
        PROVE  ControlInv'
    <3> DEFINE o == [row.rec EXCEPT !.fails = n, !.flapping = FALSE, !.perm = b]
    <3>1. o \in RecType /\ o.gen = row.rec.gen /\ o.pid = row.rec.pid /\ o.tok = row.rec.tok
      BY <1>0 DEF RecType
    <3>2. cmd' = [cmd EXCEPT !.pc = "spawn", !.obs = o] BY <2>2
    <3> HIDE DEF o
    <3>3. /\ cmd' \in CmdType /\ cmd'.op = cmd.op /\ cmd'.obs = o /\ cmd'.before = cmd.before
          /\ cmd'.pins = cmd.pins /\ cmd'.hit = cmd.hit /\ cmd'.pc = "spawn" /\ cmd'.result = cmd.result
      BY ZenonT(60), <1>0, <3>1, <3>2 DEF CmdType, Places
    <3>5. RmOK' /\ LookOK' BY <1>1, <3>3 DEF RmOK, LookOK, Wanted
    <3>6. SpawnOK' BY <2>0, <2>2, <3>1, <3>3 DEF SpawnOK, NoRow, NoRec, Record
    <3> QED BY <1>1, <2>2, <3>1, <3>3, <3>5, <3>6, LookKeeps DEF Early
  <2>3. CASE ~(MatchesObservation(cmd.obs) /\ row.rec.perm /\ OwnerLost)
    BY <1>2, <2>3 DEF ReconcileDecides
  <2>4. CASE MatchesObservation(cmd.obs) /\ row.rec.perm /\ OwnerLost
    <3>1. PICK fst \in BOOLEAN, changed \in BOOLEAN, b \in BOOLEAN :
            LET fails == IF changed \/ ~fst THEN 0 ELSE row.rec.fails + 1 IN
            \/ UNCHANGED row /\ Finish("failed")
            \/ CASE row.rec.flapping /\ ~changed -> UNCHANGED row /\ Finish("flapping_skipped")
                 [] ~(row.rec.flapping /\ ~changed) /\ fails >= FailLimit ->
                      \/ row' = [row EXCEPT !.rec.flapping = TRUE, !.rec.fails = fails] /\ Finish("flapped")
                      \/ UNCHANGED row /\ Finish("stale")
                 [] OTHER ->
                      /\ row' = NoRow
                      /\ cmd' = [cmd EXCEPT !.pc = "spawn",
                                   !.obs = [row.rec EXCEPT !.fails = fails, !.flapping = FALSE, !.perm = b]]
      BY <2>4 DEF ReconcileDecides
    <3> DEFINE n == IF changed \/ ~fst THEN 0 ELSE row.rec.fails + 1
    <3>2. n \in Nat BY <2>0
    <3>3. \/ UNCHANGED row /\ Finish("flapping_skipped")
          \/ /\ row' = [row EXCEPT !.rec.flapping = TRUE, !.rec.fails = n] /\ Finish("flapped")
          \/ UNCHANGED row /\ (Finish("failed") \/ Finish("stale"))
          \/ /\ row' = NoRow
             /\ cmd' = [cmd EXCEPT !.pc = "spawn",
                          !.obs = [row.rec EXCEPT !.fails = n, !.flapping = FALSE, !.perm = b]]
      BY SMTT(60), <3>1
    <3> HIDE DEF n
    <3> QED BY ZenonT(60), <1>2, <2>1, <2>2, <3>2, <3>3
  <2> QED BY <2>3, <2>4
<1>4. CASE ~(MatchesObservation(cmd.obs) /\ row.rec.perm) BY <1>2, <1>4 DEF ReconcileDecides
<1> QED BY <1>3, <1>4

(* The session is started again, or its record is put back, or lost. *)
Carried == /\ row'.rec.fails = cmd.obs.fails /\ row'.rec.perm = cmd.obs.perm /\ row'.rec.keep = cmd.obs.keep

LEMMA ReconcileSpawnKeeps ==
  ASSUME ControlInv, NEW d \in Pids, NEW c \in Pids, ReconcileSpawns(d, c)
  PROVE  ControlInv' /\ row'.rec.gen # 0 /\ Carried
<1>0. ProcsOK /\ fork \in Nat /\ cmd \in CmdType /\ ObsOK BY DEF ControlInv, CmdOK, ProcsOK
<1>1. /\ cmd.pc = "spawn" /\ d # c /\ d \notin DOMAIN procs /\ c \notin DOMAIN procs
      /\ procs' = Add(Add(procs, d, Proc(fork + 1, 1, d, fork + 1)), c, Proc(fork + 2, d, c, fork + 1))
      /\ fork' = fork + 2 /\ (Finish("respawned") \/ Finish("failed"))
      /\ row' = [rec |-> [Record(fork + 1, d, fork + 1, Boot, cmd.obs.perm) EXCEPT
                            !.fails = cmd.obs.fails, !.keep = cmd.obs.keep],
                 sidecar |-> d, socket |-> TRUE] BY DEF ReconcileSpawns, At
<1>2. d \in Nat /\ cmd.obs.fails \in Nat /\ cmd.obs.perm \in BOOLEAN /\ cmd.obs.keep \in BOOLEAN
  BY <1>0, MachineAssumption DEF CmdType, RecType
<1> DEFINE q0 == Record(fork + 1, d, fork + 1, Boot, cmd.obs.perm)
           q == [q0 EXCEPT !.fails = cmd.obs.fails, !.keep = cmd.obs.keep]
<1>a. fork + 1 \in Nat BY <1>0
<1>b. q0 \in RecType /\ q0.gen = fork + 1 /\ q0.pid = d /\ q0.tok = fork + 1 /\ q0.perm = cmd.obs.perm
  BY <1>2, <1>a DEF Record, RecType, Boot
<1> HIDE DEF q0
<1>3. /\ q \in RecType /\ q.gen = fork + 1 /\ q.pid = d /\ q.tok = fork + 1 /\ q.perm = cmd.obs.perm
      /\ q.fails = cmd.obs.fails /\ q.keep = cmd.obs.keep BY <1>2, <1>b DEF RecType
<1>4. row' = [rec |-> q, sidecar |-> d, socket |-> TRUE] BY <1>1 DEF q0
<1> HIDE DEF q
<1>5. /\ row' \in RowType /\ row'.rec.gen = fork + 1 /\ row'.rec.pid = d /\ row'.rec.tok = fork + 1
      /\ row'.sidecar = d /\ Carried BY <1>2, <1>3, <1>4 DEF RowType, Carried
<1>6. ProcsOK' /\ Newer(procs, procs', fork) /\ RowOK' BY <1>0, <1>1, <1>5, LaunchFacts
<1>7. Kept /\ cmd'.pc = "done" /\ cmd'.result # "verified" BY <1>1, FinishFacts DEF Results, Looked
<1>8. RmOK' /\ SpawnOK' /\ VerifiedOK' BY <1>7 DEF RmOK, SpawnOK, VerifiedOK
<1>9. cmd.obs.gen # 0 => cmd.obs.gen <= fork /\ cmd.obs.gen \in Nat
  BY <1>0 DEF ObsOK, Recorded, CmdType, RecType
<1>10. fork <= fork' /\ row'.rec.gen # 0
  <2>1. fork' = fork + 2 /\ row'.rec.gen = fork + 1 BY <1>1, <1>5
  <2> QED BY <1>0, <2>1
<1>11. ~(cmd.obs.gen # 0 /\ cmd.obs.gen = row'.rec.gen) BY <1>0, <1>5, <1>9
<1> QED BY <1>5, <1>6, <1>7, <1>8, <1>10, <1>11, StepKeeps

LEMMA ReconcileFailKeeps ==
  ASSUME ControlInv, ReconcileFails
  PROVE  ControlInv' /\ cmd'.result = "failed" /\ (row'.rec.gen # 0 => Carried)
<1>0. ProcsOK /\ RowOK /\ cmd \in CmdType /\ ObsOK /\ SpawnOK BY DEF ControlInv, CmdOK
<1>1. cmd.pc = "spawn" /\ Finish("failed") /\ UNCHANGED <<procs, fork>> BY DEF ReconcileFails, At
<1>2. row = NoRow /\ cmd.obs.gen # 0 BY <1>0, <1>1 DEF SpawnOK
<1>7. ProcsOK' /\ fork <= fork' /\ Newer(procs, procs', fork) BY <1>0, <1>1, StillFacts
<1>8. Kept /\ cmd'.pc = "done" /\ cmd'.result = "failed" BY <1>1, FinishFacts DEF Results, Looked
<1>9. RmOK' /\ SpawnOK' /\ VerifiedOK' BY <1>8 DEF RmOK, SpawnOK, VerifiedOK
<1>3. CASE UNCHANGED row
  <2>1. row'.rec.gen = 0 BY <1>2, <1>3, NoRecFacts
  <2> QED BY <1>1, <1>3, <1>8, <1>9, <2>1, QuietKeeps DEF RowChange
<1>4. CASE row' = [row EXCEPT !.rec = cmd.obs]
  <2>3. row' = [rec |-> cmd.obs, sidecar |-> 0, socket |-> FALSE] BY <1>2, <1>4 DEF NoRow, NoRec, Record
  <2>4. cmd.obs \in RecType BY <1>0 DEF CmdType
  <2>5. row' \in RowType /\ row'.rec = cmd.obs /\ row'.sidecar = 0 BY <2>3, <2>4 DEF RowType
  <2>6. RowOK' BY <1>0, <1>1, <1>2, <2>5 DEF RowOK, ObsOK, Recorded
  <2> QED BY <1>2, <1>7, <1>8, <1>9, <2>5, <2>6, StepKeeps DEF Carried
<1> QED BY <1>3, <1>4 DEF ReconcileFails

LEMMA ControlSteps == ASSUME ControlInv, ControlNext PROVE ControlInv'
<1>1. CASE WorldMoves BY <1>1, WorldStepKeeps, LaunchKeeps DEF WorldMoves
<1>2. CASE \E p, q \in Pids : ReconcileSpawns(p, q) BY <1>2, ReconcileSpawnKeeps
<1> QED BY <1>1, <1>2, StopLookKeeps, StopOpenKeeps, StopCheckKeeps, StopTagKeeps, StopSnapshotKeeps,
     StopSignalKeeps, StopWaitKeeps, StopCleanKeeps, StopMeasureKeeps, SweepPinKeeps,
     SweepSignalKeeps, StopRemeasureKeeps, StopReportKeeps, SignalLookKeeps, SignalAskKeeps,
     SignalSendKeeps, RemoveLookKeeps, RemoveWaitKeeps, RemoveKeeps, CollectorsLook,
     ReapFirstKeeps, ReapSignalKeeps, ReapEndKeeps, CleanupKeeps, RetentionKeeps,
     ReconcileDecideKeeps, ReconcileFailKeeps
  DEF ControlNext

LEMMA ControlStands == UNCHANGED cvars /\ ControlInv => ControlInv'
BY DEF cvars, ControlInv, ProcsOK, RowOK, CmdOK, ObsOK, TreeOK, HitOK, RmOK, SpawnOK, VerifiedOK,
       LookOK, Wanted, Recorded, DaemonOf

----------------------------------------------------------------------------
(* The rows. *)

(* An rm that removes the generation it observed removes a lost daemon's. *)
LEMMA RemovedIsLost ==
  ASSUME ControlInv, At("rm", "remove"), row.rec.gen = cmd.obs.gen
  PROVE  ~DaemonLives
<1>0. RowOK /\ ObsOK /\ RmOK BY DEF ControlInv, CmdOK
<1>1. /\ cmd.obs.gen # 0 /\ DaemonOf(cmd.obs) = {} /\ cmd.obs.pid = row.rec.pid
      /\ cmd.obs.tok = cmd.obs.gen /\ row.rec.tok = row.rec.gen
  BY <1>0 DEF At, ObsOK, RmOK, RowOK, Recorded
<1> QED BY <1>1 DEF DaemonLives, DaemonOf

(* The steps of commands that may take a row. *)
Taking == \/ RemoveRemoves \/ RemoveGeneration \/ RetireStale \/ ReapSecond
          \/ CleanupObservedSession \/ ReconcileDecides \/ RetentionActs

LEMMA RowTaken ==
  ASSUME ControlInv, ControlNext, cmd' # cmd, row.rec.gen # 0, row'.rec.gen # row.rec.gen
  PROVE  Taking
<1>0. ProcsOK /\ RowOK /\ SpawnOK BY DEF ControlInv, CmdOK
<1>2. cmd.pc # "spawn" BY <1>0, NoRecFacts DEF SpawnOK
<1>4. ~StopDropsStrategy BY ZenonT(60), <1>0, EditFacts DEF StopDropsStrategy, RowEdited
<1>5. ~StopCleans BY <1>0, EditFacts DEF StopCleans, RowEdited
<1>12. ~WorldMoves BY DEF WorldMoves
<1>13. ~ReconcileFails /\ ~\E p, q \in Pids : ReconcileSpawns(p, q)
  BY <1>2 DEF ReconcileFails, ReconcileSpawns, At
<1>14. ~(\/ StopLooks \/ StopOpens \/ StopChecks \/ StopSnapshots \/ StopSignals \/ StopWaits
         \/ StopMeasures \/ StopRemeasures \/ StopReports)
  BY DEF StopLooks, StopOpens, HandleOpens, StopChecks, StopSnapshots, StopSignals, StopWaits,
       StopMeasures, StopRemeasures, StopReports, wvars
<1>15. ~(SweepPins \/ SweepSignals \/ SignalLooks \/ SignalAsks \/ SignalSends)
  BY DEF SweepPins, SweepSignals, SignalLooks, SignalAsks, SignalSends, wvars
<1>16. ~(\/ RemoveLooks \/ RemoveWaits \/ ExitEvidence \/ ReapLooks \/ ReapFirst \/ ReapSignals
         \/ ReapWaits \/ SweepLooks \/ ReconcileLooks \/ RetentionLooks)
  BY DEF RemoveLooks, RemoveWaits, ExitEvidence, ReapLooks, ReapFirst, ReapSignals, ReapWaits,
       SweepLooks, ReconcileLooks, RetentionLooks, wvars
<1> QED BY <1>4, <1>5, <1>12, <1>13, <1>14, <1>15, <1>16 DEF ControlNext, Taking

LEMMA LiveRowStays == ASSUME ControlInv, ControlNext PROVE LiveSessionKeepsRow
<1> SUFFICES ASSUME cmd' # cmd, DaemonLives, row'.rec.gen # row.rec.gen PROVE FALSE BY DEF LiveSessionKeepsRow
<1>0. ProcsOK /\ RowOK BY DEF ControlInv
<1>1. row.rec.gen # 0 /\ ~OwnerLost BY <1>0, OwnerFacts DEF DaemonLives, DaemonOf
<1>2. Taking BY <1>1, RowTaken
<1>6. ~RemoveRemoves
  <2>1. IsCurrentGenerationOwner(cmd.obs.gen, cmd.pid) => row.rec.gen = cmd.obs.gen
    BY <1>1 DEF IsCurrentGenerationOwner
  <2> QED BY <2>1, RemovedIsLost DEF RemoveRemoves
<1>7. ~RemoveGeneration BY <1>1 DEF RemoveGeneration
<1>8. ~RetireStale BY <1>0, <1>1, OwnerFacts DEF RetireStale
<1>9. ~ReapSecond /\ ~CleanupObservedSession BY SMTT(60), <1>1 DEF ReapSecond, CleanupObservedSession
<1>10. ~ReconcileDecides BY <1>1 DEF ReconcileDecides
<1>11. ~RetentionActs BY <1>1 DEF RetentionActs
<1> QED BY <1>2, <1>6, <1>7, <1>8, <1>9, <1>10, <1>11 DEF Taking

(* What the collectors take, and what a reconcile leaves. *)
LEMMA StayedRows == ASSUME ControlInv, ControlNext PROVE AskedToStay
<1>0. ProcsOK /\ RowOK /\ cmd \in CmdType /\ LookOK BY DEF ControlInv, CmdOK
<1>1. ASSUME cmd.op = "reconcile", cmd.pc = "spawn", cmd'.pc = "done"
      PROVE  IF row'.rec.gen = 0 THEN cmd'.result = "failed" ELSE Carried
  <2>1. cmd' # cmd BY <1>1
  <2>2. ReconcileFails \/ \E p, q \in Pids : ReconcileSpawns(p, q) BY <1>1, <2>1
    DEF ControlNext, WorldMoves, StopLooks, StopOpens, HandleOpens, StopChecks, StopDropsStrategy,
        StopSnapshots, StopSignals, StopWaits, StopCleans, StopMeasures, SweepPins, SweepSignals,
        StopRemeasures, StopReports, SignalLooks, SignalAsks, SignalSends, RemoveLooks,
        RemoveWaits, RemoveRemoves, RemoveGeneration, ExitEvidence, RetireStale, ReapLooks,
        ReapFirst, ReapSignals, ReapWaits, ReapSecond, Reaping, SweepLooks,
        CleanupObservedSession, ReconcileLooks, ReconcileDecides, RetentionLooks, RetentionActs,
        Ready, At
  <2> QED BY <2>2, ReconcileSpawnKeeps, ReconcileFailKeeps
<1>2. ASSUME cmd' # cmd, row.rec.gen # 0, row'.rec.gen = 0
      PROVE  /\ cmd.op = "sweep" => row.rec.gen = cmd.obs.gen /\ ~cmd.obs.perm /\ ~KeepHolds(cmd.obs)
             /\ cmd.op = "abandon" => row.rec.gen = cmd.obs.gen /\ cmd.obs.perm /\ cmd.obs.idle
             /\ cmd.op = "retire" => ~row.rec.perm /\ ~row.rec.keep
             /\ cmd.op = "retain" => ~row.rec.perm /\ cmd.obs.old /\ (row.rec.keep => cmd.obs.spent)
             /\ cmd.op = "reconcile" => row.rec.perm
             /\ cmd.op \notin {"stop", "signal", "evidence"}
  <2>1. Taking BY <1>2, RowTaken
  <2>2. CASE RemoveRemoves \/ RemoveGeneration BY <2>2 DEF RemoveRemoves, RemoveGeneration, Ready, At
  <2>3. CASE RetireStale BY <2>3 DEF RetireStale, Ready, At
  <2>4. CASE ReapSecond
    <3>1. cmd.op \in {"orphan", "abandon"} /\ cmd.pc # "idle" /\ row.rec.gen = cmd.obs.gen
      BY SMTT(60), <1>2, <2>4 DEF ReapSecond, Reaping, MatchesObservation
    <3> QED BY <1>0, <3>1 DEF LookOK, Wanted
  <2>5. CASE CleanupObservedSession
    <3>1. cmd.op = "sweep" /\ cmd.pc # "idle" /\ row.rec.gen = cmd.obs.gen
      BY SMTT(60), <1>2, <2>5 DEF CleanupObservedSession, At, MatchesObservation
    <3> QED BY <1>0, <3>1 DEF LookOK, Wanted
  <2>6. CASE ReconcileDecides BY <1>2, <2>6 DEF ReconcileDecides, At
  <2>7. CASE RetentionActs
    <3>1. /\ cmd.op = "retain" /\ ~row.rec.perm
          /\ row' = IF Decide(row.rec, cmd.obs) = "remove" THEN NoRow ELSE [row EXCEPT !.rec.stamp = TRUE]
      BY SMTT(60), <1>2, <2>7 DEF RetentionActs, At
    <3>2. row' = [row EXCEPT !.rec.stamp = TRUE] => row'.rec.gen = row.rec.gen
      BY <1>0, <1>2, EditFacts DEF RowEdited
    <3>3. Decide(row.rec, cmd.obs) = "remove" BY <1>2, <3>1, <3>2
    <3> QED BY <3>1, <3>3 DEF Decide
  <2> QED BY <2>1, <2>2, <2>3, <2>4, <2>5, <2>6, <2>7 DEF Taking
<1> QED BY <1>1, <1>2 DEF AskedToStay, Carried

----------------------------------------------------------------------------
(* The theorems. *)

RegistryPart == (part = "control" => ControlInv) /\ (part = "freeze" => FreezeInv)

LEMMA RegistryBegins == Init => RegistryPart
BY ControlBegins, FreezeBegins DEF Init, RegistryPart

LEMMA RegistrySteps ==
  ASSUME RegistryPart, [Next]_vars
  PROVE  /\ RegistryPart'
         /\ part = "control" => ControlInv /\ (ControlNext \/ UNCHANGED cvars)
<1>1. /\ part' = part
      /\ part = "control" => ControlNext \/ UNCHANGED cvars
      /\ part = "freeze" => F!FreezeNext \/ UNCHANGED freezeVars
  BY DEF Next, CollectMoves, KeyedMoves, ScanMoves, ControlMoves, FreezeMoves, OwnMoves, SettleMoves,
         TableMoves, vars
<1>2. part = "control" => ControlInv' BY <1>1, ControlSteps, ControlStands DEF RegistryPart
<1>3. part = "freeze" => FreezeInv' BY <1>1, FreezeSteps, FreezeStands DEF RegistryPart
<1> QED BY <1>1, <1>2, <1>3 DEF RegistryPart

(* Whatever the launchers, the users, the machine and time do between two *)
(* steps of a command: a record names one process for good, what a stop *)
(* remembers of a tree was of its session, an rm that is about to remove *)
(* has seen the daemon it observed lost, and a name is empty while its *)
(* permanent session is started again (stop.rs, remove.rs, gc.rs); and a *)
(* freeze that saw its tree stopped has every later child of it in its *)
(* table (process_tree.rs). *)
THEOREM RegistryInvariance == Spec => []RegistryPart
<1>1. RegistryPart /\ [Next]_vars => RegistryPart' BY RegistrySteps
<1> QED BY <1>1, RegistryBegins, PTL DEF Spec

(* Stop and the collectors signal only processes of the session they *)
(* observed, however often its pids were handed out again (stop.rs, gc.rs, *)
(* DaemonHandle). *)
THEOREM StrangersSpared == Spec => [](part = "control" => StrangersAreSpared)
<1>1. RegistryPart => (part = "control" => StrangersAreSpared)
  BY DEF RegistryPart, ControlInv, CmdOK, HitOK, StrangersAreSpared
<1> QED BY <1>1, RegistryInvariance, PTL

(* A tree that is reported frozen is frozen whole, although its rows are *)
(* read one by one while it forks and exits, and may be denied *)
(* (process_tree.rs, freeze_descendants). *)
THEOREM FrozenWhole == Spec => [](part = "freeze" => F!FrozenTreeIsWhole)
<1>1. RegistryPart => (part = "freeze" => F!FrozenTreeIsWhole) BY FreezeWhole DEF RegistryPart
<1> QED BY <1>1, RegistryInvariance, PTL

(* Stop and the collectors signal nobody outside the session they observed *)
(* (stop.rs, gc.rs); a stop that reports its tree verified empty saw every *)
(* process of its snapshot go, but for one whose row was missing from the *)
(* table it read (stop.rs, aftermath); and a tree that is reported frozen *)
(* is frozen whole (process_tree.rs). *)
THEOREM OwnTreesOnly == Spec => []OnlyOwnTreeIsKilled
<1>1. RegistryPart => OnlyOwnTreeIsKilled
  <2> SUFFICES ASSUME RegistryPart PROVE OnlyOwnTreeIsKilled OBVIOUS
  <2>1. part = "control" => StrangersAreSpared /\ VerifiedSnapshotIsGone
    BY DEF RegistryPart, ControlInv, CmdOK, HitOK, VerifiedOK, StrangersAreSpared, VerifiedSnapshotIsGone
  <2>2. part = "freeze" => F!FrozenTreeIsWhole BY FreezeWhole DEF RegistryPart
  <2> QED BY <2>1, <2>2 DEF OnlyOwnTreeIsKilled
<1> QED BY <1>1, RegistryInvariance, PTL

(* No rm, gc or retention sweep that looked earlier takes the row of a *)
(* daemon that lives; gc sweeps nothing that was permanent or kept when it *)
(* looked, retention nothing that is permanent when it removes it, or kept *)
(* and within its longer window; and what reconcile *)
(* leaves of a permanent session carries its tags and fails, where it *)
(* leaves a record (remove.rs, gc.rs, retention.rs). *)
THEOREM RowsKept == Spec => RowsSurvive
<1>1. ASSUME RegistryPart, [Next]_vars
      PROVE  [part = "control" => LiveSessionKeepsRow /\ AskedToStay]_vars
  <2> SUFFICES ASSUME part = "control" PROVE LiveSessionKeepsRow /\ AskedToStay OBVIOUS
  <2>1. ControlInv /\ (ControlNext \/ UNCHANGED cvars) BY <1>1, RegistrySteps
  <2>2. CASE ControlNext BY <2>1, <2>2, LiveRowStays, StayedRows
  <2>3. CASE UNCHANGED cvars BY <2>3 DEF LiveSessionKeepsRow, AskedToStay, cvars
  <2> QED BY <2>1, <2>2, <2>3
<1> QED BY <1>1, RegistryInvariance, PTL DEF Spec, RowsSurvive
=============================================================================
