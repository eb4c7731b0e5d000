-------------------------- MODULE SubstrateProofs --------------------------
(***************************************************************************)
(* Proofs about the pty under a session (PtySubstrate): the streams have   *)
(* every byte of the child in order and within their room, whatever the    *)
(* threads, the child and the readers do, and a signal reaches only the    *)
(* child, because who collects it and who signals it hold the same fence.  *)
(***************************************************************************)
EXTENDS MCSession, TLAPS

----------------------------------------------------------------------------
(* PtySubstrate: what a stream returned and has queued, as one sequence of *)
(* events to which the actor only ever adds. *)

Lives == {"running", "exited"}
Ev == ({"data"} \X Nat) \union ({"closed"} \X {0}) \union ({"life"} \X Lives)
      \union ({"error"} \X {"overflowed", "closed"})
IsData(ev) == ev[1] = "data"
IsClosed(ev) == ev[1] = "closed"
IsExit(ev) == ev[1] = "life" /\ ev[2] = "exited"

(* The bytes of a sequence are lo..hi, each once and in order. *)
Runs(A, lo, hi) ==
  /\ \A i \in 1..Len(A) : IsData(A[i]) => A[i][2] \in lo..hi
  /\ \A i, j \in 1..Len(A) : IsData(A[i]) /\ IsData(A[j]) /\ i < j => A[i][2] < A[j][2]
  /\ \A x \in lo..hi : \E i \in 1..Len(A) : IsData(A[i]) /\ A[i][2] = x
HasClosed(A) == \E i \in 1..Len(A) : IsClosed(A[i])
ClosedLast(A) == \A i, j \in 1..Len(A) : IsClosed(A[i]) /\ IsData(A[j]) => j < i
ExitAfter(A) == \A i \in 1..Len(A) : IsExit(A[i]) => \E j \in 1..Len(A) : IsClosed(A[j]) /\ j < i

LEMMA Appended ==
  ASSUME NEW T, NEW A \in Seq(T), NEW ev \in T
  PROVE  /\ Append(A, ev) \in Seq(T) /\ Len(Append(A, ev)) = Len(A) + 1 /\ Len(A) \in Nat
         /\ \A i \in 1..Len(A) : Append(A, ev)[i] = A[i]
         /\ Append(A, ev)[Len(A) + 1] = ev
OBVIOUS

LEMMA Tailed ==
  ASSUME NEW T, NEW A \in Seq(T), A # <<>>
  PROVE  /\ Tail(A) \in Seq(T) /\ Len(Tail(A)) = Len(A) - 1 /\ Len(A) \in Nat \ {0}
         /\ \A i \in 1..(Len(A) - 1) : Tail(A)[i] = A[i + 1]
         /\ Head(A) = A[1] /\ Head(A) \in T
OBVIOUS

LEMMA RunsKept ==
  ASSUME NEW A \in Seq(Ev), NEW ev \in Ev, ~IsData(ev), NEW lo \in Nat, NEW hi \in Nat, Runs(A, lo, hi)
  PROVE  Runs(Append(A, ev), lo, hi)
<1> DEFINE B == Append(A, ev)
<1> HIDE DEF B
<1>1. /\ Len(B) = Len(A) + 1 /\ Len(A) \in Nat /\ B[Len(A) + 1] = ev
      /\ \A i \in 1..Len(A) : B[i] = A[i] BY Appended DEF B
<1>2. \A i \in 1..Len(B) : IsData(B[i]) => i \in 1..Len(A) /\ B[i] = A[i]
  <2> SUFFICES ASSUME NEW i \in 1..Len(B), IsData(B[i]) PROVE i \in 1..Len(A) /\ B[i] = A[i] OBVIOUS
  <2>1. i # Len(A) + 1 BY <1>1
  <2> QED BY <1>1, <2>1
<1>3. \A i \in 1..Len(A) : i \in 1..Len(B) BY <1>1
<1> QED BY <1>1, <1>2, <1>3 DEF Runs, B

LEMMA RunsGrow ==
  ASSUME NEW A \in Seq(Ev), NEW lo \in Nat, NEW hi \in Nat, lo <= hi + 1, Runs(A, lo, hi),
         NEW ev \in Ev, IsData(ev), ev[2] = hi + 1
  PROVE  Runs(Append(A, ev), lo, hi + 1)
<1> DEFINE B == Append(A, ev)
<1> HIDE DEF B
<1>1. /\ Len(B) = Len(A) + 1 /\ Len(A) \in Nat /\ B[Len(A) + 1] = ev
      /\ \A i \in 1..Len(A) : B[i] = A[i] BY Appended DEF B
<1>2. \A i \in 1..Len(B) : i = Len(A) + 1 \/ (i \in 1..Len(A) /\ B[i] = A[i]) BY <1>1
<1>3. \A i \in 1..Len(B) : IsData(B[i]) => B[i][2] \in lo..(hi + 1) BY <1>1, <1>2 DEF Runs
<1>4. ASSUME NEW i \in 1..Len(B), NEW j \in 1..Len(B), IsData(B[i]), IsData(B[j]), i < j PROVE B[i][2] < B[j][2]
  <2>1. i \in 1..Len(A) /\ B[i] = A[i] BY <1>1, <1>2, <1>4
  <2>2. CASE j = Len(A) + 1 BY SMTT(60), <1>1, <1>4, <2>1, <2>2 DEF Runs
  <2>3. CASE j \in 1..Len(A) /\ B[j] = A[j] BY <1>4, <2>1, <2>3 DEF Runs
  <2> QED BY <1>2, <2>2, <2>3
<1>5. ASSUME NEW x \in lo..(hi + 1) PROVE \E i \in 1..Len(B) : IsData(B[i]) /\ B[i][2] = x
  <2>1. CASE x = hi + 1 BY <1>1, <2>1
  <2>2. CASE x \in lo..hi
    <3>1. PICK i \in 1..Len(A) : IsData(A[i]) /\ A[i][2] = x BY <2>2 DEF Runs
    <3> QED BY <1>1, <3>1
  <2> QED BY <1>5, <2>1, <2>2
<1> QED BY <1>3, <1>4, <1>5 DEF Runs, B

LEMMA EndsKept ==
  ASSUME NEW A \in Seq(Ev), NEW ev \in Ev
  PROVE  /\ ClosedLast(A) /\ (IsData(ev) => ~HasClosed(A)) => ClosedLast(Append(A, ev))
         /\ HasClosed(A) => HasClosed(Append(A, ev))
         /\ IsClosed(ev) => HasClosed(Append(A, ev))
         /\ HasClosed(Append(A, ev)) => HasClosed(A) \/ IsClosed(ev)
         /\ ExitAfter(A) /\ (IsExit(ev) => HasClosed(A)) => ExitAfter(Append(A, ev))
<1> DEFINE B == Append(A, ev)
<1> HIDE DEF B
<1>1. /\ Len(B) = Len(A) + 1 /\ Len(A) \in Nat /\ B[Len(A) + 1] = ev
      /\ \A i \in 1..Len(A) : B[i] = A[i] BY Appended DEF B
<1>2. \A i \in 1..Len(B) : i = Len(A) + 1 \/ (i \in 1..Len(A) /\ B[i] = A[i]) BY <1>1
<1>3. \A i \in 1..Len(A) : i \in 1..Len(B) /\ i < Len(A) + 1 BY <1>1
<1>4. Len(A) + 1 \in 1..Len(B) BY <1>1
<1>5. HasClosed(A) => HasClosed(B) BY <1>1, <1>3 DEF HasClosed
<1>6. IsClosed(ev) => HasClosed(B) BY <1>1, <1>4 DEF HasClosed
<1>7. HasClosed(B) => HasClosed(A) \/ IsClosed(ev) BY <1>1, <1>2 DEF HasClosed
<1>8. ASSUME ExitAfter(A), IsExit(ev) => HasClosed(A) PROVE ExitAfter(B)
  BY <1>1, <1>2, <1>3, <1>8 DEF ExitAfter, HasClosed
<1>9. ASSUME ClosedLast(A), IsData(ev) => ~HasClosed(A) PROVE ClosedLast(B)
  <2> SUFFICES ASSUME NEW i \in 1..Len(B), NEW j \in 1..Len(B), IsClosed(B[i]), IsData(B[j]) PROVE j < i
    BY DEF ClosedLast
  <2>0. ~(IsClosed(ev) /\ IsData(ev)) BY DEF IsClosed, IsData
  <2>1. CASE i = Len(A) + 1 BY <1>1, <1>2, <1>3, <2>0, <2>1
  <2>2. CASE i \in 1..Len(A) /\ B[i] = A[i]
    <3>1. HasClosed(A) BY <2>2 DEF HasClosed
    <3>2. j \in 1..Len(A) /\ B[j] = A[j] BY <1>1, <1>2, <1>9, <3>1
    <3> QED BY <1>9, <2>2, <3>2 DEF ClosedLast
  <2> QED BY <1>2, <2>1, <2>2
<1> QED BY <1>5, <1>6, <1>7, <1>8, <1>9 DEF B
(* What is queued costs what its events cost: the sums c[i] of the costs of *)
(* the first i events end in the cost of all, and never fall. *)
Costs(A, total) ==
  \E c \in [0..Len(A) -> Int] :
    /\ c[0] = 0 /\ c[Len(A)] = total
    /\ \A i \in 1..Len(A) : c[i] = c[i - 1] + X!EventCost(A[i])
    /\ \A i, j \in 0..Len(A) : i <= j => c[i] <= c[j]

LEMMA CostsPositive ==
  ASSUME NEW A \in Seq(Ev), NEW total \in Int, Costs(A, total) PROVE total >= 0
<1>1. Len(A) \in Nat OBVIOUS
<1> QED BY <1>1 DEF Costs

LEMMA CostsNone == Costs(<<>>, 0)
<1> DEFINE c == [i \in 0..0 |-> 0]
<1>1. c \in [0..Len(<<>>) -> Int] OBVIOUS
<1>2. c[0] = 0 /\ Len(<<>>) = 0 OBVIOUS
<1>3. \A i \in 1..Len(<<>>) : FALSE OBVIOUS
<1>4. \A i \in 0..Len(<<>>) : c[i] = 0 OBVIOUS
<1> HIDE DEF c
<1>5. \A i, j \in 0..Len(<<>>) : i <= j => c[i] <= c[j] BY <1>4
<1>6. c[0] = 0 /\ c[Len(<<>>)] = 0 BY <1>2
<1>7. \A i \in 1..Len(<<>>) : c[i] = c[i - 1] + X!EventCost(<<>>[i]) BY <1>3
<1> QED BY <1>1, <1>5, <1>6, <1>7 DEF Costs

LEMMA EventCosts == \A ev \in Ev : X!EventCost(ev) \in {1, 2}
BY DEF X!EventCost

LEMMA CostsGrow ==
  ASSUME NEW A \in Seq(Ev), NEW total \in Int, Costs(A, total), NEW ev \in Ev
  PROVE  Costs(Append(A, ev), total + X!EventCost(ev))
<1> DEFINE B == Append(A, ev)
           k == X!EventCost(ev)
<1> HIDE DEF B, k
<1>1. /\ Len(B) = Len(A) + 1 /\ Len(A) \in Nat /\ B[Len(A) + 1] = ev
      /\ \A i \in 1..Len(A) : B[i] = A[i] BY Appended DEF B
<1>2. k \in {1, 2} BY EventCosts DEF k
<1>3. PICK c \in [0..Len(A) -> Int] :
        /\ c[0] = 0 /\ c[Len(A)] = total
        /\ \A i \in 1..Len(A) : c[i] = c[i - 1] + X!EventCost(A[i])
        /\ \A i, j \in 0..Len(A) : i <= j => c[i] <= c[j] BY DEF Costs
<1> DEFINE c2 == [i \in 0..Len(B) |-> IF i = Len(A) + 1 THEN total + k ELSE c[i]]
<1>4. c2 \in [0..Len(B) -> Int]
  <2>1. \A i \in 0..Len(B) : i # Len(A) + 1 => c[i] \in Int BY <1>1
  <2> QED BY <1>2, <2>1
<1>5. c2[0] = 0 /\ c2[Len(B)] = total + k BY <1>1, <1>3
<1>6. ASSUME NEW i \in 1..Len(B) PROVE c2[i] = c2[i - 1] + X!EventCost(B[i])
  <2>1. CASE i = Len(A) + 1
    <3>1. c2[i] = total + k /\ i - 1 = Len(A) BY <2>1
    <3>2. c2[Len(A)] = c[Len(A)] BY <1>1
    <3> QED BY <1>1, <1>2, <1>3, <2>1, <3>1, <3>2 DEF k
  <2>2. CASE i \in 1..Len(A)
    <3>1. c2[i] = c[i] /\ c2[i - 1] = c[i - 1] BY <1>1, <2>2
    <3> QED BY <1>1, <1>3, <2>2, <3>1
  <2> QED BY SMTT(60), <1>1, <2>1, <2>2
<1>7. ASSUME NEW i \in 0..Len(B), NEW j \in 0..Len(B), i <= j PROVE c2[i] <= c2[j]
  <2>1. CASE j = Len(A) + 1 /\ i = Len(A) + 1 BY <1>2, <1>4, <1>7, <2>1
  <2>2. CASE j = Len(A) + 1 /\ i \in 0..Len(A)
    <3>1. c2[i] = c[i] /\ c[i] \in Int BY <1>1, <2>2
    <3>2. c2[j] = total + k BY <1>1, <2>2
    <3>3. c[i] <= c[Len(A)] BY <1>1, <1>3, <2>2
    <3> QED BY <1>2, <1>3, <3>1, <3>2, <3>3
  <2>3. CASE j \in 0..Len(A) /\ i \in 0..Len(A)
    <3>1. c2[i] = c[i] /\ c2[j] = c[j] BY <1>1, <2>3
    <3> QED BY <1>3, <1>7, <2>3, <3>1
  <2>4. j = Len(A) + 1 \/ j \in 0..Len(A) BY <1>1
  <2>5. i = Len(A) + 1 \/ i \in 0..Len(A) BY <1>1
  <2> QED BY <1>1, <1>7, <2>1, <2>2, <2>3, <2>4, <2>5
<1> HIDE DEF c2
<1> QED BY <1>4, <1>5, <1>6, <1>7 DEF Costs, B, k

LEMMA CostsFall ==
  ASSUME NEW A \in Seq(Ev), A # <<>>, NEW total \in Int, Costs(A, total)
  PROVE  Costs(Tail(A), total - X!EventCost(Head(A)))
<1> DEFINE B == Tail(A)
           k == X!EventCost(Head(A))
<1> HIDE DEF B, k
<1>1. /\ Len(B) = Len(A) - 1 /\ Len(A) \in Nat \ {0}
      /\ \A i \in 1..Len(B) : B[i] = A[i + 1] BY Tailed DEF B
<1>2. k \in {1, 2} /\ k = X!EventCost(A[1]) BY EventCosts, Tailed DEF k
<1>3. PICK c \in [0..Len(A) -> Int] :
        /\ c[0] = 0 /\ c[Len(A)] = total
        /\ \A i \in 1..Len(A) : c[i] = c[i - 1] + X!EventCost(A[i])
        /\ \A i, j \in 0..Len(A) : i <= j => c[i] <= c[j] BY DEF Costs
<1> DEFINE c2 == [i \in 0..Len(B) |-> c[i + 1] - k]
<1>0. c[1] = k
  <2>1. c[1] = c[1 - 1] + X!EventCost(A[1]) BY <1>1, <1>3
  <2> QED BY <1>2, <1>3, <2>1
<1>4. \A i \in 0..Len(B) : i + 1 \in 0..Len(A) /\ c[i + 1] \in Int BY <1>1
<1>5. c2 \in [0..Len(B) -> Int] BY <1>2, <1>4
<1>6. c2[0] = 0 /\ c2[Len(B)] = total - k
  <2>1. c2[0] = c[1] - k BY <1>1
  <2>2. c2[Len(B)] = c[Len(B) + 1] - k /\ Len(B) + 1 = Len(A) BY <1>1
  <2> QED BY <1>0, <1>2, <1>3, <2>1, <2>2
<1>7. ASSUME NEW i \in 1..Len(B) PROVE c2[i] = c2[i - 1] + X!EventCost(B[i])
  <2>1. c2[i] = c[i + 1] - k /\ c2[i - 1] = c[i] - k BY <1>1
  <2>2. c[i + 1] = c[(i + 1) - 1] + X!EventCost(A[i + 1]) BY <1>1, <1>3
  <2>3. (i + 1) - 1 = i /\ B[i] = A[i + 1] BY <1>1
  <2>4. A[i + 1] \in Ev BY <1>1
  <2>5. X!EventCost(A[i + 1]) \in {1, 2} BY <2>4, EventCosts
  <2>6. i \in 0..Len(A) BY <1>1
  <2>7. c[i] \in Int BY <2>6
  <2> QED BY <1>2, <2>1, <2>2, <2>3, <2>5, <2>7
<1>8. ASSUME NEW i \in 0..Len(B), NEW j \in 0..Len(B), i <= j PROVE c2[i] <= c2[j]
  <2>1. c2[i] = c[i + 1] - k /\ c2[j] = c[j + 1] - k BY <1>1
  <2>2. c[i + 1] <= c[j + 1] BY <1>3, <1>4, <1>8
  <2> QED BY <1>2, <1>4, <2>1, <2>2
<1> HIDE DEF c2
<1> QED BY <1>5, <1>6, <1>7, <1>8 DEF Costs, B, k

----------------------------------------------------------------------------
(* One queue and its stream. *)
QueueType ==
  [events : Seq(Ev), queued : Int, reserved : Int, overflowed : BOOLEAN, sender_gone : BOOLEAN,
   receiver_gone : BOOLEAN]
One(b) == IF b THEN 1 ELSE 0

(* The owner's stream has every byte the actor handled (h of the r bytes *)
(* read), is told of the close once, and is never cut.  Its queue has room *)
(* for what was read and for one read more (reading), each byte counted with *)
(* its event.  (reading, closed, late and over are 0 or 1.) *)
OwnersIs(q, g, h, r, reading, closed, late, over) ==
  /\ ~q.overflowed /\ ~q.sender_gone /\ q.reserved = r - h
  /\ Runs(g \o q.events, 1, h) /\ ClosedLast(g \o q.events)
  /\ HasClosed(g \o q.events) <=> closed = 1
  /\ late = 1 \/ ExitAfter(g \o q.events)
  /\ Costs(q.events, q.queued)
  /\ q.queued + 2 * q.reserved + 2 * reading <= 2 * Capacity + closed + over

(* A later stream has a run of the bytes, up to the last one handled while *)
(* the actor still fills it (ons). *)
LatersIs(q, g, h, ons, closed) ==
  /\ q.queued <= Capacity
  /\ ClosedLast(g \o q.events)
  /\ HasClosed(g \o q.events) => closed = 1
  /\ \E lo, hi \in Nat : 1 <= lo /\ lo <= hi + 1 /\ hi <= h /\ (2 \in ons => hi = h) /\ Runs(g \o q.events, lo, hi)

LEMMA Joined ==
  ASSUME NEW A \in Seq(Ev), NEW g \in Seq(Ev), NEW ev \in Ev
  PROVE  /\ g \o A \in Seq(Ev)
         /\ g \o Append(A, ev) = Append(g \o A, ev)
         /\ A # <<>> => Append(g, Head(A)) \o Tail(A) = g \o A /\ Append(g, Head(A)) \in Seq(Ev)
         /\ Append(g, ev) \in Seq(Ev)
         /\ A = <<>> => Append(g, ev) \o A = Append(g \o A, ev)
<1>1. g \o A \in Seq(Ev) OBVIOUS
<1>2. g \o Append(A, ev) = Append(g \o A, ev) OBVIOUS
<1>3. ASSUME A # <<>> PROVE Append(g, Head(A)) \o Tail(A) = g \o A /\ Append(g, Head(A)) \in Seq(Ev)
  <2>1. Head(A) \in Ev /\ Tail(A) \in Seq(Ev) BY <1>3
  <2>2. Append(g, Head(A)) \in Seq(Ev) BY <2>1
  <2>3. Len(Append(g, Head(A)) \o Tail(A)) = Len(g \o A) BY <1>3, <2>1, <2>2
  <2>4. \A i \in 1..Len(g \o A) : (Append(g, Head(A)) \o Tail(A))[i] = (g \o A)[i] BY <1>3, <2>1, <2>2
  <2>5. Append(g, Head(A)) \o Tail(A) \in Seq(Ev) BY <2>1, <2>2
  <2> QED BY <1>1, <2>2, <2>3, <2>4, <2>5
<1>4. Append(g, ev) \in Seq(Ev) OBVIOUS
<1>5. A = <<>> => Append(g, ev) \o A = Append(g \o A, ev) OBVIOUS
<1> QED BY <1>1, <1>2, <1>3, <1>4, <1>5

(* What Actor::broadcast leaves of the queue of a stream it fills. *)
Told(s, q, ev) == [X!Push(s, q, ev) EXCEPT !.sender_gone = X!Refused(s, q, ev)]

LEMMA QueueFields ==
  ASSUME NEW q \in QueueType
  PROVE  /\ q.events \in Seq(Ev) /\ q.queued \in Int /\ q.reserved \in Int
         /\ q.overflowed \in BOOLEAN /\ q.sender_gone \in BOOLEAN /\ q.receiver_gone \in BOOLEAN
BY DEF QueueType

LEMMA ToldTaken ==
  ASSUME NEW s, NEW q \in QueueType, NEW ev \in Ev, ~X!Refused(s, q, ev)
  PROVE  /\ Told(s, q, ev) \in QueueType
         /\ Told(s, q, ev).events = Append(q.events, ev)
         /\ Told(s, q, ev).queued = q.queued + X!EventCost(ev)
         /\ Told(s, q, ev).reserved = X!Reserved(q, ev)
         /\ (Told(s, q, ev).overflowed <=> q.overflowed) /\ ~Told(s, q, ev).sender_gone
         /\ (Told(s, q, ev).receiver_gone <=> q.receiver_gone)
         /\ s = 2 => Told(s, q, ev).queued <= Capacity
<1> DEFINE es == Append(q.events, ev)
           qd == q.queued + X!EventCost(ev)
           rs == X!Reserved(q, ev)
           q1 == [q EXCEPT !.events = es]
           q2 == [q1 EXCEPT !.queued = qd]
           q3 == [q2 EXCEPT !.reserved = rs]
           q4 == [q3 EXCEPT !.sender_gone = FALSE]
<1>1. ~X!Finished(q) /\ ~X!Overflows(s, q, ev) BY DEF X!Refused
<1>2. X!Push(s, q, ev) = q3 BY <1>1 DEF X!Push
<1>3. X!Refused(s, q, ev) = FALSE BY DEF X!Refused, X!Finished, X!Overflows
<1>4. Told(s, q, ev) = q4 BY <1>2, <1>3 DEF Told
<1>5. es \in Seq(Ev) BY QueueFields
<1>6. qd \in Int BY QueueFields, EventCosts
<1>7. rs \in Int BY QueueFields DEF X!Reserved
<1>9. s = 2 => qd <= Capacity
  <2>1. s = 2 => ~(qd > Capacity) BY <1>1 DEF X!Overflows, X!OnFull
  <2> HIDE DEF qd
  <2> QED BY <1>6, <2>1, SessionAssumption
<1> HIDE DEF es, qd, rs
<1>8. q1 \in QueueType /\ q2 \in QueueType /\ q3 \in QueueType /\ q4 \in QueueType
  BY <1>5, <1>6, <1>7 DEF QueueType
<1>10. q4.events = es /\ q4.queued = qd /\ q4.reserved = rs /\ q4.overflowed = q.overflowed
       /\ q4.sender_gone = FALSE /\ q4.receiver_gone = q.receiver_gone BY DEF QueueType
<1> HIDE DEF q1, q2, q3, q4
<1>11. (q4.overflowed <=> q.overflowed) /\ ~q4.sender_gone /\ (q4.receiver_gone <=> q.receiver_gone) BY <1>10
<1> QED BY <1>4, <1>8, <1>9, <1>10, <1>11 DEF es, qd, rs

LEMMA ToldRefused ==
  ASSUME NEW s, NEW q \in QueueType, NEW ev \in Ev, X!Refused(s, q, ev)
  PROVE  /\ Told(s, q, ev) \in QueueType
         /\ Told(s, q, ev).events = q.events
         /\ Told(s, q, ev).queued = q.queued
         /\ (Told(s, q, ev).receiver_gone <=> q.receiver_gone)
<1> DEFINE rs == X!Reserved(q, ev)
           q1 == [q EXCEPT !.overflowed = TRUE]
           q2 == [q1 EXCEPT !.reserved = rs]
           q3 == [q EXCEPT !.sender_gone = TRUE]
           q4 == [q2 EXCEPT !.sender_gone = TRUE]
<1>1. X!Push(s, q, ev) = IF X!Finished(q) THEN q ELSE q2 BY DEF X!Push, X!Refused
<1>2. X!Refused(s, q, ev) = TRUE BY DEF X!Refused, X!Finished, X!Overflows
<1>3. Told(s, q, ev) = IF X!Finished(q) THEN q3 ELSE q4 BY <1>1, <1>2 DEF Told
<1>4. rs \in Int BY QueueFields DEF X!Reserved
<1> HIDE DEF rs
<1>5. q1 \in QueueType /\ q2 \in QueueType /\ q3 \in QueueType /\ q4 \in QueueType BY <1>4 DEF QueueType
<1>6. q3.events = q.events /\ q3.queued = q.queued /\ q3.receiver_gone = q.receiver_gone BY DEF QueueType
<1>7. q4.events = q.events /\ q4.queued = q.queued /\ q4.receiver_gone = q.receiver_gone BY DEF QueueType
<1> HIDE DEF q3, q4
<1>8. (q3.receiver_gone <=> q.receiver_gone) /\ (q4.receiver_gone <=> q.receiver_gone) BY <1>6, <1>7
<1> QED BY <1>3, <1>5, <1>6, <1>7, <1>8

LEMMA SomeRoom == Capacity \in Int /\ Capacity >= 1
BY SessionAssumption

LEMMA Room ==
  ASSUME NEW a \in Int, NEW b \in Int, NEW c \in Int, NEW x \in Int, a + 2 * b + c <= x
  PROVE  (a + 2) + 2 * (b - 1) + c <= x /\ (a + 1) + 2 * b + c <= x + 1
OBVIOUS

LEMMA Whole ==
  ASSUME NEW a \in Int, NEW b \in Int, NEW c \in Int
  PROVE  2 * a \in Int /\ 2 * Capacity + b + c \in Int
BY SomeRoom

LEMMA OwnersTaken ==
  ASSUME NEW q \in QueueType, NEW ev \in Ev, ~q.receiver_gone, ~q.overflowed
  PROVE  ~X!Refused(1, q, ev)
BY QueueFields DEF X!Refused, X!Finished, X!Overflows, X!OnFull

LEMMA OwnersGetData ==
  ASSUME NEW q \in QueueType, NEW g \in Seq(Ev), NEW h \in Nat, NEW r \in Int, h < r, NEW reading \in 0..1,
         NEW late \in 0..1, NEW over \in 0..1, ~q.receiver_gone,
         OwnersIs(q, g, h, r, reading, 0, late, over)
  PROVE  OwnersIs(Told(1, q, <<"data", h + 1>>), g, h + 1, r, reading, 0, late, over)
<1> DEFINE ev == <<"data", h + 1>>
           z == Told(1, q, ev)
           A == g \o q.events
<1>0. ev \in Ev /\ IsData(ev) /\ ev[2] = h + 1 /\ ~IsClosed(ev) /\ ~IsExit(ev)
  BY DEF Ev, IsData, IsClosed, IsExit
<1>1. ~X!Refused(1, q, ev) BY <1>0, OwnersTaken DEF OwnersIs
<1>2. /\ z.events = Append(q.events, ev) /\ z.queued = q.queued + 2 /\ z.reserved = q.reserved - 1
      /\ ~z.overflowed /\ ~z.sender_gone
  <2>1. X!EventCost(ev) = 2 BY DEF X!EventCost
  <2>2. X!Reserved(q, ev) = q.reserved - 1 BY QueueFields DEF X!Reserved, OwnersIs
  <2> HIDE DEF ev
  <2>3. /\ z.events = Append(q.events, ev) /\ z.queued = q.queued + X!EventCost(ev)
        /\ z.reserved = X!Reserved(q, ev) /\ (z.overflowed <=> q.overflowed) /\ ~z.sender_gone
    BY SMTT(60), <1>0, <1>1, ToldTaken
  <2>4. ~q.overflowed BY DEF OwnersIs
  <2> HIDE DEF z
  <2> QED BY <2>1, <2>2, <2>3, <2>4
<1> HIDE DEF ev, z
<1>3. q.events \in Seq(Ev) /\ q.queued \in Int /\ q.reserved \in Int BY QueueFields
<1>4. A \in Seq(Ev) /\ g \o z.events = Append(A, ev)
  <2>1. g \o q.events \in Seq(Ev) /\ g \o Append(q.events, ev) = Append(g \o q.events, ev) BY <1>0, <1>3, Joined
  <2> QED BY <1>2, <2>1
<1>5. Runs(A, 1, h) /\ ClosedLast(A) /\ ~HasClosed(A) /\ (late = 1 \/ ExitAfter(A)) BY DEF OwnersIs
<1> HIDE DEF A
<1>6. Runs(Append(A, ev), 1, h + 1) BY <1>0, <1>4, <1>5, RunsGrow
<1>7. ClosedLast(Append(A, ev)) /\ ~HasClosed(Append(A, ev)) /\ (late = 1 \/ ExitAfter(Append(A, ev)))
  BY <1>0, <1>4, <1>5, EndsKept
<1>8. Costs(z.events, z.queued)
  <2>1. X!EventCost(ev) = 2 BY <1>0 DEF X!EventCost, IsData
  <2> QED BY <1>0, <1>2, <1>3, <2>1, CostsGrow DEF OwnersIs
<1>9. z.reserved = r - (h + 1) BY <1>2, <1>3 DEF OwnersIs
<1>10. z.queued + 2 * z.reserved + 2 * reading <= 2 * Capacity + 0 + over
  <2>1. reading \in Int /\ over \in Int OBVIOUS
  <2>2. q.queued + 2 * q.reserved + 2 * reading <= 2 * Capacity + 0 + over BY DEF OwnersIs
  <2>3. 2 * reading \in Int /\ 2 * Capacity + 0 + over \in Int BY <2>1, Whole
  <2>4. (q.queued + 2) + 2 * (q.reserved - 1) + 2 * reading <= 2 * Capacity + 0 + over
    BY <1>3, <2>2, <2>3, Room
  <2> QED BY <1>2, <2>4
<1>11. HasClosed(g \o z.events) <=> 0 = 1 BY <1>4, <1>7
<1>12. OwnersIs(z, g, h + 1, r, reading, 0, late, over)
  BY <1>2, <1>4, <1>6, <1>7, <1>8, <1>9, <1>10, <1>11 DEF OwnersIs
<1> QED BY <1>12 DEF z, ev

(* An event that is not a byte: the close, or the exit after it. *)
LEMMA OwnersGetEnd ==
  ASSUME NEW q \in QueueType, NEW g \in Seq(Ev), NEW h \in Nat, NEW r \in Int, NEW reading \in 0..1,
         NEW closed \in 0..1, NEW late \in 0..1, NEW over \in 0..1, ~q.receiver_gone,
         OwnersIs(q, g, h, r, reading, closed, late, over),
         NEW ev \in Ev, NEW closed2 \in 0..1, NEW late2 \in 0..1, NEW over2 \in 0..1,
         \/ IsClosed(ev) /\ closed = 0 /\ closed2 = 1 /\ late2 = late /\ over2 = over
         \/ ev[1] = "life" /\ closed2 = closed /\ late <= late2 /\ closed + late2 >= 1 /\ over = 0 /\ over2 = 1
  PROVE  OwnersIs(Told(1, q, ev), g, h, r, reading, closed2, late2, over2)
<1> DEFINE z == Told(1, q, ev)
           A == g \o q.events
<1>1. ~X!Refused(1, q, ev) BY OwnersTaken DEF OwnersIs
<1>0. ~IsData(ev) /\ X!EventCost(ev) = 1 BY DEF IsData, IsClosed, X!EventCost
<1>2. /\ z.events = Append(q.events, ev) /\ z.queued = q.queued + 1 /\ z.reserved = q.reserved
      /\ ~z.overflowed /\ ~z.sender_gone
  <2>2. X!Reserved(q, ev) = q.reserved BY <1>0 DEF X!Reserved, IsData
  <2>3. /\ z.events = Append(q.events, ev) /\ z.queued = q.queued + X!EventCost(ev)
        /\ z.reserved = X!Reserved(q, ev) /\ (z.overflowed <=> q.overflowed) /\ ~z.sender_gone
    BY SMTT(60), <1>1, ToldTaken
  <2>4. ~q.overflowed BY DEF OwnersIs
  <2> HIDE DEF z
  <2> QED BY <1>0, <2>2, <2>3, <2>4
<1> HIDE DEF z
<1>3. q.events \in Seq(Ev) /\ q.queued \in Int /\ q.reserved \in Int BY QueueFields
<1>4. A \in Seq(Ev) /\ g \o z.events = Append(A, ev)
  <2>1. g \o q.events \in Seq(Ev) /\ g \o Append(q.events, ev) = Append(g \o q.events, ev) BY <1>3, Joined
  <2> QED BY <1>2, <2>1
<1>5. Runs(A, 1, h) /\ ClosedLast(A) /\ (HasClosed(A) <=> closed = 1) /\ (late = 1 \/ ExitAfter(A)) BY DEF OwnersIs
<1> HIDE DEF A
<1>6. Runs(Append(A, ev), 1, h) BY <1>0, <1>4, <1>5, RunsKept
<1>7. ClosedLast(Append(A, ev)) BY <1>0, <1>4, <1>5, EndsKept
<1>a. HasClosed(Append(A, ev)) <=> closed2 = 1 BY <1>4, <1>5, EndsKept DEF IsClosed
<1>b. late2 = 1 \/ ExitAfter(Append(A, ev))
  <2>1. late2 = 1 \/ ExitAfter(A) BY <1>5
  <2>2. IsExit(ev) => late2 = 1 \/ HasClosed(A) BY <1>5 DEF IsExit, IsClosed
  <2> QED BY <1>4, <2>1, <2>2, EndsKept
<1>8. Costs(z.events, z.queued) BY <1>0, <1>2, <1>3, CostsGrow DEF OwnersIs
<1>9. z.reserved = r - h BY <1>2, <1>3 DEF OwnersIs
<1>10. z.queued + 2 * z.reserved + 2 * reading <= 2 * Capacity + closed2 + over2
  <2>1. reading \in Int /\ closed \in Int /\ over \in Int OBVIOUS
  <2>2. q.queued + 2 * q.reserved + 2 * reading <= 2 * Capacity + closed + over BY DEF OwnersIs
  <2>3. closed2 + over2 = closed + over + 1 BY DEF IsClosed
  <2>4. closed2 \in Int /\ over2 \in Int OBVIOUS
  <2>5. 2 * reading \in Int /\ 2 * Capacity + closed + over \in Int BY <2>1, Whole
  <2>6. (q.queued + 1) + 2 * q.reserved + 2 * reading <= (2 * Capacity + closed + over) + 1
    BY <1>3, <2>2, <2>5, Room
  <2>7. (2 * Capacity + closed + over) + 1 = 2 * Capacity + closed2 + over2 BY <2>1, <2>3, <2>4, SomeRoom
  <2> QED BY <1>2, <2>6, <2>7
<1> QED BY <1>2, <1>4, <1>6, <1>7, <1>8, <1>9, <1>10, <1>a, <1>b DEF OwnersIs, z

LEMMA LatersGoOn ==
  ASSUME NEW q \in QueueType, NEW g \in Seq(Ev), NEW h \in Nat, NEW h2 \in Nat, h <= h2,
         NEW ons, NEW ons2, 2 \in ons2 => 2 \in ons /\ h2 = h,
         NEW closed \in 0..1, NEW closed2 \in 0..1, closed <= closed2,
         LatersIs(q, g, h, ons, closed)
  PROVE  LatersIs(q, g, h2, ons2, closed2)
<1>1. PICK lo \in Nat, hi \in Nat : 1 <= lo /\ lo <= hi + 1 /\ hi <= h /\ (2 \in ons => hi = h) /\ Runs(g \o q.events, lo, hi)
  BY DEF LatersIs
<1>2. 1 <= lo /\ lo <= hi + 1 /\ hi <= h2 /\ (2 \in ons2 => hi = h2) BY <1>1
<1> QED BY <1>1, <1>2 DEF LatersIs

LEMMA LatersAreRefused ==
  ASSUME NEW q \in QueueType, NEW g \in Seq(Ev), NEW h \in Nat, NEW ons, NEW closed \in 0..1,
         LatersIs(q, g, h, ons, closed), NEW ev \in Ev, X!Refused(2, q, ev)
  PROVE  LatersIs(Told(2, q, ev), g, h, ons, closed)
<1>1. Told(2, q, ev).events = q.events /\ Told(2, q, ev).queued = q.queued BY ToldRefused
<1> QED BY <1>1 DEF LatersIs

LEMMA LatersGetData ==
  ASSUME NEW q \in QueueType, NEW g \in Seq(Ev), NEW h \in Nat, NEW ons, LatersIs(q, g, h, ons, 0),
         NEW ons2, 2 \in ons,
         ~X!Refused(2, q, <<"data", h + 1>>)
  PROVE  LatersIs(Told(2, q, <<"data", h + 1>>), g, h + 1, ons2, 0)
<1> DEFINE ev == <<"data", h + 1>>
           z == Told(2, q, ev)
           A == g \o q.events
<1>0. ev \in Ev /\ IsData(ev) /\ ev[2] = h + 1 /\ ~IsClosed(ev) BY DEF Ev, IsData, IsClosed
<1>2. z.events = Append(q.events, ev) /\ z.queued <= Capacity BY <1>0, ToldTaken
<1> HIDE DEF ev, z
<1>3. q.events \in Seq(Ev) BY QueueFields
<1>4. A \in Seq(Ev) /\ g \o z.events = Append(A, ev)
  <2>1. g \o q.events \in Seq(Ev) /\ g \o Append(q.events, ev) = Append(g \o q.events, ev) BY <1>0, <1>3, Joined
  <2> QED BY <1>2, <2>1
<1>5. ClosedLast(A) /\ ~HasClosed(A) BY DEF LatersIs
<1>6. PICK lo \in Nat, hi \in Nat : 1 <= lo /\ lo <= hi + 1 /\ hi = h /\ Runs(A, lo, hi) BY DEF LatersIs
<1> HIDE DEF A
<1>7. Runs(Append(A, ev), lo, h + 1) BY <1>0, <1>4, <1>6, RunsGrow
<1>8. ClosedLast(Append(A, ev)) /\ ~HasClosed(Append(A, ev)) BY <1>0, <1>4, <1>5, EndsKept
<1>9. 1 <= lo /\ lo <= (h + 1) + 1 /\ h + 1 \in Nat BY <1>6
<1>10. LatersIs(z, g, h + 1, ons2, 0) BY <1>2, <1>4, <1>7, <1>8, <1>9 DEF LatersIs
<1> QED BY <1>10 DEF z, ev

LEMMA LatersGetEnd ==
  ASSUME NEW q \in QueueType, NEW g \in Seq(Ev), NEW h \in Nat, NEW ons, NEW closed \in 0..1,
         LatersIs(q, g, h, ons, closed), NEW ons2, 2 \in ons,
         NEW ev \in Ev, ~IsData(ev), NEW closed2 \in 0..1, closed <= closed2, IsClosed(ev) => closed2 = 1,
         ~X!Refused(2, q, ev)
  PROVE  LatersIs(Told(2, q, ev), g, h, ons2, closed2)
<1> DEFINE z == Told(2, q, ev)
           A == g \o q.events
<1>2. z.events = Append(q.events, ev) /\ z.queued <= Capacity BY ToldTaken
<1> HIDE DEF z
<1>3. q.events \in Seq(Ev) BY QueueFields
<1>4. A \in Seq(Ev) /\ g \o z.events = Append(A, ev)
  <2>1. g \o q.events \in Seq(Ev) /\ g \o Append(q.events, ev) = Append(g \o q.events, ev) BY <1>3, Joined
  <2> QED BY <1>2, <2>1
<1>5. ClosedLast(A) /\ (HasClosed(A) => closed = 1) BY DEF LatersIs
<1>6. PICK lo \in Nat, hi \in Nat : 1 <= lo /\ lo <= hi + 1 /\ hi = h /\ Runs(A, lo, hi) BY DEF LatersIs
<1> HIDE DEF A
<1>7. Runs(Append(A, ev), lo, hi) BY <1>4, <1>6, RunsKept
<1>8. ClosedLast(Append(A, ev)) /\ (HasClosed(Append(A, ev)) => closed2 = 1) BY <1>4, <1>5, EndsKept
<1>10. LatersIs(z, g, h, ons2, closed2) BY <1>2, <1>4, <1>6, <1>7, <1>8 DEF LatersIs
<1> QED BY <1>10 DEF z

(* AttachStream::recv: what it returns only moves from the queue. *)
Popped(q) == [q EXCEPT !.events = Tail(q.events), !.queued = q.queued - X!EventCost(Head(q.events))]

LEMMA PoppedIs ==
  ASSUME NEW q \in QueueType, q.events # <<>>
  PROVE  /\ Popped(q) \in QueueType
         /\ Popped(q).events = Tail(q.events) /\ Popped(q).queued = q.queued - X!EventCost(Head(q.events))
         /\ Popped(q).reserved = q.reserved
         /\ (Popped(q).overflowed <=> q.overflowed) /\ (Popped(q).sender_gone <=> q.sender_gone)
         /\ (Popped(q).receiver_gone <=> q.receiver_gone)
<1> DEFINE es == Tail(q.events)
           qd == q.queued - X!EventCost(Head(q.events))
           q1 == [q EXCEPT !.events = es]
           q2 == [q1 EXCEPT !.queued = qd]
<1>1. Popped(q) = q2 BY DEF Popped
<1>2. es \in Seq(Ev) BY QueueFields
<1>3. qd \in Int
  <2>1. Head(q.events) \in Ev BY QueueFields
  <2> QED BY <2>1, QueueFields, EventCosts
<1> HIDE DEF es, qd
<1>4. q1 \in QueueType /\ q2 \in QueueType BY <1>2, <1>3 DEF QueueType
<1>5. /\ q2.events = es /\ q2.queued = qd /\ q2.reserved = q.reserved /\ q2.overflowed = q.overflowed
      /\ q2.sender_gone = q.sender_gone /\ q2.receiver_gone = q.receiver_gone BY DEF QueueType
<1> HIDE DEF q1, q2
<1>6. /\ (q2.overflowed <=> q.overflowed) /\ (q2.sender_gone <=> q.sender_gone)
      /\ (q2.receiver_gone <=> q.receiver_gone) BY <1>5
<1> QED BY <1>1, <1>4, <1>5, <1>6 DEF es, qd

LEMMA OwnersPop ==
  ASSUME NEW q \in QueueType, NEW g \in Seq(Ev), NEW h \in Nat, NEW r \in Int, NEW reading \in 0..1,
         NEW closed \in 0..1, NEW late \in 0..1, NEW over \in 0..1,
         OwnersIs(q, g, h, r, reading, closed, late, over), q.events # <<>>
  PROVE  OwnersIs(Popped(q), Append(g, Head(q.events)), h, r, reading, closed, late, over)
<1> DEFINE z == Popped(q)
           g2 == Append(g, Head(q.events))
<1>1. /\ z.events = Tail(q.events) /\ z.queued = q.queued - X!EventCost(Head(q.events)) /\ z.reserved = q.reserved
      /\ (z.overflowed <=> q.overflowed) /\ (z.sender_gone <=> q.sender_gone) BY PoppedIs
<1>2. q.events \in Seq(Ev) /\ q.queued \in Int /\ q.reserved \in Int BY QueueFields
<1>3. Head(q.events) \in Ev BY <1>2
<1>4. g2 \o z.events = g \o q.events BY <1>1, <1>2, <1>3, Joined
<1>5. Costs(z.events, z.queued) BY <1>1, <1>2, CostsFall DEF OwnersIs
<1>6. X!EventCost(Head(q.events)) \in {1, 2} BY <1>3, EventCosts
<1> HIDE DEF z, g2
<1>7. z.queued + 2 * z.reserved + 2 * reading <= 2 * Capacity + closed + over
  <2> DEFINE a == q.queued
             b == q.reserved
             c == 2 * reading
             k == X!EventCost(Head(q.events))
             x == 2 * Capacity + closed + over
  <2>1. reading \in Int /\ closed \in Int /\ over \in Int OBVIOUS
  <2>2. a \in Int /\ b \in Int /\ c \in Int /\ x \in Int /\ k \in {1, 2} BY <1>2, <1>6, <2>1, Whole
  <2>3. a + 2 * b + c <= x BY DEF OwnersIs
  <2>4. z.queued = a - k /\ z.reserved = b BY <1>1
  <2> HIDE DEF a, b, c, k, x
  <2>5. (a - k) + 2 * b + c <= x BY <2>2, <2>3
  <2> QED BY <2>4, <2>5 DEF c, x
<1>8. ~q.overflowed /\ ~q.sender_gone /\ z.reserved = r - h BY <1>1 DEF OwnersIs
<1>9. ~z.overflowed /\ ~z.sender_gone BY <1>1, <1>8
<1> QED BY <1>4, <1>5, <1>7, <1>8, <1>9 DEF OwnersIs, z, g2

LEMMA LatersPop ==
  ASSUME NEW q \in QueueType, NEW g \in Seq(Ev), NEW h \in Nat, NEW ons, NEW closed \in 0..1,
         LatersIs(q, g, h, ons, closed), q.events # <<>>
  PROVE  LatersIs(Popped(q), Append(g, Head(q.events)), h, ons, closed)
<1> DEFINE z == Popped(q)
           g2 == Append(g, Head(q.events))
<1>1. z.events = Tail(q.events) /\ z.queued = q.queued - X!EventCost(Head(q.events)) BY PoppedIs
<1>2. q.events \in Seq(Ev) /\ q.queued \in Int BY QueueFields
<1>3. Head(q.events) \in Ev BY <1>2
<1>4. g2 \o z.events = g \o q.events BY <1>1, <1>2, <1>3, Joined
<1>6. X!EventCost(Head(q.events)) \in {1, 2} BY <1>3, EventCosts
<1> HIDE DEF z, g2
<1>7. z.queued <= Capacity
  <2> DEFINE k == X!EventCost(Head(q.events))
  <2>1. k \in {1, 2} /\ q.queued <= Capacity /\ z.queued = q.queued - k BY <1>1, <1>6 DEF LatersIs
  <2> HIDE DEF k
  <2> QED BY <1>2, <2>1, SomeRoom
<1> QED BY <1>4, <1>7 DEF LatersIs, z, g2

(* The end of a stream is told as an error, which is neither byte nor event. *)
LEMMA ErrorsPop ==
  ASSUME NEW q \in QueueType, NEW g \in Seq(Ev), NEW h \in Nat, NEW r \in Int, NEW reading \in 0..1,
         NEW closed \in 0..1, NEW late \in 0..1, NEW over \in 0..1, NEW ons,
         q.events = <<>>, NEW ev \in Ev, ev[1] = "error"
  PROVE  /\ OwnersIs(q, g, h, r, reading, closed, late, over)
              => OwnersIs(q, Append(g, ev), h, r, reading, closed, late, over)
         /\ LatersIs(q, g, h, ons, closed) => LatersIs(q, Append(g, ev), h, ons, closed)
<1> DEFINE A == g \o q.events
<1>1. A \in Seq(Ev) /\ Append(g, ev) \o q.events = Append(A, ev) BY QueueFields, Joined
<1>2. ~IsData(ev) /\ ~IsClosed(ev) /\ ~IsExit(ev) BY DEF IsData, IsClosed, IsExit
<1>3. ASSUME NEW lo \in Nat, NEW hi \in Nat, Runs(A, lo, hi) PROVE Runs(Append(A, ev), lo, hi)
  BY <1>1, <1>2, <1>3, RunsKept
<1>4. /\ ClosedLast(A) => ClosedLast(Append(A, ev))
      /\ HasClosed(A) <=> HasClosed(Append(A, ev))
      /\ ExitAfter(A) => ExitAfter(Append(A, ev)) BY <1>1, <1>2, EndsKept
<1> QED BY <1>1, <1>3, <1>4 DEF OwnersIs, LatersIs

----------------------------------------------------------------------------
(* Both streams, and what a broadcast does to them. *)
StreamsAre(qs, gs, ons, h, r, reading, closed, late, over) ==
  /\ qs \in [X!Streams -> QueueType] /\ gs \in [X!Streams -> Seq(Ev)] /\ ons \subseteq X!Streams
  /\ ~qs[1].receiver_gone => 1 \in ons /\ OwnersIs(qs[1], gs[1], h, r, reading, closed, late, over)
  /\ ~qs[2].receiver_gone => LatersIs(qs[2], gs[2], h, ons, closed)

(* qs2, ons2: the queues and the attachments after ev was sent to ons. *)
SendsTo(qs, ons, ev, qs2, ons2) ==
  /\ qs2 \in [X!Streams -> QueueType] /\ ons2 \subseteq X!Streams
  /\ \A s \in X!Streams :
       /\ s \notin ons => qs2[s] = qs[s] /\ s \notin ons2
       /\ s \in ons => qs2[s] = Told(s, qs[s], ev)
       /\ s \in ons /\ X!Refused(s, qs[s], ev) => s \notin ons2
       /\ s \in ons /\ ~X!Refused(s, qs[s], ev) => s \in ons2
       /\ ~qs2[s].receiver_gone => ~qs[s].receiver_gone

LEMMA BroadcastTold ==
  ASSUME NEW qs \in [X!Streams -> QueueType], NEW ons \in SUBSET X!Streams, NEW ev \in Ev
  PROVE  SendsTo(qs, ons, ev, X!Broadcast(qs, ons, ev), X!Kept(qs, ons, ev))
<1>1. \A s \in X!Streams : X!Broadcast(qs, ons, ev)[s] = IF s \notin ons THEN qs[s] ELSE Told(s, qs[s], ev)
  BY DEF X!Broadcast, Told
<1>2. \A s \in X!Streams : Told(s, qs[s], ev) \in QueueType /\ (Told(s, qs[s], ev).receiver_gone <=> qs[s].receiver_gone)
  BY ToldTaken, ToldRefused
<1>3. X!Broadcast(qs, ons, ev) \in [X!Streams -> QueueType]
  <2>1. X!Broadcast(qs, ons, ev) = [s \in X!Streams |-> IF s \notin ons THEN qs[s] ELSE Told(s, qs[s], ev)]
    BY DEF X!Broadcast, Told
  <2> QED BY <1>2, <2>1
<1>4. X!Kept(qs, ons, ev) = {s \in ons : ~X!Refused(s, qs[s], ev)} BY DEF X!Kept
<1> QED BY <1>1, <1>2, <1>3, <1>4 DEF SendsTo

(* A byte is the next one for every stream that takes it. *)
LEMMA BroadcastData ==
  ASSUME NEW qs, NEW gs, NEW ons, NEW h \in Nat, NEW r \in Int, h < r, NEW reading \in 0..1,
         NEW late \in 0..1, NEW over \in 0..1,
         StreamsAre(qs, gs, ons, h, r, reading, 0, late, over),
         NEW qs2, NEW ons2, SendsTo(qs, ons, <<"data", h + 1>>, qs2, ons2)
  PROVE  StreamsAre(qs2, gs, ons2, h + 1, r, reading, 0, late, over)
<1> DEFINE ev == <<"data", h + 1>>
<1>1. qs \in [X!Streams -> QueueType] /\ gs \in [X!Streams -> Seq(Ev)] /\ ons \in SUBSET X!Streams /\ ev \in Ev
  BY DEF StreamsAre, Ev
<1>2. 1 \in X!Streams /\ 2 \in X!Streams BY DEF X!Streams
<1>3. qs[1] \in QueueType /\ qs[2] \in QueueType /\ gs[1] \in Seq(Ev) /\ gs[2] \in Seq(Ev) BY <1>1, <1>2
<1>4. qs2 \in [X!Streams -> QueueType] /\ ons2 \subseteq X!Streams BY <1>1 DEF SendsTo
<1>9. h <= h + 1 /\ h + 1 \in Nat /\ 0 <= 0 /\ 0 \in 0..1 OBVIOUS
<1>5. ASSUME ~qs2[1].receiver_gone PROVE 1 \in ons2 /\ OwnersIs(qs2[1], gs[1], h + 1, r, reading, 0, late, over)
  <2>1. ~qs[1].receiver_gone BY <1>1, <1>2, <1>5 DEF SendsTo
  <2>2. 1 \in ons /\ OwnersIs(qs[1], gs[1], h, r, reading, 0, late, over) BY <2>1 DEF StreamsAre
  <2>3. ~X!Refused(1, qs[1], ev) BY <1>1, <1>3, <2>1, <2>2, OwnersTaken DEF OwnersIs
  <2>4. qs2[1] = Told(1, qs[1], ev) /\ 1 \in ons2 BY <1>1, <1>2, <2>2, <2>3 DEF SendsTo
  <2>5. OwnersIs(Told(1, qs[1], ev), gs[1], h + 1, r, reading, 0, late, over)
    BY <1>3, <2>1, <2>2, OwnersGetData
  <2> HIDE DEF ev
  <2> QED BY <2>4, <2>5
<1>6. ASSUME ~qs2[2].receiver_gone PROVE LatersIs(qs2[2], gs[2], h + 1, ons2, 0)
  <2>1. ~qs[2].receiver_gone BY <1>1, <1>2, <1>6 DEF SendsTo
  <2>2. LatersIs(qs[2], gs[2], h, ons, 0) BY <2>1 DEF StreamsAre
  <2>3. CASE 2 \notin ons
    <3>1. qs2[2] = qs[2] /\ 2 \notin ons2 BY <1>1, <1>2, <2>3 DEF SendsTo
    <3>2. LatersIs(qs[2], gs[2], h + 1, ons2, 0) BY <1>3, <1>9, <2>2, <3>1, LatersGoOn, Zenon
    <3> HIDE DEF ev
    <3> QED BY <3>1, <3>2
  <2>4. CASE 2 \in ons /\ X!Refused(2, qs[2], ev)
    <3>1. qs2[2] = Told(2, qs[2], ev) /\ 2 \notin ons2 BY <1>1, <1>2, <2>4 DEF SendsTo
    <3>2. LatersIs(Told(2, qs[2], ev), gs[2], h, ons, 0) BY <1>1, <1>3, <2>2, <2>4, LatersAreRefused
    <3>4. Told(2, qs[2], ev) \in QueueType BY <1>1, <1>3, <2>4, ToldRefused
    <3> HIDE DEF ev
    <3>5. LatersIs(Told(2, qs[2], ev), gs[2], h + 1, ons2, 0) BY <1>3, <1>9, <3>1, <3>2, <3>4, LatersGoOn, Zenon
    <3> QED BY <3>1, <3>5
  <2>5. CASE 2 \in ons /\ ~X!Refused(2, qs[2], ev)
    <3>1. qs2[2] = Told(2, qs[2], ev) /\ 2 \in ons2 BY <1>1, <1>2, <2>5 DEF SendsTo
    <3>4. LatersIs(Told(2, qs[2], ev), gs[2], h + 1, ons2, 0) BY <1>3, <2>2, <2>5, LatersGetData
    <3> HIDE DEF ev
    <3> QED BY <3>1, <3>4
  <2> QED BY <2>3, <2>4, <2>5
<1>7. StreamsAre(qs2, gs, ons2, h + 1, r, reading, 0, late, over) BY <1>1, <1>4, <1>5, <1>6 DEF StreamsAre
<1> QED BY <1>7

LEMMA BroadcastEnd ==
  ASSUME NEW qs, NEW gs, NEW ons, NEW h \in Nat, NEW r \in Int, NEW reading \in 0..1,
         NEW closed \in 0..1, NEW late \in 0..1, NEW over \in 0..1,
         StreamsAre(qs, gs, ons, h, r, reading, closed, late, over),
         NEW ev \in Ev, NEW qs2, NEW ons2, SendsTo(qs, ons, ev, qs2, ons2), NEW closed2 \in 0..1, NEW late2 \in 0..1, NEW over2 \in 0..1,
         \/ IsClosed(ev) /\ closed = 0 /\ closed2 = 1 /\ late2 = late /\ over2 = over
         \/ ev[1] = "life" /\ closed2 = closed /\ late <= late2 /\ closed + late2 >= 1 /\ over = 0 /\ over2 = 1
  PROVE  StreamsAre(qs2, gs, ons2, h, r, reading, closed2, late2, over2)
<1>1. qs \in [X!Streams -> QueueType] /\ gs \in [X!Streams -> Seq(Ev)] /\ ons \in SUBSET X!Streams
  BY DEF StreamsAre
<1>2. 1 \in X!Streams /\ 2 \in X!Streams BY DEF X!Streams
<1>3. qs[1] \in QueueType /\ qs[2] \in QueueType /\ gs[1] \in Seq(Ev) /\ gs[2] \in Seq(Ev) BY <1>1, <1>2
<1>4. qs2 \in [X!Streams -> QueueType] /\ ons2 \subseteq X!Streams BY <1>1 DEF SendsTo
<1>0. ~IsData(ev) /\ closed <= closed2 /\ (IsClosed(ev) => closed2 = 1) BY DEF IsData, IsClosed
<1>9. h <= h OBVIOUS
<1>5. ASSUME ~qs2[1].receiver_gone PROVE 1 \in ons2 /\ OwnersIs(qs2[1], gs[1], h, r, reading, closed2, late2, over2)
  <2>1. ~qs[1].receiver_gone BY <1>1, <1>2, <1>5 DEF SendsTo
  <2>2. 1 \in ons /\ OwnersIs(qs[1], gs[1], h, r, reading, closed, late, over) BY <2>1 DEF StreamsAre
  <2>3. ~X!Refused(1, qs[1], ev) BY <1>1, <1>3, <2>1, <2>2, OwnersTaken DEF OwnersIs
  <2>4. qs2[1] = Told(1, qs[1], ev) /\ 1 \in ons2 BY <1>1, <1>2, <2>2, <2>3 DEF SendsTo
  <2>5. OwnersIs(Told(1, qs[1], ev), gs[1], h, r, reading, closed2, late2, over2)
    BY <1>3, <2>1, <2>2, OwnersGetEnd
  <2> QED BY <2>4, <2>5
<1>6. ASSUME ~qs2[2].receiver_gone PROVE LatersIs(qs2[2], gs[2], h, ons2, closed2)
  <2>1. ~qs[2].receiver_gone BY <1>1, <1>2, <1>6 DEF SendsTo
  <2>2. LatersIs(qs[2], gs[2], h, ons, closed) BY <2>1 DEF StreamsAre
  <2>3. CASE 2 \notin ons
    <3>1. qs2[2] = qs[2] /\ 2 \notin ons2 BY <1>1, <1>2, <2>3 DEF SendsTo
    <3>2. LatersIs(qs[2], gs[2], h, ons2, closed2) BY <1>0, <1>3, <1>9, <2>2, <3>1, LatersGoOn, Zenon
    <3> QED BY <3>1, <3>2
  <2>4. CASE 2 \in ons /\ X!Refused(2, qs[2], ev)
    <3>1. qs2[2] = Told(2, qs[2], ev) /\ 2 \notin ons2 BY <1>1, <1>2, <2>4 DEF SendsTo
    <3>2. LatersIs(Told(2, qs[2], ev), gs[2], h, ons, closed) BY <1>3, <2>2, <2>4, LatersAreRefused
    <3>4. Told(2, qs[2], ev) \in QueueType BY <1>3, <2>4, ToldRefused
    <3>5. LatersIs(Told(2, qs[2], ev), gs[2], h, ons2, closed2) BY <1>0, <1>3, <1>9, <3>1, <3>2, <3>4, LatersGoOn, Zenon
    <3> QED BY <3>1, <3>5
  <2>5. CASE 2 \in ons /\ ~X!Refused(2, qs[2], ev)
    <3>1. qs2[2] = Told(2, qs[2], ev) /\ 2 \in ons2 BY <1>1, <1>2, <2>5 DEF SendsTo
    <3>4. LatersIs(Told(2, qs[2], ev), gs[2], h, ons2, closed2) BY <1>0, <1>3, <2>2, <2>5, LatersGetEnd
    <3> QED BY <3>1, <3>4
  <2> QED BY <2>3, <2>4, <2>5
<1>7. StreamsAre(qs2, gs, ons2, h, r, reading, closed2, late2, over2) BY <1>1, <1>4, <1>5, <1>6 DEF StreamsAre
<1> QED BY <1>7

----------------------------------------------------------------------------
(* The actor's channel while the terminal is open: bytes read but not yet *)
(* handled (h of r are), the end of the output after all of them, the exit *)
(* and one attach. *)
Cmd == [t : {"output"}, v : Nat] \union [t : {"closed", "reaped"}, v : {0}]
       \union [t : {"attach"}, v : {2}, stale : BOOLEAN]
Outputs(cs, h, r) ==
  /\ \A i \in 1..Len(cs) : cs[i].t = "output" => cs[i].v \in (h + 1)..r
  /\ \A i, j \in 1..Len(cs) : cs[i].t = "output" /\ cs[j].t = "output" /\ i < j => cs[i].v < cs[j].v
  /\ \A x \in (h + 1)..r : \E i \in 1..Len(cs) : cs[i].t = "output" /\ cs[i].v = x
Closes(cs) ==
  \A i, j \in 1..Len(cs) : cs[i].t = "closed" => (cs[j].t = "output" => j < i) /\ (cs[j].t = "closed" => j = i)
Has(cs, tt) == \E i \in 1..Len(cs) : cs[i].t = tt
Once(cs) == \A i, j \in 1..Len(cs) : cs[i].t = "attach" /\ cs[j].t = "attach" => i = j

LEMMA CommandIn ==
  /\ \A x \in Nat : [t |-> "output", v |-> x] \in Cmd
  /\ [t |-> "closed", v |-> 0] \in Cmd /\ [t |-> "reaped", v |-> 0] \in Cmd
  /\ \A b \in BOOLEAN : [t |-> "attach", v |-> 2, stale |-> b] \in Cmd
BY DEF Cmd

LEMMA CommandTypes ==
  ASSUME NEW c \in Cmd
  PROVE  /\ c.t \in {"output", "closed", "reaped", "attach"}
         /\ c.t = "output" => c.v \in Nat
         /\ c.t = "attach" => c.stale \in BOOLEAN
BY DEF Cmd

LEMMA OutputsRead ==
  ASSUME NEW cs \in Seq(Cmd), NEW h \in Nat, NEW r \in Nat, h <= r, Outputs(cs, h, r),
         NEW c \in Cmd, c.t = "output", c.v = r + 1
  PROVE  Outputs(Append(cs, c), h, r + 1)
<1> DEFINE B == Append(cs, c)
<1> HIDE DEF B
<1>1. /\ Len(B) = Len(cs) + 1 /\ Len(cs) \in Nat /\ B[Len(cs) + 1] = c
      /\ \A i \in 1..Len(cs) : B[i] = cs[i] BY Appended DEF B
<1>2. \A i \in 1..Len(B) : i = Len(cs) + 1 \/ (i \in 1..Len(cs) /\ B[i] = cs[i]) BY <1>1
<1>3. ASSUME NEW i \in 1..Len(B), B[i].t = "output" PROVE B[i].v \in (h + 1)..(r + 1)
  <2>1. CASE i = Len(cs) + 1 BY <1>1, <2>1
  <2>2. CASE i \in 1..Len(cs) /\ B[i] = cs[i] BY <1>3, <2>2 DEF Outputs
  <2> QED BY <1>2, <2>1, <2>2
<1>4. ASSUME NEW i \in 1..Len(B), NEW j \in 1..Len(B), B[i].t = "output", B[j].t = "output", i < j PROVE B[i].v < B[j].v
  <2>1. i \in 1..Len(cs) /\ B[i] = cs[i] BY <1>1, <1>2, <1>4
  <2>2. CASE j = Len(cs) + 1
    <3>1. B[i].v \in (h + 1)..r BY <1>4, <2>1 DEF Outputs
    <3> QED BY <1>1, <2>2, <3>1
  <2>3. CASE j \in 1..Len(cs) /\ B[j] = cs[j] BY <1>4, <2>1, <2>3 DEF Outputs
  <2> QED BY <1>2, <2>2, <2>3
<1>5. ASSUME NEW x \in (h + 1)..(r + 1) PROVE \E i \in 1..Len(B) : B[i].t = "output" /\ B[i].v = x
  <2>1. CASE x = r + 1 BY <1>1, <2>1
  <2>2. CASE x \in (h + 1)..r
    <3>1. PICK i \in 1..Len(cs) : cs[i].t = "output" /\ cs[i].v = x BY <2>2 DEF Outputs
    <3> QED BY <1>1, <3>1
  <2> QED BY <1>5, <2>1, <2>2
<1> QED BY <1>3, <1>4, <1>5 DEF Outputs, B

LEMMA OutputsAsked ==
  ASSUME NEW cs \in Seq(Cmd), NEW h \in Nat, NEW r \in Nat, Outputs(cs, h, r), NEW c \in Cmd, c.t # "output"
  PROVE  Outputs(Append(cs, c), h, r)
<1> DEFINE B == Append(cs, c)
<1> HIDE DEF B
<1>1. /\ Len(B) = Len(cs) + 1 /\ Len(cs) \in Nat /\ B[Len(cs) + 1] = c
      /\ \A i \in 1..Len(cs) : B[i] = cs[i] BY Appended DEF B
<1>2. \A i \in 1..Len(B) : B[i].t = "output" => i \in 1..Len(cs) /\ B[i] = cs[i]
  <2> SUFFICES ASSUME NEW i \in 1..Len(B), B[i].t = "output" PROVE i \in 1..Len(cs) /\ B[i] = cs[i] OBVIOUS
  <2>1. i # Len(cs) + 1 BY <1>1
  <2> QED BY <1>1, <2>1
<1>3. \A i \in 1..Len(cs) : i \in 1..Len(B) BY <1>1
<1> QED BY <1>1, <1>2, <1>3 DEF Outputs, B

(* The first byte in the channel is the next one. *)
LEMMA OutputsNext ==
  ASSUME NEW cs \in Seq(Cmd), cs # <<>>, NEW h \in Nat, NEW r \in Nat, Outputs(cs, h, r), Head(cs).t = "output"
  PROVE  Head(cs).v = h + 1 /\ h < r /\ Outputs(Tail(cs), h + 1, r)
<1> DEFINE B == Tail(cs)
<1> HIDE DEF B
<1>1. /\ Len(B) = Len(cs) - 1 /\ Len(cs) \in Nat \ {0} /\ Head(cs) = cs[1]
      /\ \A i \in 1..Len(B) : B[i] = cs[i + 1] /\ i + 1 \in 1..Len(cs) BY Tailed DEF B
<1>2. cs[1].v \in (h + 1)..r /\ cs[1].t = "output" /\ 1 \in 1..Len(cs) BY <1>1 DEF Outputs
<1>3. h + 1 \in (h + 1)..r /\ h < r BY <1>2
<1>4. PICK k \in 1..Len(cs) : cs[k].t = "output" /\ cs[k].v = h + 1 BY <1>3 DEF Outputs
<1>5. k = 1
  <2>1. CASE 1 < k
    <3>1. cs[1].v < cs[k].v BY <1>2, <1>4, <2>1 DEF Outputs
    <3> QED BY <1>2, <1>4, <3>1
  <2> QED BY <1>1, <2>1
<1>6. cs[1].v = h + 1 BY <1>4, <1>5
<1>7. ASSUME NEW i \in 1..Len(B), B[i].t = "output" PROVE B[i].v \in ((h + 1) + 1)..r
  <2>1. cs[i + 1].v \in (h + 1)..r BY <1>1, <1>7 DEF Outputs
  <2>2. cs[1].v < cs[i + 1].v
    <3>1. 1 < i + 1 /\ i + 1 \in 1..Len(cs) /\ cs[i + 1].t = "output" BY <1>1, <1>7
    <3> QED BY <1>2, <3>1 DEF Outputs
  <2> QED BY <1>1, <1>6, <2>1, <2>2
<1>8. ASSUME NEW i \in 1..Len(B), NEW j \in 1..Len(B), B[i].t = "output", B[j].t = "output", i < j PROVE B[i].v < B[j].v
  <2>1. i + 1 \in 1..Len(cs) /\ j + 1 \in 1..Len(cs) /\ i + 1 < j + 1 BY <1>1, <1>8
  <2>2. cs[i + 1].t = "output" /\ cs[j + 1].t = "output" BY <1>1, <1>8
  <2>3. cs[i + 1].v < cs[j + 1].v BY <2>1, <2>2 DEF Outputs
  <2> QED BY <1>1, <2>3
<1>9. ASSUME NEW x \in ((h + 1) + 1)..r PROVE \E i \in 1..Len(B) : B[i].t = "output" /\ B[i].v = x
  <2>1. PICK i \in 1..Len(cs) : cs[i].t = "output" /\ cs[i].v = x BY <1>9 DEF Outputs
  <2>2. i # 1 BY <1>6, <2>1
  <2>3. i - 1 \in 1..Len(B) /\ (i - 1) + 1 = i BY <1>1, <2>2
  <2> QED BY <1>1, <2>1, <2>3
<1> QED BY <1>1, <1>3, <1>6, <1>7, <1>8, <1>9 DEF Outputs, B

LEMMA OutputsLater ==
  ASSUME NEW cs \in Seq(Cmd), cs # <<>>, NEW h \in Nat, NEW r \in Nat, Outputs(cs, h, r), Head(cs).t # "output"
  PROVE  Outputs(Tail(cs), h, r)
<1> DEFINE B == Tail(cs)
<1> HIDE DEF B
<1>1. /\ Len(B) = Len(cs) - 1 /\ Len(cs) \in Nat \ {0} /\ Head(cs) = cs[1]
      /\ \A i \in 1..Len(B) : B[i] = cs[i + 1] /\ i + 1 \in 1..Len(cs) BY Tailed DEF B
<1>9. ASSUME NEW x \in (h + 1)..r PROVE \E i \in 1..Len(B) : B[i].t = "output" /\ B[i].v = x
  <2>1. PICK i \in 1..Len(cs) : cs[i].t = "output" /\ cs[i].v = x BY <1>9 DEF Outputs
  <2>2. i # 1 BY <1>1, <2>1
  <2>3. i - 1 \in 1..Len(B) /\ (i - 1) + 1 = i BY <1>1, <2>2
  <2> QED BY <1>1, <2>1, <2>3
<1>7. ASSUME NEW i \in 1..Len(B), B[i].t = "output" PROVE B[i].v \in (h + 1)..r BY <1>1, <1>7 DEF Outputs
<1>8. ASSUME NEW i \in 1..Len(B), NEW j \in 1..Len(B), B[i].t = "output", B[j].t = "output", i < j PROVE B[i].v < B[j].v
  <2>1. i + 1 \in 1..Len(cs) /\ j + 1 \in 1..Len(cs) /\ i + 1 < j + 1 BY <1>1, <1>8
  <2>2. cs[i + 1].t = "output" /\ cs[j + 1].t = "output" BY <1>1, <1>8
  <2>3. cs[i + 1].v < cs[j + 1].v BY <2>1, <2>2 DEF Outputs
  <2> QED BY <1>1, <2>3
<1> QED BY <1>7, <1>8, <1>9 DEF Outputs, B

LEMMA AskedKept ==
  ASSUME NEW cs \in Seq(Cmd), NEW c \in Cmd
  PROVE  /\ Append(cs, c) \in Seq(Cmd)
         /\ \A tt : Has(cs, tt) => Has(Append(cs, c), tt)
         /\ \A tt : Has(Append(cs, c), tt) => Has(cs, tt) \/ c.t = tt
         /\ Closes(cs) /\ (c.t \in {"output", "closed"} => ~Has(cs, "closed")) => Closes(Append(cs, c))
         /\ Once(cs) /\ (c.t = "attach" => ~Has(cs, "attach")) => Once(Append(cs, c))
<1> DEFINE B == Append(cs, c)
<1> HIDE DEF B
<1>1. /\ Len(B) = Len(cs) + 1 /\ Len(cs) \in Nat /\ B[Len(cs) + 1] = c /\ B \in Seq(Cmd)
      /\ \A i \in 1..Len(cs) : B[i] = cs[i] BY Appended DEF B
<1>2. \A i \in 1..Len(B) : i = Len(cs) + 1 \/ (i \in 1..Len(cs) /\ B[i] = cs[i]) BY <1>1
<1>3. \A i \in 1..Len(cs) : i \in 1..Len(B) /\ i < Len(cs) + 1 BY <1>1
<1>4. \A tt : Has(cs, tt) => Has(B, tt) BY <1>1, <1>3 DEF Has
<1>5. \A tt : Has(B, tt) => Has(cs, tt) \/ c.t = tt BY <1>1, <1>2 DEF Has
<1>6. ASSUME Closes(cs), c.t \in {"output", "closed"} => ~Has(cs, "closed"),
             NEW i \in 1..Len(B), NEW j \in 1..Len(B), B[i].t = "closed", B[j].t \in {"output", "closed"}
      PROVE  (B[j].t = "output" => j < i) /\ (B[j].t = "closed" => j = i)
  <2>1. CASE i = Len(cs) + 1 /\ j = Len(cs) + 1 BY <1>1, <1>6, <2>1
  <2>2. CASE i = Len(cs) + 1 /\ j \in 1..Len(cs) /\ B[j] = cs[j]
    <3>1. c.t = "closed" BY <1>1, <1>6, <2>2
    <3>2. cs[j].t # "closed" BY <1>6, <2>2, <3>1 DEF Has
    <3> QED BY <1>3, <2>2, <3>2
  <2>3. CASE i \in 1..Len(cs) /\ B[i] = cs[i] /\ j = Len(cs) + 1
    <3>1. Has(cs, "closed") BY <1>6, <2>3 DEF Has
    <3> QED BY <1>1, <1>6, <2>3, <3>1
  <2>4. CASE i \in 1..Len(cs) /\ B[i] = cs[i] /\ j \in 1..Len(cs) /\ B[j] = cs[j] BY <1>6, <2>4 DEF Closes
  <2> QED BY <1>2, <2>1, <2>2, <2>3, <2>4
<1>7. ASSUME Once(cs), c.t = "attach" => ~Has(cs, "attach"),
             NEW i \in 1..Len(B), NEW j \in 1..Len(B), B[i].t = "attach", B[j].t = "attach"
      PROVE  i = j
  <2>1. CASE i = Len(cs) + 1 /\ j = Len(cs) + 1 BY <2>1
  <2>2. CASE i = Len(cs) + 1 /\ j \in 1..Len(cs) /\ B[j] = cs[j] BY <1>1, <1>7, <2>2 DEF Has
  <2>3. CASE i \in 1..Len(cs) /\ B[i] = cs[i] /\ j = Len(cs) + 1 BY <1>1, <1>7, <2>3 DEF Has
  <2>4. CASE i \in 1..Len(cs) /\ B[i] = cs[i] /\ j \in 1..Len(cs) /\ B[j] = cs[j] BY <1>7, <2>4 DEF Once
  <2> QED BY <1>2, <2>1, <2>2, <2>3, <2>4
<1>8. Closes(cs) /\ (c.t \in {"output", "closed"} => ~Has(cs, "closed")) => Closes(B) BY <1>6 DEF Closes
<1>9. Once(cs) /\ (c.t = "attach" => ~Has(cs, "attach")) => Once(B) BY <1>7 DEF Once
<1> QED BY <1>1, <1>4, <1>5, <1>8, <1>9 DEF B

LEMMA TakenKept ==
  ASSUME NEW cs \in Seq(Cmd), cs # <<>>
  PROVE  /\ Tail(cs) \in Seq(Cmd) /\ Head(cs) \in Cmd /\ Has(cs, Head(cs).t)
         /\ \A tt : Has(Tail(cs), tt) => Has(cs, tt)
         /\ Closes(cs) => Closes(Tail(cs))
         /\ Once(cs) => Once(Tail(cs))
         /\ Closes(cs) /\ Head(cs).t = "closed" => ~Has(Tail(cs), "closed") /\ ~Has(Tail(cs), "output")
         /\ Once(cs) /\ Head(cs).t = "attach" => ~Has(Tail(cs), "attach")
<1> DEFINE B == Tail(cs)
<1> HIDE DEF B
<1>1. /\ Len(B) = Len(cs) - 1 /\ Len(cs) \in Nat \ {0} /\ Head(cs) = cs[1] /\ B \in Seq(Cmd) /\ Head(cs) \in Cmd
      /\ \A i \in 1..Len(B) : B[i] = cs[i + 1] /\ i + 1 \in 1..Len(cs) /\ i + 1 > 1
      /\ 1 \in 1..Len(cs) BY Tailed DEF B
<1>2. Has(cs, Head(cs).t) BY <1>1 DEF Has
<1>3. \A tt : Has(B, tt) => Has(cs, tt) BY <1>1 DEF Has
<1>4. ASSUME Closes(cs), NEW i \in 1..Len(B), NEW j \in 1..Len(B), B[i].t = "closed"
      PROVE  (B[j].t = "output" => j < i) /\ (B[j].t = "closed" => j = i)
  <2>1. /\ cs[j + 1].t = "output" => j + 1 < i + 1
        /\ cs[j + 1].t = "closed" => j + 1 = i + 1 BY <1>1, <1>4 DEF Closes
  <2> QED BY <1>1, <2>1
<1>5. ASSUME Once(cs), NEW i \in 1..Len(B), NEW j \in 1..Len(B), B[i].t = "attach", B[j].t = "attach" PROVE i = j
  <2>1. i + 1 = j + 1 BY <1>1, <1>5 DEF Once
  <2> QED BY <1>1, <2>1
<1>6. ASSUME Closes(cs), Head(cs).t = "closed", NEW i \in 1..Len(B) PROVE B[i].t # "closed" /\ B[i].t # "output"
  BY <1>1, <1>6 DEF Closes
<1>7. ASSUME Once(cs), Head(cs).t = "attach", NEW i \in 1..Len(B) PROVE B[i].t # "attach"
  BY <1>1, <1>7 DEF Once
<1>8. Closes(cs) => Closes(B) BY <1>4 DEF Closes
<1>9. Once(cs) => Once(B) BY <1>5 DEF Once
<1>10. Closes(cs) /\ Head(cs).t = "closed" => ~Has(B, "closed") /\ ~Has(B, "output") BY <1>6 DEF Has
<1>11. Once(cs) /\ Head(cs).t = "attach" => ~Has(B, "attach") BY <1>7 DEF Has
<1> QED BY <1>1, <1>2, <1>3, <1>8, <1>9, <1>10, <1>11 DEF B

----------------------------------------------------------------------------
(* The fence and the pin: whom a signal can reach. *)
ActorType ==
  [life : {"running", "exited", "lost"}, told : {"running", "exited", "lost"}, timer : BOOLEAN, closed : BOOLEAN,
   late : BOOLEAN, pc : {"idle", "kill", "stop", "term"}, ended : BOOLEAN]
SettlerType ==
  [pc : {"none", "start", "pin", "arm", "check", "signal", "wait", "after", "done"},
   pin : {"none", "child", "other"}, watch : {"none", "child", "other"}, answer : {"", "gone", "unknown", "live"},
   boot : {"here", "other", "legacy", "unreadable"}]

SignalTyped ==
  /\ actor \in ActorType /\ settler \in SettlerType
  /\ pid \in {"child", "nobody", "other"} /\ ptyChild \in {"running", "stopped", "exiting", "dead", "gone"}
  /\ reaped <=> (ptyChild = "gone" /\ scene # "settle")

(* Who holds the fence found the child uncollected, and only the reaper *)
(* collects, with the fence held. *)
Fenced ==
  /\ actor.pc # "idle" => signalLock = "actor" /\ ptyChild # "gone" /\ scene # "settle"
  /\ reaper = "collect" <=> signalLock = "reaper"
  /\ reaper \in {"lock", "collect"} => ptyChild = "dead"
  /\ pid = "child" <=> ptyChild # "gone"

(* A pin that names another process was taken when the pid was already its. *)
Pinned ==
  /\ settler.pc # "none" => scene = "settle"
  /\ scene = "settle" => reaper = "wait"
  /\ settler.pin = "other" => pid = "other"
  /\ settler.pc = "signal" => settler.pin # "other"
  /\ settler.answer = "gone" /\ settler.boot # "other" => ptyChild \in {"dead", "gone"}

SignalInv == SignalTyped /\ Fenced /\ Pinned /\ "other" \notin hit
signalVars == <<scene, ptyChild, pid, hit, reaper, signalLock, reaped, actor, settler>>

LEMMA SignalStutters == ASSUME SignalInv, UNCHANGED signalVars PROVE SignalInv'
BY DEF SignalInv, SignalTyped, Fenced, Pinned, signalVars

LEMMA SignalBegins == ASSUME X!SubstrateInit PROVE SignalInv
<1>1. /\ actor = X!NewActor /\ ptyChild = "running" /\ pid = "child" /\ hit = {} /\ reaper = "wait"
      /\ signalLock = "" /\ reaped = FALSE
      /\ settler \in [pc : {IF scene = "settle" THEN "start" ELSE "none"}, pin : {"none"}, watch : {"none"}, answer : {""},
                      boot : IF scene = "settle" THEN {"here", "other", "legacy", "unreadable"} ELSE {"here"}]
  BY DEF X!SubstrateInit
<1>2. actor \in ActorType /\ actor.pc = "idle" BY <1>1 DEF X!NewActor, ActorType
<1>3. settler \in SettlerType /\ settler.pin = "none" /\ settler.answer = ""
      /\ (settler.pc # "none" => scene = "settle") /\ settler.pc # "signal" BY <1>1 DEF SettlerType
<1> QED BY <1>1, <1>2, <1>3 DEF SignalInv, SignalTyped, Fenced, Pinned

LEMMA SignalSays == SignalInv => X!SignalsReachOwnChild
BY DEF SignalInv, SignalTyped, Fenced, Pinned, X!SignalsReachOwnChild

(* A step of the actor that leaves child, fence and recovery alone. *)
LEMMA SignalActor ==
  ASSUME SignalInv, actor' \in ActorType, actor'.pc = actor.pc,
         UNCHANGED <<scene, ptyChild, pid, hit, reaper, signalLock, reaped, settler>>
  PROVE  SignalInv'
BY DEF SignalInv, SignalTyped, Fenced, Pinned

LEMMA ActorFields ==
  ASSUME NEW a \in ActorType
  PROVE  /\ \A x \in {"running", "exited", "lost"} : [a EXCEPT !.life = x] \in ActorType /\ [a EXCEPT !.life = x].pc = a.pc
         /\ \A x \in {"running", "exited", "lost"} : [a EXCEPT !.told = x] \in ActorType /\ [a EXCEPT !.told = x].pc = a.pc
         /\ \A x \in BOOLEAN : [a EXCEPT !.timer = x] \in ActorType /\ [a EXCEPT !.timer = x].pc = a.pc
         /\ \A x \in BOOLEAN : [a EXCEPT !.closed = x] \in ActorType /\ [a EXCEPT !.closed = x].pc = a.pc
         /\ \A x \in BOOLEAN : [a EXCEPT !.late = x] \in ActorType /\ [a EXCEPT !.late = x].pc = a.pc
         /\ \A x \in BOOLEAN : [a EXCEPT !.ended = x] \in ActorType /\ [a EXCEPT !.ended = x].pc = a.pc
         /\ \A x \in {"idle", "kill", "stop", "term"} : [a EXCEPT !.pc = x] \in ActorType /\ [a EXCEPT !.pc = x].pc = x
         /\ a.life \in {"running", "exited", "lost"}
BY DEF ActorType

(* Publishing the lifecycle. *)
LEMMA PublishKeeps ==
  ASSUME NEW a \in ActorType, NEW qs, NEW ons, X!PublishLifecycle(a, qs, ons)
  PROVE  actor' \in ActorType /\ actor'.pc = a.pc
<1> DEFINE a1 == [a EXCEPT !.told = a.life]
           a2 == [a1 EXCEPT !.timer = FALSE]
<1>1. actor' = a2 BY DEF X!PublishLifecycle
<1>2. a1 \in ActorType /\ a1.pc = a.pc BY ZenonT(60), ActorFields
<1> HIDE DEF a1
<1>3. a2 \in ActorType /\ a2.pc = a1.pc BY <1>2, ActorFields
<1> HIDE DEF a2
<1> QED BY <1>1, <1>2, <1>3

LEMMA SignalHandles ==
  ASSUME SignalInv, X!HandleReaped \/ X!DrainEnds \/ X!HandleReaderClosed \/ X!ActorEnds
  PROVE  SignalInv'
<1>0. actor \in ActorType BY DEF SignalInv, SignalTyped
<1>1. UNCHANGED <<scene, ptyChild, pid, hit, reaper, signalLock, reaped, settler>>
  BY DEF X!HandleReaped, X!DrainEnds, X!HandleReaderClosed, X!ActorEnds, X!ActorGuard, X!Quiet, X!childvars,
         X!threadvars
<1>2. actor' \in ActorType /\ actor'.pc = actor.pc
  <2>1. CASE X!HandleReaped
    <3>1. [actor EXCEPT !.life = "exited"] \in ActorType /\ [actor EXCEPT !.life = "exited"].pc = actor.pc
      BY <1>0, ActorFields
    <3>2. [[actor EXCEPT !.life = "exited"] EXCEPT !.timer = TRUE] \in ActorType
          /\ [[actor EXCEPT !.life = "exited"] EXCEPT !.timer = TRUE].pc = actor.pc BY <3>1, ActorFields
    <3>3. CASE UNCHANGED actor BY <1>0, <3>3
    <3>4. CASE actor' = [actor EXCEPT !.life = "exited", !.timer = TRUE]
      <4>1. actor' = [[actor EXCEPT !.life = "exited"] EXCEPT !.timer = TRUE] BY <3>4
      <4> QED BY <3>2, <4>1
    <3>5. CASE X!PublishLifecycle([actor EXCEPT !.life = "exited"], queue, on) BY <3>1, <3>5, PublishKeeps
    <3> QED BY <2>1, <3>3, <3>4, <3>5 DEF X!HandleReaped
  <2>2. CASE X!DrainEnds
    <3>1. [actor EXCEPT !.late = TRUE] \in ActorType /\ [actor EXCEPT !.late = TRUE].pc = actor.pc BY <1>0, ActorFields
    <3> QED BY <2>2, <3>1, PublishKeeps DEF X!DrainEnds
  <2>3. CASE X!HandleReaderClosed
    <3>1. [actor EXCEPT !.closed = TRUE] \in ActorType /\ [actor EXCEPT !.closed = TRUE].pc = actor.pc
      BY <1>0, ActorFields
    <3> QED BY <2>3, <3>1, PublishKeeps DEF X!HandleReaderClosed
  <2>4. CASE X!ActorEnds
    <3>1. [actor EXCEPT !.ended = TRUE] \in ActorType /\ [actor EXCEPT !.ended = TRUE].pc = actor.pc BY <1>0, ActorFields
    <3>2. actor.life \in {"running", "exited", "lost"} BY <1>0, ActorFields
    <3>3. [[actor EXCEPT !.ended = TRUE] EXCEPT !.told = actor.life] \in ActorType
          /\ [[actor EXCEPT !.ended = TRUE] EXCEPT !.told = actor.life].pc = actor.pc
      BY <3>1, <3>2, ActorFields
    <3>4. actor' = [[actor EXCEPT !.ended = TRUE] EXCEPT !.told = actor.life] BY <2>4 DEF X!ActorEnds
    <3> QED BY <3>3, <3>4
  <2> QED BY <2>1, <2>2, <2>3, <2>4
<1> QED BY <1>1, <1>2, SignalActor

(* ChildSignals::send takes the fence, or finds the child collected. *)
LEMMA SignalSends ==
  ASSUME SignalInv, NEW a \in ActorType, NEW sig \in {"kill", "stop", "term"}, NEW c, X!Sends(c, sig, a),
         actor.pc = "idle", scene # "settle", UNCHANGED <<scene, ptyChild, pid, hit, reaper, reaped, settler>>
  PROVE  SignalInv'
<1>1. signalLock = "" BY DEF X!Sends
<1>2. CASE reaped
  <2>1. actor' = [a EXCEPT !.pc = "idle"] /\ signalLock' = signalLock BY <1>2 DEF X!Sends, X!SendLocks
  <2>2. actor' \in ActorType /\ actor'.pc = "idle" BY <2>1, ActorFields
  <2> QED BY <2>1, <2>2 DEF SignalInv, SignalTyped, Fenced, Pinned
<1>3. CASE ~reaped
  <2>1. actor' = [a EXCEPT !.pc = sig] /\ signalLock' = "actor" BY <1>3 DEF X!Sends, X!SendLocks
  <2>2. actor' \in ActorType BY <2>1, ActorFields
  <2>3. ptyChild # "gone" BY <1>3 DEF SignalInv, SignalTyped
  <2>4. reaper # "collect" BY <1>1 DEF SignalInv, Fenced
  <2> QED BY <2>1, <2>2, <2>3, <2>4 DEF SignalInv, SignalTyped, Fenced, Pinned
<1> QED BY <1>2, <1>3

LEMMA SignalAsked ==
  ASSUME SignalInv, X!HandleSignal("kill") \/ X!HandleSignal("stop") \/ X!HandleOwnerLost
  PROVE  SignalInv'
<1>0. actor \in ActorType BY DEF SignalInv, SignalTyped
<1>1. actor.pc = "idle" /\ scene # "settle" /\ UNCHANGED <<scene, ptyChild, pid, hit, reaper, reaped, settler>>
  BY DEF X!HandleSignal, X!HandleOwnerLost, X!Handles, X!ActorGuard, X!childvars, X!threadvars
<1>2. CASE UNCHANGED <<actor, signalLock>> BY <1>1, <1>2, SignalStutters DEF signalVars
<1>3. ASSUME NEW sig \in {"kill", "stop"}, X!HandleSignal(sig) PROVE SignalInv'
  <2>1. UNCHANGED <<actor, signalLock>> \/ X!Sends(Head(cmds).v, sig, actor) BY <1>3 DEF X!HandleSignal
  <2> QED BY <1>0, <1>1, <1>2, <2>1, SignalSends
<1>4. CASE X!HandleOwnerLost
  <2> DEFINE a1 == [actor EXCEPT !.life = "lost"]
             a2 == [a1 EXCEPT !.told = "lost"]
             a3 == [a2 EXCEPT !.timer = FALSE]
  <2>1. UNCHANGED <<actor, signalLock>> \/ X!Sends(0, "term", a3) BY <1>4 DEF X!HandleOwnerLost
  <2>2. a1 \in ActorType BY <1>0, ActorFields
  <2> HIDE DEF a1
  <2>3. a2 \in ActorType BY <2>2, ActorFields
  <2> HIDE DEF a2
  <2>4. a3 \in ActorType BY <2>3, ActorFields
  <2> HIDE DEF a3
  <2> QED BY <1>1, <1>2, <2>1, <2>4, SignalSends
<1> QED BY <1>3, <1>4

LEMMA SignalChild ==
  ASSUME SignalInv, X!ChildExits \/ X!PidReused \/ X!ParentCollects \/ X!ReaperNext
  PROVE  SignalInv'
<1>1. CASE X!ChildExits
  BY <1>1 DEF X!ChildExits, X!World, X!threadvars, X!fencevars, SignalInv, SignalTyped, Fenced, Pinned
<1>2. CASE X!PidReused
  BY <1>2 DEF X!PidReused, X!World, X!threadvars, X!fencevars, SignalInv, SignalTyped, Fenced, Pinned
<1>3. CASE X!ParentCollects
  BY <1>3 DEF X!ParentCollects, X!World, X!threadvars, X!fencevars, SignalInv, SignalTyped, Fenced, Pinned
<1>4. CASE X!ReaperWakes
  BY <1>4 DEF X!ReaperWakes, X!WaitUntilExited, X!ReaperGuard, X!fencevars, SignalInv, SignalTyped, Fenced, Pinned
<1>5. CASE X!ReaperLocks BY <1>5 DEF X!ReaperLocks, X!ReaperGuard, SignalInv, SignalTyped, Fenced, Pinned
<1>6. CASE X!CollectFenced
  BY <1>6 DEF X!CollectFenced, X!ReaperGuard, SignalInv, SignalTyped, Fenced, Pinned
<1>7. CASE X!ReaperTells
  BY <1>7 DEF X!ReaperTells, X!ReaperGuard, X!fencevars, SignalInv, SignalTyped, Fenced, Pinned
<1> QED BY <1>1, <1>2, <1>3, <1>4, <1>5, <1>6, <1>7 DEF X!ReaperNext

(* A signal changes a living child only. *)
LEMMA SignalledChild ==
  ASSUME NEW who, NEW sig, X!Signalled(who, sig), SignalTyped
  PROVE  /\ hit' = hit \union ({who} \ {"nobody"})
         /\ ptyChild' = ptyChild \/ (ptyChild \in {"running", "stopped"} /\ ptyChild' \in {"exiting", "stopped"})
         /\ ptyChild' \in {"running", "stopped", "exiting", "dead", "gone"}
<1>0. hit' = hit \union ({who} \ {"nobody"}) BY DEF X!Signalled
<1>1. CASE who # "child" \/ ptyChild \notin {"running", "stopped"}
  <2>1. ptyChild' = ptyChild BY <1>1 DEF X!Signalled
  <2> QED BY <1>0, <2>1 DEF SignalTyped
<1>2. CASE ~(who # "child" \/ ptyChild \notin {"running", "stopped"}) /\ sig = "kill"
  <2>1. ptyChild' = "exiting" BY <1>2 DEF X!Signalled
  <2> QED BY <1>0, <1>2, <2>1
<1>3. CASE ~(who # "child" \/ ptyChild \notin {"running", "stopped"}) /\ sig # "kill" /\ sig = "stop"
  <2>1. ptyChild' = "stopped" BY <1>3 DEF X!Signalled
  <2> QED BY <1>0, <1>3, <2>1
<1>4. CASE ~(who # "child" \/ ptyChild \notin {"running", "stopped"}) /\ sig # "kill" /\ sig # "stop"
  <2>1. ptyChild' = IF ptyChild = "running" THEN "exiting" ELSE ptyChild BY <1>4 DEF X!Signalled
  <2> QED BY <1>0, <1>4, <2>1
<1> QED BY <1>1, <1>2, <1>3, <1>4

LEMMA SignalKills == ASSUME SignalInv, X!SendKills PROVE SignalInv'
<1>1. actor.pc # "idle" /\ actor' = [actor EXCEPT !.pc = "idle"] /\ signalLock' = "" /\ X!Signalled(pid, actor.pc)
  BY DEF X!SendKills
<1>2. UNCHANGED <<scene, pid, reaper, reaped, settler>> BY DEF X!SendKills, X!ActorGuard, X!threadvars
<1>3. actor' \in ActorType /\ actor'.pc = "idle" BY <1>1, ActorFields DEF SignalInv, SignalTyped
<1>4. pid = "child" /\ signalLock = "actor" /\ scene # "settle" BY <1>1 DEF SignalInv, Fenced
<1>5. /\ hit' = hit \union ({pid} \ {"nobody"})
      /\ ptyChild' = ptyChild \/ (ptyChild \in {"running", "stopped"} /\ ptyChild' \in {"exiting", "stopped"})
      /\ ptyChild' \in {"running", "stopped", "exiting", "dead", "gone"}
  BY <1>1, SignalledChild DEF SignalInv
<1> QED BY <1>1, <1>2, <1>3, <1>4, <1>5 DEF SignalInv, SignalTyped, Fenced, Pinned

(* kill_recorded. *)
LEMMA SettlerFields ==
  ASSUME SignalTyped
  PROVE  /\ \A x \in {"pin", "arm", "check", "signal", "wait", "after", "done"} :
              /\ [settler EXCEPT !.pc = x] \in SettlerType /\ [settler EXCEPT !.pc = x].pc = x
              /\ [settler EXCEPT !.pc = x].pin = settler.pin /\ [settler EXCEPT !.pc = x].answer = settler.answer
              /\ [settler EXCEPT !.pc = x].boot = settler.boot
         /\ settler \in SettlerType
<1>0. settler \in SettlerType BY DEF SignalTyped
<1>1. ASSUME NEW x \in {"pin", "arm", "check", "signal", "wait", "after", "done"}
      PROVE  /\ [settler EXCEPT !.pc = x] \in SettlerType /\ [settler EXCEPT !.pc = x].pc = x
             /\ [settler EXCEPT !.pc = x].pin = settler.pin /\ [settler EXCEPT !.pc = x].answer = settler.answer
             /\ [settler EXCEPT !.pc = x].boot = settler.boot BY <1>0, <1>1 DEF SettlerType
<1> QED BY <1>0, <1>1

(* What the table says now is right, whatever it says. *)
LEMMA LivenessIsRight ==
  ASSUME SignalInv
  PROVE  /\ X!LivenessNow \in {"gone", "unknown", "live"}
         /\ X!LivenessNow = "gone" /\ settler.boot # "other" => ptyChild \in {"dead", "gone"}
         /\ X!LivenessNow = "live" => pid = "child"
BY DEF X!LivenessNow, SignalInv, SignalTyped, Fenced, SettlerType

(* A step of the recovery that only moves on, or answers what is right. *)
LEMMA SettleMoves ==
  ASSUME SignalInv, settler.pc # "none", UNCHANGED <<scene, ptyChild, pid, hit, reaper, signalLock, reaped, actor>>,
         \/ \E x \in {"pin", "arm", "check", "wait", "after", "done"} : settler' = [settler EXCEPT !.pc = x]
         \/ settler' = [settler EXCEPT !.pc = "signal"] /\ pid = "child"
         \/ X!Answered("unknown") \/ X!Answered("live") \/ X!Answered(X!LivenessNow)
         \/ \E x \in {"arm", "check"}, y \in {"none", "child", "other"} :
              settler' = [settler EXCEPT !.pc = x, !.pin = pid, !.watch = y] /\ pid # "nobody"
  PROVE  SignalInv'
<1>0. SignalTyped /\ Fenced /\ Pinned /\ "other" \notin hit BY DEF SignalInv
<1>1. CASE \E x \in {"pin", "arm", "check", "wait", "after", "done"} : settler' = [settler EXCEPT !.pc = x]
  <2>1. PICK x \in {"pin", "arm", "check", "wait", "after", "done"} : settler' = [settler EXCEPT !.pc = x] BY <1>1
  <2>2. /\ settler' \in SettlerType /\ settler'.pc = x /\ settler'.pin = settler.pin
        /\ settler'.answer = settler.answer /\ settler'.boot = settler.boot BY <1>0, <2>1, SettlerFields
  <2> QED BY <1>0, <2>2 DEF SignalInv, SignalTyped, Fenced, Pinned
<1>2. CASE settler' = [settler EXCEPT !.pc = "signal"] /\ pid = "child"
  <2>2. /\ settler' \in SettlerType /\ settler'.pc = "signal" /\ settler'.pin = settler.pin
        /\ settler'.answer = settler.answer /\ settler'.boot = settler.boot BY <1>0, <1>2, SettlerFields
  <2> QED BY <1>0, <1>2, <2>2 DEF SignalInv, SignalTyped, Fenced, Pinned
<1>3. ASSUME NEW a \in {"gone", "unknown", "live"}, X!Answered(a),
             a = "gone" /\ settler.boot # "other" => ptyChild \in {"dead", "gone"}
      PROVE  SignalInv'
  <2>2. /\ settler' \in SettlerType /\ settler'.pc = "done" /\ settler'.pin = settler.pin
        /\ settler'.answer = a /\ settler'.boot = settler.boot
    BY <1>0, <1>3 DEF X!Answered, SignalTyped, SettlerType
  <2> QED BY <1>0, <1>3, <2>2 DEF SignalInv, SignalTyped, Fenced, Pinned
<1>4. CASE \E x \in {"arm", "check"}, y \in {"none", "child", "other"} :
             settler' = [settler EXCEPT !.pc = x, !.pin = pid, !.watch = y] /\ pid # "nobody"
  <2>1. PICK x \in {"arm", "check"}, y \in {"none", "child", "other"} :
           settler' = [settler EXCEPT !.pc = x, !.pin = pid, !.watch = y] /\ pid # "nobody" BY <1>4
  <2>2. pid \in {"none", "child", "other"} BY <1>0, <2>1 DEF SignalTyped
  <2>3. /\ settler' \in SettlerType /\ settler'.pc = x /\ settler'.pin = pid
        /\ settler'.answer = settler.answer /\ settler'.boot = settler.boot
    BY <1>0, <2>1, <2>2 DEF SignalTyped, SettlerType
  <2> QED BY <1>0, <2>3 DEF SignalInv, SignalTyped, Fenced, Pinned
<1>5. X!Answered(X!LivenessNow) => SignalInv' BY <1>3, LivenessIsRight
<1> QED BY <1>1, <1>2, <1>3, <1>4, <1>5

LEMMA SignalSettles == ASSUME SignalInv, X!SettleNext PROVE SignalInv'
<1> DEFINE Still == UNCHANGED <<scene, ptyChild, pid, hit, reaper, signalLock, reaped, actor>>
<1>1. CASE X!ParentCollects BY <1>1, SignalChild
<1>2. CASE X!SettleStarts
  <2>1. Still /\ settler.pc # "none" BY <1>2 DEF X!SettleStarts, X!SettleGuard, X!threadvars, X!fencevars
  <2>2. X!Answered(X!LivenessNow) \/ settler' = [settler EXCEPT !.pc = "pin"] BY <1>2 DEF X!SettleStarts
  <2> QED BY <2>1, <2>2, SettleMoves
<1>3. CASE X!PinUnsupported
  <2>1. Still /\ settler.pc # "none" BY <1>3 DEF X!PinUnsupported, X!SettleGuard, X!threadvars, X!fencevars
  <2> QED BY <1>3, <2>1, SettleMoves DEF X!PinUnsupported
<1>4. CASE X!Pin
  <2>1. Still /\ settler.pc # "none" BY <1>4 DEF X!Pin, X!SettleGuard, X!threadvars, X!fencevars
  <2>2. X!Answered(X!LivenessNow) \/ (settler' = [settler EXCEPT !.pc = "signal"] /\ pid = "child")
    BY <1>4, LivenessIsRight DEF X!Pin
  <2> QED BY <2>1, <2>2, SettleMoves
<1>5. CASE X!WaitExit
  <2>1. Still /\ settler.pc # "none" BY <1>5 DEF X!WaitExit, X!SettleGuard, X!threadvars, X!fencevars
  <2> QED BY <1>5, <2>1, SettleMoves DEF X!WaitExit
<1>6. CASE X!LivenessAfterExit
  <2>1. Still /\ settler.pc # "none" BY <1>6 DEF X!LivenessAfterExit, X!SettleGuard, X!threadvars, X!fencevars
  <2> QED BY <1>6, <2>1, SettleMoves DEF X!LivenessAfterExit
<1>7. ASSUME NEW refused \in BOOLEAN, X!PinPidfd(refused) PROVE SignalInv'
  <2>1. Still /\ settler.pc # "none" BY <1>7 DEF X!PinPidfd, X!SettleGuard, X!threadvars, X!fencevars
  <2>2. \/ X!Answered("unknown") \/ X!Answered(X!LivenessNow)
        \/ settler' = [settler EXCEPT !.pc = "check", !.pin = pid, !.watch = pid] /\ pid # "nobody"
    BY <1>7 DEF X!PinPidfd
  <2>3. pid # "nobody" => pid \in {"none", "child", "other"} BY DEF SignalInv, SignalTyped
  <2> QED BY <2>1, <2>2, <2>3, SettleMoves
<1>8. ASSUME NEW refused \in BOOLEAN, X!PinToken(refused) PROVE SignalInv'
  <2>1. Still /\ settler.pc # "none" BY <1>8 DEF X!PinToken, X!SettleGuard, X!threadvars, X!fencevars
  <2>2. \/ X!Answered("unknown") \/ X!Answered(X!LivenessNow)
        \/ settler' = [settler EXCEPT !.pc = "arm", !.pin = pid] /\ pid # "nobody" BY <1>8 DEF X!PinToken
  <2>3. CASE settler' = [settler EXCEPT !.pc = "arm", !.pin = pid] /\ pid # "nobody"
    <3>1. settler \in SettlerType BY DEF SignalInv, SignalTyped
    <3>2. settler' = [settler EXCEPT !.pc = "arm", !.pin = pid, !.watch = settler.watch] BY <2>3, <3>1 DEF SettlerType
    <3>3. settler.watch \in {"none", "child", "other"} BY <3>1 DEF SettlerType
    <3> QED BY <2>1, <2>3, <3>2, <3>3, SettleMoves
  <2> QED BY <2>1, <2>2, <2>3, SettleMoves
<1>9. ASSUME NEW refused \in BOOLEAN, X!PinWatch(refused) PROVE SignalInv'
  <2>1. Still /\ settler.pc # "none" BY <1>9 DEF X!PinWatch, X!SettleGuard, X!threadvars, X!fencevars
  <2>2. \/ X!Answered("unknown") \/ X!Answered(X!LivenessNow)
        \/ settler' = [settler EXCEPT !.pc = "check", !.watch = pid] /\ pid # "nobody"
    BY <1>9 DEF X!PinWatch
  <2>3. CASE settler' = [settler EXCEPT !.pc = "check", !.watch = pid] /\ pid # "nobody"
    <3>1. settler \in SettlerType /\ pid \in {"child", "other"} BY <2>3 DEF SignalInv, SignalTyped
    <3>2. /\ settler' \in SettlerType /\ settler'.pc = "check" /\ settler'.pin = settler.pin
          /\ settler'.answer = settler.answer /\ settler'.boot = settler.boot
      BY <2>3, <3>1 DEF SettlerType
    <3> QED BY <2>1, <3>2 DEF SignalInv, SignalTyped, Fenced, Pinned
  <2> QED BY <2>1, <2>2, <2>3, SettleMoves
<1>10. ASSUME NEW refused \in BOOLEAN, X!ExactSignal(refused) PROVE SignalInv'
  <2>0. settler.pc = "signal" /\ UNCHANGED <<scene, pid, reaper, signalLock, reaped, actor>>
    BY <1>10 DEF X!ExactSignal, X!SettleGuard, X!threadvars, X!fencevars
  <2>1. CASE refused
    <3>1. X!Answered("unknown") /\ UNCHANGED <<ptyChild, hit>> BY <1>10, <2>1 DEF X!ExactSignal
    <3> QED BY <2>0, <3>1, SettleMoves
  <2>2. CASE ~refused
    <3> DEFINE who == IF pid = settler.pin THEN pid ELSE "nobody"
    <3>1. settler' = [settler EXCEPT !.pc = "wait"] /\ X!Signalled(who, "kill") BY <1>10, <2>2 DEF X!ExactSignal
    <3>2. who # "other" BY <2>0 DEF SignalInv, Pinned
    <3> HIDE DEF who
    <3>3. /\ hit' = hit \union ({who} \ {"nobody"})
          /\ ptyChild' = ptyChild \/ (ptyChild \in {"running", "stopped"} /\ ptyChild' \in {"exiting", "stopped"})
          /\ ptyChild' \in {"running", "stopped", "exiting", "dead", "gone"}
      BY <3>1, SignalledChild DEF SignalInv
    <3>4. /\ settler' \in SettlerType /\ settler'.pc = "wait" /\ settler'.pin = settler.pin
          /\ settler'.answer = settler.answer /\ settler'.boot = settler.boot
      BY <3>1, SettlerFields DEF SignalInv
    <3> QED BY <2>0, <3>2, <3>3, <3>4 DEF SignalInv, SignalTyped, Fenced, Pinned
  <2> QED BY <2>1, <2>2
<1> QED BY <1>1, <1>2, <1>3, <1>4, <1>5, <1>6, <1>7, <1>8, <1>9, <1>10 DEF X!SettleNext

----------------------------------------------------------------------------
(* The terminal's output.  Read: the bytes the reader has taken. *)
Read == wrote - Len(flight) - Len(kernel)

OutputTyped ==
  /\ owner /\ actor.life \in Lives /\ actor.told \in Lives /\ actor.pc = "idle" /\ ~actor.ended
  /\ actor.told = "running" \/ actor.told = actor.life
  /\ ptyReader \in {"room", "read", "done"} /\ ends \in Nat

(* Bytes reach the master in the order written; the reader counts no more *)
(* ends than it read since its last byte, and when it is done it has what *)
(* was due and nobody is left to write. *)
DueType == [upto : Nat, waited : Nat, slow : BOOLEAN]
BytesFly ==
  /\ flight \in Seq(Nat) /\ kernel \in Seq(Nat) /\ wrote \in Nat /\ Read \in Nat
  /\ \A i \in 1..Len(flight) : flight[i] = wrote - Len(flight) + i
  /\ \A i \in 1..Len(kernel) : kernel[i] = Read + i
  /\ due \in DueType /\ due.upto <= wrote /\ ends \in Nat /\ ends <= due.waited
  /\ ptyReader = "done" => holders = {} /\ ptyChild = "gone" /\ (~due.slow => due.upto <= Read)

(* The channel, when h bytes were handled; the one attach finds a new queue. *)
Asks(h) ==
  /\ cmds \in Seq(Cmd) /\ Outputs(cmds, h, Read) /\ h <= Read /\ Closes(cmds) /\ Once(cmds)
  /\ Has(cmds, "closed") => ptyReader = "done"
  /\ actor.closed => ptyReader = "done" /\ ~Has(cmds, "closed") /\ ~Has(cmds, "output")
  /\ calls = 0 => ~Has(cmds, "attach")
  /\ calls = 0 \/ Has(cmds, "attach") => queue[2] = X!NewQueue(TRUE) /\ got[2] = <<>> /\ 2 \notin on
Streamed(h) ==
  StreamsAre(queue, got, on, h, Read, One(ptyReader = "read"), One(actor.closed), One(actor.late),
             One(actor.told # "running"))
OutputInv == OutputTyped /\ BytesFly /\ \E h \in Nat : Asks(h) /\ Streamed(h)

(* Where nothing is written there is no stream either. *)
IdleCmd ==
  [t : {"closed", "reaped", "lost"}, v : {0}]
  \union [t : {"input", "query", "resize", "kill", "stop"}, v : Nat, stale : BOOLEAN]
IdleInv ==
  /\ flight = <<>> /\ kernel = <<>> /\ calls \in Nat /\ cmds \in Seq(IdleCmd) /\ on = {}
  /\ queue = [s \in X!Streams |-> IF s = 1 THEN X!NewQueue(FALSE) ELSE X!NewQueue(TRUE)]
  /\ got = [s \in X!Streams |-> <<>>]

SubstrateInv ==
  /\ SignalInv
  /\ scene = "output" => OutputInv
  /\ scene # "output" => IdleInv

LEMMA BytesAre ==
  ASSUME NEW A \in Seq(Ev), NEW lo \in Nat, NEW hi \in Nat, Runs(A, lo, hi)
  PROVE  {A[i][2] : i \in {k \in DOMAIN A : A[k][1] = "data"}} = lo..hi
<1>1. DOMAIN A = 1..Len(A) OBVIOUS
<1> QED BY <1>1 DEF Runs, IsData

LEMMA ClosedIs ==
  ASSUME NEW A \in Seq(Ev), NEW i \in 1..Len(A), IsClosed(A[i])
  PROVE  A[i][2] = 0
<1>1. A[i] \in Ev OBVIOUS
<1> QED BY <1>1 DEF Ev, IsClosed

LEMMA OneIs == /\ \A b \in BOOLEAN : One(b) \in 0..1 /\ (One(b) = 1 <=> b)
BY DEF One

LEMMA StreamSays ==
  ASSUME NEW s \in X!Streams, got[s] \in Seq(Ev), queue[s] \in QueueType, NEW lo \in Nat, NEW hi \in Nat,
         Runs(X!All(s), lo, hi), ClosedLast(X!All(s))
  PROVE  /\ X!Bytes(s) = lo..hi
         /\ \A i, j \in X!DataAt(s) : i < j => X!All(s)[i][2] < X!All(s)[j][2]
         /\ \A x, y \in X!Bytes(s) : x..y \subseteq X!Bytes(s)
         /\ \A i \in X!Pos(s, "closed", 0), j \in X!DataAt(s) : j < i
         /\ X!Pos(s, "closed", 0) # {} <=> HasClosed(X!All(s))
         /\ ExitAfter(X!All(s)) => \A i \in X!Pos(s, "life", "exited") : \E j \in X!Pos(s, "closed", 0) : j < i
<1> DEFINE A == X!All(s)
<1>1. A \in Seq(Ev)
  <2>1. queue[s].events \in Seq(Ev) BY QueueFields
  <2> QED BY <2>1 DEF X!All
<1>2. DOMAIN A = 1..Len(A) BY <1>1
<1>3. X!Bytes(s) = {A[i][2] : i \in {k \in DOMAIN A : A[k][1] = "data"}} BY DEF X!Bytes, X!DataAt
<1>4. X!DataAt(s) = {i \in 1..Len(A) : IsData(A[i])} BY <1>2 DEF X!DataAt, IsData
<1>5. X!Pos(s, "closed", 0) = {i \in 1..Len(A) : IsClosed(A[i])}
  <2>1. X!Pos(s, "closed", 0) = {i \in 1..Len(A) : A[i][1] = "closed" /\ A[i][2] = 0} BY <1>2 DEF X!Pos
  <2>2. \A i \in 1..Len(A) : IsClosed(A[i]) => A[i][2] = 0 BY <1>1, ClosedIs
  <2> HIDE DEF A
  <2> QED BY <2>1, <2>2 DEF IsClosed
<1>6. X!Pos(s, "life", "exited") = {i \in 1..Len(A) : IsExit(A[i])} BY <1>2 DEF X!Pos, IsExit
<1> HIDE DEF A
<1>7. X!Bytes(s) = lo..hi BY <1>1, <1>3, BytesAre DEF A
<1>8. \A x, y \in X!Bytes(s) : x..y \subseteq X!Bytes(s) BY <1>7
<1>9. \A i, j \in X!DataAt(s) : i < j => A[i][2] < A[j][2] BY <1>4 DEF Runs, A
<1>10. \A i \in X!Pos(s, "closed", 0), j \in X!DataAt(s) : j < i BY <1>4, <1>5 DEF ClosedLast, A
<1>11. X!Pos(s, "closed", 0) # {} <=> HasClosed(A) BY <1>5 DEF HasClosed
<1>12. ExitAfter(A) => \A i \in X!Pos(s, "life", "exited") : \E j \in X!Pos(s, "closed", 0) : j < i
  BY <1>5, <1>6 DEF ExitAfter
<1> QED BY <1>7, <1>8, <1>9, <1>10, <1>11, <1>12 DEF A

LEMMA OutputSays == ASSUME SignalInv, OutputInv PROVE X!StreamIsWhole
<1>1. PICK h \in Nat : Asks(h) /\ Streamed(h) BY DEF OutputInv
<1>2. queue \in [X!Streams -> QueueType] /\ got \in [X!Streams -> Seq(Ev)] BY <1>1 DEF Streamed, StreamsAre
<1>3. 1 \in X!Streams /\ 2 \in X!Streams BY DEF X!Streams
<1>0. actor.closed \in BOOLEAN /\ actor.late \in BOOLEAN BY DEF SignalInv, SignalTyped, ActorType
<1> DEFINE Says(s) ==
      /\ \A i, j \in X!DataAt(s) : i < j => X!All(s)[i][2] < X!All(s)[j][2]
      /\ \A x, y \in X!Bytes(s) : x..y \subseteq X!Bytes(s)
      /\ s = 1 /\ X!Bytes(s) # {} => 1 \in X!Bytes(s)
      /\ X!Bytes(s) \subseteq 1..wrote
      /\ s = 1 /\ X!Pos(s, "closed", 0) # {} /\ ~due.slow => 1..due.upto \subseteq X!Bytes(s)
      /\ \A i \in X!Pos(s, "closed", 0), j \in X!DataAt(s) : j < i
      /\ s = 1 /\ ~actor.late => \A i \in X!Pos(s, "life", "exited") : \E j \in X!Pos(s, "closed", 0) : j < i
      /\ queue[s].queued <= IF X!OnFull(s) = "Detach" THEN Capacity ELSE 2 * Capacity + 2
<1>w. h <= wrote /\ wrote \in Nat
  <2>1. h <= Read /\ Read \in Nat /\ wrote \in Nat /\ Len(flight) \in Nat /\ Len(kernel) \in Nat
        /\ Read = wrote - Len(flight) - Len(kernel) BY <1>1 DEF Asks, OutputInv, BytesFly, Read
  <2> QED BY <2>1
<1>4. ASSUME ~queue[1].receiver_gone PROVE Says(1)
  <2> DEFINE rd == One(ptyReader = "read")
             cl == One(actor.closed)
             la == One(actor.late)
             ov == One(actor.told # "running")
  <2>1. OwnersIs(queue[1], got[1], h, Read, rd, cl, la, ov) BY <1>1, <1>4 DEF Streamed, StreamsAre
  <2>2. rd \in 0..1 /\ cl \in 0..1 /\ ov \in 0..1 BY DEF One
  <2>3. (cl = 1 <=> actor.closed) /\ (la = 1 <=> actor.late) BY <1>0, OneIs
  <2>4. queue[1] \in QueueType /\ got[1] \in Seq(Ev) BY <1>2, <1>3
  <2> HIDE DEF rd, cl, la, ov
  <2>5. Runs(X!All(1), 1, h) /\ ClosedLast(X!All(1)) /\ (HasClosed(X!All(1)) <=> cl = 1)
        /\ (la = 1 \/ ExitAfter(X!All(1))) BY <2>1 DEF OwnersIs, X!All
  <2>6. /\ X!Bytes(1) = 1..h
        /\ \A i, j \in X!DataAt(1) : i < j => X!All(1)[i][2] < X!All(1)[j][2]
        /\ \A x, y \in X!Bytes(1) : x..y \subseteq X!Bytes(1)
        /\ \A i \in X!Pos(1, "closed", 0), j \in X!DataAt(1) : j < i
        /\ X!Pos(1, "closed", 0) # {} <=> HasClosed(X!All(1))
        /\ ExitAfter(X!All(1)) => \A i \in X!Pos(1, "life", "exited") : \E j \in X!Pos(1, "closed", 0) : j < i
    BY <1>3, <2>4, <2>5, StreamSays
  <2>7. X!Bytes(1) # {} => 1 \in X!Bytes(1) BY <2>6
  <2>8. ASSUME actor.closed, ~due.slow PROVE due.upto <= h
    <3>1. ptyReader = "done" /\ ~Has(cmds, "output") /\ Outputs(cmds, h, Read) /\ h <= Read /\ cmds \in Seq(Cmd)
      BY <1>1, <2>8 DEF Asks
    <3>2. due.upto <= Read /\ due.upto \in Nat /\ Read \in Nat BY <2>8, <3>1 DEF OutputInv, BytesFly, DueType
    <3>3. \A x \in (h + 1)..Read : FALSE BY <3>1 DEF Outputs, Has
    <3> QED BY <3>1, <3>2, <3>3
  <2>9. X!Pos(1, "closed", 0) # {} /\ ~due.slow => 1..due.upto \subseteq X!Bytes(1)
    <3>1. due.upto \in Nat BY DEF OutputInv, BytesFly, DueType
    <3> QED BY <2>3, <2>5, <2>6, <2>8, <3>1
  <2>13. X!Bytes(1) \subseteq 1..wrote BY <1>w, <2>6
  <2>10. ~actor.late => \A i \in X!Pos(1, "life", "exited") : \E j \in X!Pos(1, "closed", 0) : j < i
    BY <2>3, <2>5, <2>6
  <2>11. queue[1].queued <= 2 * Capacity + 2
    <3> DEFINE qd == queue[1].queued
               rs == queue[1].reserved
    <3>1. qd \in Int /\ rs \in Int BY <2>4, QueueFields
    <3>2. rs >= 0
      <4>1. rs = Read - h /\ h <= Read /\ Read \in Nat BY <1>1, <2>1 DEF OwnersIs, Asks, OutputInv, BytesFly
      <4> HIDE DEF rs
      <4> QED BY <4>1
    <3>3. qd + 2 * rs + 2 * rd <= 2 * Capacity + cl + ov BY <2>1 DEF OwnersIs
    <3> HIDE DEF qd, rs
    <3>4. qd <= 2 * Capacity + 2 BY <2>2, <3>1, <3>2, <3>3, SomeRoom
    <3> QED BY <3>4 DEF qd
  <2>12. (IF X!OnFull(1) = "Detach" THEN Capacity ELSE 2 * Capacity + 2) = 2 * Capacity + 2 BY DEF X!OnFull
  <2> QED BY <2>6, <2>7, <2>9, <2>10, <2>11, <2>12, <2>13
<1>5. ASSUME ~queue[2].receiver_gone PROVE Says(2)
  <2>1. LatersIs(queue[2], got[2], h, on, One(actor.closed)) BY <1>1, <1>5 DEF Streamed, StreamsAre
  <2>2. queue[2] \in QueueType /\ got[2] \in Seq(Ev) BY <1>2, <1>3
  <2>3. PICK lo \in Nat, hi \in Nat : Runs(X!All(2), lo, hi) /\ 1 <= lo /\ hi <= h BY <2>1 DEF LatersIs, X!All
  <2>4. ClosedLast(X!All(2)) /\ queue[2].queued <= Capacity BY <2>1 DEF LatersIs, X!All
  <2>5. (IF X!OnFull(2) = "Detach" THEN Capacity ELSE 2 * Capacity + 2) = Capacity BY DEF X!OnFull
  <2>6. /\ \A i, j \in X!DataAt(2) : i < j => X!All(2)[i][2] < X!All(2)[j][2]
        /\ \A x, y \in X!Bytes(2) : x..y \subseteq X!Bytes(2)
        /\ \A i \in X!Pos(2, "closed", 0), j \in X!DataAt(2) : j < i
        /\ X!Bytes(2) = lo..hi BY <1>3, <2>2, <2>3, <2>4, StreamSays
  <2>7. X!Bytes(2) \subseteq 1..wrote BY <1>w, <2>3, <2>6
  <2> QED BY <2>4, <2>5, <2>6, <2>7
<1> HIDE DEF Says
<1>6. \A s \in X!Streams : ~queue[s].receiver_gone => Says(s) BY <1>4, <1>5 DEF X!Streams
<1> QED BY <1>6 DEF Says, X!StreamIsWhole

LEMMA IdleSays == ASSUME IdleInv PROVE X!StreamIsWhole
<1>1. 1 \in X!Streams /\ 2 \in X!Streams BY DEF X!Streams
<1>2. queue[1].receiver_gone /\ queue[2].events = <<>> /\ queue[2].queued = 0 /\ got[2] = <<>>
  <2>1. queue[1] = X!NewQueue(FALSE) /\ queue[2] = X!NewQueue(TRUE) /\ got[2] = <<>> BY <1>1 DEF IdleInv
  <2>2. X!NewQueue(FALSE).receiver_gone BY DEF X!NewQueue
  <2>3. X!NewQueue(TRUE).events = <<>> /\ X!NewQueue(TRUE).queued = 0 BY DEF X!NewQueue
  <2> QED BY <2>1, <2>2, <2>3
<1>3. X!All(2) = <<>> BY <1>2 DEF X!All
<1>4. DOMAIN X!All(2) = {} BY <1>3
<1>5. X!DataAt(2) = {} /\ X!Bytes(2) = {} /\ X!Pos(2, "closed", 0) = {} /\ X!Pos(2, "life", "exited") = {}
  BY <1>4 DEF X!DataAt, X!Bytes, X!Pos
<1>6. queue[2].queued <= IF X!OnFull(2) = "Detach" THEN Capacity ELSE 2 * Capacity + 2
  BY <1>2, SomeRoom DEF X!OnFull
<1> QED BY <1>2, <1>5, <1>6 DEF X!StreamIsWhole, X!Streams

LEMMA SubstrateSays == SubstrateInv => X!StreamIsWhole /\ X!SignalsReachOwnChild
BY SignalSays, OutputSays, IdleSays DEF SubstrateInv

LEMMA RunsNone == ASSUME NEW lo \in Nat, NEW hi \in Nat, hi < lo PROVE Runs(<<>>, lo, hi)
BY DEF Runs

LEMMA EndsNone == ClosedLast(<<>>) /\ ~HasClosed(<<>>) /\ ExitAfter(<<>>)
BY DEF ClosedLast, HasClosed, ExitAfter

LEMMA NewIs ==
  /\ X!NewQueue(TRUE) \in QueueType /\ X!NewQueue(FALSE) \in QueueType
  /\ X!NewQueue(TRUE).events = <<>> /\ X!NewQueue(TRUE).queued = 0 /\ X!NewQueue(TRUE).reserved = 0
  /\ ~X!NewQueue(TRUE).overflowed /\ ~X!NewQueue(TRUE).sender_gone /\ ~X!NewQueue(TRUE).receiver_gone
  /\ X!NewQueue(FALSE).receiver_gone
<1>1. <<>> \in Seq(Ev) OBVIOUS
<1> DEFINE q == [events |-> <<>>, queued |-> 0, reserved |-> 0, overflowed |-> FALSE, sender_gone |-> FALSE,
                 receiver_gone |-> FALSE]
           p == [events |-> <<>>, queued |-> 0, reserved |-> 0, overflowed |-> FALSE, sender_gone |-> FALSE,
                 receiver_gone |-> TRUE]
<1>2. X!NewQueue(TRUE) = q /\ X!NewQueue(FALSE) = p BY DEF X!NewQueue
<1>3. q \in QueueType /\ p \in QueueType BY <1>1 DEF QueueType
<1>4. q.events = <<>> /\ q.queued = 0 /\ q.reserved = 0 OBVIOUS
<1>5. ~q.overflowed /\ ~q.sender_gone /\ ~q.receiver_gone /\ p.receiver_gone OBVIOUS
<1> HIDE DEF q, p
<1> QED BY <1>2, <1>3, <1>4, <1>5

LEMMA Nothing == <<>> \o <<>> = <<>> /\ Len(<<>>) = 0 /\ <<>> \in Seq(Ev)
OBVIOUS

(* A new queue is a stream from the next byte on. *)
LEMMA LatersNew ==
  ASSUME NEW h \in Nat, NEW ons, NEW closed \in 0..1
  PROVE  LatersIs(X!NewQueue(TRUE), <<>>, h, ons, closed)
<1> DEFINE q == X!NewQueue(TRUE)
<1>1. q.events = <<>> /\ q.queued = 0 BY NewIs
<1> HIDE DEF q
<1>2. <<>> \o q.events = <<>> BY <1>1, Nothing
<1>3. Runs(<<>>, h + 1, h) BY RunsNone
<1>4. h + 1 \in Nat /\ 1 <= h + 1 /\ h + 1 <= h + 1 /\ h <= h OBVIOUS
<1>5. q.queued <= Capacity BY <1>1, SomeRoom
<1>6. LatersIs(q, <<>>, h, ons, closed) BY <1>2, <1>3, <1>4, <1>5, EndsNone DEF LatersIs
<1> QED BY <1>6 DEF q

LEMMA PushIs ==
  ASSUME NEW s, NEW q \in QueueType, NEW ev \in Ev
  PROVE  /\ X!Push(s, q, ev) \in QueueType
         /\ X!Push(s, q, ev).events = Told(s, q, ev).events /\ X!Push(s, q, ev).queued = Told(s, q, ev).queued
         /\ X!Push(s, q, ev).reserved = Told(s, q, ev).reserved
         /\ (X!Push(s, q, ev).overflowed <=> Told(s, q, ev).overflowed)
         /\ (X!Push(s, q, ev).receiver_gone <=> Told(s, q, ev).receiver_gone)
         /\ (X!Push(s, q, ev).sender_gone <=> q.sender_gone)
<1> DEFINE p == X!Push(s, q, ev)
           rs == X!Reserved(q, ev)
           es == Append(q.events, ev)
           qd == q.queued + X!EventCost(ev)
<1>1. rs \in Int /\ es \in Seq(Ev) /\ qd \in Int BY QueueFields, EventCosts DEF X!Reserved
<1>2. p \in QueueType /\ (p.sender_gone <=> q.sender_gone)
  <2>1. CASE X!Finished(q) BY <2>1 DEF X!Push
  <2>2. CASE ~X!Finished(q) /\ X!Overflows(s, q, ev)
    <3> DEFINE q1 == [q EXCEPT !.overflowed = TRUE]
               q2 == [q1 EXCEPT !.reserved = rs]
    <3>1. p = q2 BY <2>2 DEF X!Push
    <3> HIDE DEF rs, p
    <3>2. q2 \in QueueType /\ q2.sender_gone = q.sender_gone BY <1>1 DEF QueueType
    <3> HIDE DEF q2
    <3> QED BY <3>1, <3>2
  <2>3. CASE ~X!Finished(q) /\ ~X!Overflows(s, q, ev)
    <3> DEFINE q1 == [q EXCEPT !.events = es]
               q2 == [q1 EXCEPT !.queued = qd]
               q3 == [q2 EXCEPT !.reserved = rs]
    <3>1. p = q3 BY <2>3 DEF X!Push
    <3> HIDE DEF rs, p, es, qd
    <3>2. q3 \in QueueType /\ q3.sender_gone = q.sender_gone BY <1>1 DEF QueueType
    <3> HIDE DEF q3
    <3> QED BY <3>1, <3>2
  <2> QED BY <2>1, <2>2, <2>3
<1> HIDE DEF p
<1> DEFINE rf == X!Refused(s, q, ev)
           z == [p EXCEPT !.sender_gone = rf]
<1>3. Told(s, q, ev) = z BY DEF Told, p
<1> HIDE DEF rf
<1>4. z.events = p.events /\ z.queued = p.queued /\ z.reserved = p.reserved /\ z.overflowed = p.overflowed
      /\ z.receiver_gone = p.receiver_gone BY <1>2 DEF QueueType
<1> HIDE DEF z
<1> QED BY <1>2, <1>3, <1>4 DEF p

LEMMA OwnersNew ==
  /\ X!Registered(TRUE) \in QueueType /\ ~X!Registered(TRUE).receiver_gone
  /\ OwnersIs(X!Registered(TRUE), <<>>, 0, 0, 0, 0, 0, 0)
<1> DEFINE q == X!NewQueue(TRUE)
           ev == <<"life", "running">>
           p == X!Push(1, q, ev)
<1>0. X!Registered(TRUE) = p BY DEF X!Registered, X!Event
<1>1. ev \in Ev /\ ~IsData(ev) /\ ~IsClosed(ev) /\ ~IsExit(ev) /\ X!EventCost(ev) = 1
  BY DEF Ev, Lives, IsData, IsClosed, IsExit, X!EventCost
<1>2. /\ q \in QueueType /\ q.events = <<>> /\ q.queued = 0 /\ q.reserved = 0 /\ ~q.overflowed /\ ~q.sender_gone
      /\ ~q.receiver_gone BY NewIs
<1>a. X!Reserved(q, ev) = 0 BY <1>2 DEF X!Reserved
<1> HIDE DEF q, ev
<1>3. ~X!Refused(1, q, ev) BY <1>1, <1>2, OwnersTaken
<1>4. /\ Told(1, q, ev).events = Append(q.events, ev) /\ Told(1, q, ev).queued = q.queued + X!EventCost(ev)
      /\ Told(1, q, ev).reserved = X!Reserved(q, ev) /\ (Told(1, q, ev).overflowed <=> q.overflowed)
      /\ (Told(1, q, ev).receiver_gone <=> q.receiver_gone)
  <2>1. q \in QueueType /\ ev \in Ev /\ ~X!Refused(1, q, ev) BY <1>1, <1>2, <1>3
  <2> QED BY ONLY <2>1, ToldTaken
<1>5. /\ p \in QueueType /\ p.events = Told(1, q, ev).events /\ p.queued = Told(1, q, ev).queued
      /\ p.reserved = Told(1, q, ev).reserved
      /\ (p.overflowed <=> Told(1, q, ev).overflowed) /\ (p.receiver_gone <=> Told(1, q, ev).receiver_gone)
      /\ (p.sender_gone <=> q.sender_gone) BY <1>1, <1>2, PushIs
<1> HIDE DEF p
<1>6. p.events = Append(<<>>, ev) /\ p.queued = 1 /\ p.reserved = 0 BY <1>1, <1>2, <1>4, <1>5, <1>a
<1>7. ~p.overflowed /\ ~p.sender_gone /\ ~p.receiver_gone BY <1>2, <1>4, <1>5
<1>8. <<>> \in Seq(Ev) /\ <<>> \o p.events = Append(<<>>, ev) BY <1>1, <1>6
<1>9. Runs(Append(<<>>, ev), 1, 0)
  <2>1. Runs(<<>>, 1, 0) BY RunsNone
  <2>2. 1 \in Nat /\ 0 \in Nat OBVIOUS
  <2> QED BY <1>1, <1>8, <2>1, <2>2, RunsKept, Zenon
<1>10. ClosedLast(Append(<<>>, ev)) /\ ~HasClosed(Append(<<>>, ev)) /\ ExitAfter(Append(<<>>, ev))
  BY <1>1, <1>8, EndsNone, EndsKept
<1>11. Costs(p.events, p.queued)
  <2>0. 0 \in Int OBVIOUS
  <2>1. Costs(Append(<<>>, ev), 0 + X!EventCost(ev)) BY <1>1, <1>8, <2>0, CostsNone, CostsGrow, Zenon
  <2> QED BY <1>1, <1>6, <2>1
<1>12. p.queued + 2 * p.reserved + 2 * 0 <= 2 * Capacity + 0 + 0 BY <1>6, SomeRoom
<1>13. p.reserved = 0 - 0 BY <1>6
<1>14. OwnersIs(p, <<>>, 0, 0, 0, 0, 0, 0) BY <1>7, <1>8, <1>9, <1>10, <1>11, <1>12, <1>13 DEF OwnersIs
<1> QED BY <1>0, <1>5, <1>7, <1>14

LEMMA OutputBegins == ASSUME X!SubstrateInit, scene = "output" PROVE OutputInv
<1>1. /\ flight = <<>> /\ kernel = <<>> /\ wrote = 0 /\ ptyReader = "room" /\ ends = 0 /\ cmds = <<>>
      /\ due = [upto |-> 0, waited |-> 0, slow |-> FALSE]
      /\ actor = X!NewActor /\ owner = TRUE /\ calls = 0 /\ got = [s \in X!Streams |-> <<>>]
  BY DEF X!SubstrateInit
<1>2. PICK there \in BOOLEAN :
        /\ on = IF there THEN {1} ELSE {}
        /\ queue = [s \in X!Streams |-> IF s = 1 THEN X!Registered(there) ELSE X!NewQueue(TRUE)]
  BY DEF X!SubstrateInit
<1>3. Read = 0
  <2>1. Len(flight) = 0 /\ Len(kernel) = 0 /\ wrote = 0 BY <1>1
  <2> QED BY ONLY <2>1 DEF Read
<1>4. /\ actor.life = "running" /\ actor.told = "running" /\ actor.pc = "idle" /\ actor.ended = FALSE
      /\ actor.closed = FALSE /\ actor.late = FALSE BY <1>1 DEF X!NewActor
<1>5. OutputTyped BY <1>1, <1>4 DEF OutputTyped, Lives
<1>6. BytesFly BY <1>1, <1>3 DEF BytesFly, DueType
<1>7. 1 \in X!Streams /\ 2 \in X!Streams BY DEF X!Streams
<1>8. queue[1] = X!Registered(there) /\ queue[2] = X!NewQueue(TRUE) /\ got[1] = <<>> /\ got[2] = <<>>
  BY <1>1, <1>2, <1>7
<1>9. Asks(0)
  <2>1. cmds \in Seq(Cmd) /\ Len(cmds) = 0 BY <1>1
  <2>2. Outputs(cmds, 0, 0) /\ Closes(cmds) /\ Once(cmds) BY <2>1 DEF Outputs, Closes, Once
  <2>3. \A tt : ~Has(cmds, tt) BY <2>1 DEF Has
  <2>4. 2 \notin on BY <1>2
  <2> QED BY <1>3, <1>4, <1>8, <2>1, <2>2, <2>3, <2>4 DEF Asks
<1>10. Streamed(0)
  <2>1. X!Registered(FALSE) = X!NewQueue(FALSE) BY NewIs DEF X!Registered, X!Push, X!Finished
  <2>2. queue[1] \in QueueType /\ queue[2] \in QueueType BY <1>8, <2>1, NewIs, OwnersNew
  <2>3. queue \in [X!Streams -> QueueType] BY <1>2, <1>8, <2>2 DEF X!Streams
  <2>4. got \in [X!Streams -> Seq(Ev)]
    <3>1. <<>> \in Seq(Ev) OBVIOUS
    <3> QED BY <1>1, <3>1
  <2>5. on \subseteq X!Streams BY <1>2, <1>7
  <2>6. /\ One(ptyReader = "read") = 0 /\ One(actor.closed) = 0 /\ One(actor.late) = 0
        /\ One(actor.told # "running") = 0 BY <1>1, <1>4 DEF One
  <2>7. ASSUME ~queue[1].receiver_gone PROVE 1 \in on /\ OwnersIs(queue[1], got[1], 0, 0, 0, 0, 0, 0)
    <3>1. there = TRUE BY <1>2, <1>8, <2>1, <2>7, NewIs
    <3>2. queue[1] = X!Registered(TRUE) BY <1>8, <3>1
    <3> QED BY <1>2, <1>8, <3>1, <3>2, OwnersNew
  <2>9. 0 \in Nat /\ 0 \in 0..1 OBVIOUS
  <2>8. LatersIs(queue[2], got[2], 0, on, 0) BY <1>8, <2>9, LatersNew, Zenon
  <2> QED BY <1>3, <2>3, <2>4, <2>5, <2>6, <2>7, <2>8 DEF Streamed, StreamsAre
<1> QED BY <1>5, <1>6, <1>9, <1>10 DEF OutputInv

LEMMA SubstrateBegins == X!SubstrateInit => SubstrateInv
<1>1. ASSUME X!SubstrateInit, scene # "output" PROVE IdleInv
  <2>1. X!Registered(FALSE) = X!NewQueue(FALSE) BY NewIs DEF X!Registered, X!Push, X!Finished
  <2>2. /\ flight = <<>> /\ kernel = <<>> /\ calls = 0 /\ cmds = <<>> /\ got = [s \in X!Streams |-> <<>>]
        /\ on = {} /\ queue = [s \in X!Streams |-> IF s = 1 THEN X!Registered(FALSE) ELSE X!NewQueue(TRUE)]
    BY <1>1 DEF X!SubstrateInit
  <2>3. cmds \in Seq(IdleCmd) BY <2>2
  <2> QED BY <2>1, <2>2, <2>3 DEF IdleInv
<1> QED BY <1>1, SignalBegins, OutputBegins DEF SubstrateInv

----------------------------------------------------------------------------
(* Steps that leave the channel and the streams alone. *)
LEMMA OutputWorld ==
  ASSUME OutputInv, BytesFly', Read' = Read, UNCHANGED <<owner, actor, ptyReader, ends, cmds, calls, queue, got, on>>
  PROVE  OutputInv'
<1>1. PICK h \in Nat : Asks(h) /\ Streamed(h) BY DEF OutputInv
<1>2. OutputTyped' BY DEF OutputInv, OutputTyped
<1>3. Asks(h)' BY <1>1 DEF Asks
<1>4. Streamed(h)' BY <1>1 DEF Streamed
<1> QED BY <1>2, <1>3, <1>4 DEF OutputInv

outVars == <<owner, actor, ptyReader, ends, flight, kernel, wrote, due, holders, ptyChild, cmds, calls, queue, got, on>>

LEMMA OutputStutters == ASSUME OutputInv, UNCHANGED outVars PROVE OutputInv'
<1>1. Read' = Read BY DEF Read, outVars
<1>2. BytesFly' BY <1>1 DEF OutputInv, BytesFly, outVars
<1> QED BY <1>1, <1>2, OutputWorld DEF outVars

LEMMA OutputFlies ==
  ASSUME OutputInv, X!Arrives \/ \E who \in {"child", "kin"} : X!Writes(who)
  PROVE  OutputInv'
<1>0. BytesFly BY DEF OutputInv
<1> DEFINE k == Len(kernel)
           y == Len(flight)
<1>t. flight \in Seq(Nat) /\ kernel \in Seq(Nat) /\ wrote \in Nat /\ k \in Nat /\ y \in Nat /\ Read = wrote - y - k
      /\ Read \in Nat BY <1>0 DEF BytesFly, Read
<1>1. CASE X!Arrives
  <2>1. flight # <<>> /\ kernel' = Append(kernel, Head(flight)) /\ flight' = Tail(flight) /\ wrote' = wrote
        /\ holders' = holders /\ ptyChild' = ptyChild /\ due' = due
        /\ UNCHANGED <<owner, actor, ptyReader, ends, cmds, calls, queue, got, on>>
    BY <1>1 DEF X!Arrives, X!World, X!childvars, X!threadvars, X!callvars, X!streamvars
  <2>2. /\ flight' \in Seq(Nat) /\ Len(flight') = y - 1 /\ y > 0
        /\ \A i \in 1..(y - 1) : flight'[i] = flight[i + 1]
        /\ Head(flight) = flight[1] /\ Head(flight) \in Nat BY <1>t, <2>1, Tailed
  <2>3. /\ kernel' \in Seq(Nat) /\ Len(kernel') = k + 1
        /\ \A i \in 1..k : kernel'[i] = kernel[i]
        /\ kernel'[k + 1] = Head(flight) BY <1>t, <2>1, <2>2, Appended
  <2>4. /\ \A i \in 1..y : flight[i] = wrote - y + i
        /\ \A i \in 1..k : kernel[i] = Read + i
        /\ due \in DueType /\ due.upto <= wrote /\ ends \in Nat /\ ends <= due.waited
        /\ ptyReader = "done" => holders = {} /\ ptyChild = "gone" /\ (~due.slow => due.upto <= Read)
    BY <1>0 DEF BytesFly
  <2>5. Read' = wrote' - Len(flight') - Len(kernel') BY DEF Read
  <2> HIDE DEF k, y
  <2>6. Read' = Read BY <1>t, <2>1, <2>2, <2>3, <2>5
  <2>7. flight[1] = wrote - y + 1 BY <2>2, <2>4, <1>t
  <2>8. \A i \in 1..Len(flight') : flight'[i] = wrote' - Len(flight') + i
    <3> SUFFICES ASSUME NEW i \in 1..(y - 1) PROVE flight'[i] = wrote - (y - 1) + i BY <2>1, <2>2
    <3>1. i + 1 \in 1..y BY <1>t
    <3>2. flight[i + 1] = wrote - y + (i + 1) BY <2>4, <3>1
    <3> QED BY <1>t, <2>2, <3>2
  <2>9. \A i \in 1..Len(kernel') : kernel'[i] = Read + i
    <3> SUFFICES ASSUME NEW i \in 1..(k + 1) PROVE kernel'[i] = Read + i BY <2>3
    <3>1. CASE i = k + 1 BY <1>t, <2>2, <2>3, <2>7, <3>1
    <3>2. CASE i \in 1..k BY <2>3, <2>4, <3>2
    <3> QED BY <1>t, <3>1, <3>2
  <2>10. BytesFly' BY <1>t, <2>1, <2>2, <2>3, <2>4, <2>6, <2>8, <2>9 DEF BytesFly
  <2> QED BY <2>1, <2>6, <2>10, OutputWorld
<1>2. ASSUME NEW who \in {"child", "kin"}, X!Writes(who) PROVE OutputInv'
  <2>1. who \in holders /\ wrote' = wrote + 1 /\ flight' = Append(flight, wrote + 1) /\ kernel' = kernel
        /\ holders' = holders /\ ptyChild' = ptyChild
        /\ UNCHANGED <<owner, actor, ptyReader, ends, cmds, calls, queue, got, on>>
    BY <1>2 DEF X!Writes, X!World, X!childvars, X!threadvars, X!callvars, X!streamvars
  <2>2. /\ flight' \in Seq(Nat) /\ Len(flight') = y + 1
        /\ \A i \in 1..y : flight'[i] = flight[i]
        /\ flight'[y + 1] = wrote + 1
    <3>1. wrote + 1 \in Nat BY <1>t
    <3> QED BY <1>t, <2>1, <3>1, Appended
  <2>4. /\ \A i \in 1..y : flight[i] = wrote - y + i
        /\ \A i \in 1..k : kernel[i] = Read + i
        /\ ptyReader = "done" => holders = {} BY <1>0 DEF BytesFly
  <2>5. Read' = wrote' - Len(flight') - Len(kernel') BY DEF Read
  <2>k. Len(kernel') = k BY <2>1
  <2> HIDE DEF k, y
  <2>6. Read' = Read BY <1>t, <2>1, <2>2, <2>5, <2>k
  <2>8. \A i \in 1..Len(flight') : flight'[i] = wrote' - Len(flight') + i
    <3> SUFFICES ASSUME NEW i \in 1..(y + 1) PROVE flight'[i] = (wrote + 1) - (y + 1) + i BY <2>1, <2>2
    <3>1. CASE i = y + 1 BY <1>t, <2>2, <3>1
    <3>2. CASE i \in 1..y BY <1>t, <2>2, <2>4, <3>2
    <3> QED BY <1>t, <3>1, <3>2
  <2>9. due' \in DueType /\ due'.upto <= wrote' /\ due'.waited = due.waited /\ ends \in Nat /\ ends <= due.waited
    <3>1. due \in DueType /\ due.upto <= wrote /\ ends \in Nat /\ ends <= due.waited BY <1>0 DEF BytesFly
    <3> DEFINE z == [due EXCEPT !.upto = wrote + 1]
    <3>5. wrote + 1 \in Nat BY <1>t
    <3>2. z \in DueType /\ z.upto = wrote + 1 /\ z.waited = due.waited BY <3>1, <3>5 DEF DueType
    <3>3. due' = z \/ due' = due BY <1>2, Zenon DEF X!Writes
    <3>4. due.upto \in Nat BY <3>1 DEF DueType
    <3> HIDE DEF z
    <3> QED BY <1>t, <2>1, <3>1, <3>2, <3>3, <3>4
  <2>10. BytesFly' BY <1>t, <2>1, <2>2, <2>4, <2>6, <2>8, <2>9, <2>k DEF BytesFly
  <2> QED BY <2>1, <2>6, <2>10, OutputWorld
<1> QED BY <1>1, <1>2

(* The child and its kin come and go; a reader that is done is past that. *)
LEMMA OutputChild ==
  ASSUME OutputInv, X!ChildReopens \/ X!ChildExits \/ X!KinLeaves \/ X!CollectFenced
  PROVE  OutputInv'
<1>0. BytesFly BY DEF OutputInv
<1>1. UNCHANGED <<flight, kernel, wrote, due, owner, actor, ptyReader, ends, cmds, calls, queue, got, on>>
  BY DEF X!ChildReopens, X!ChildExits, X!KinLeaves, X!CollectFenced, X!World, X!ReaperGuard, X!childvars, X!termvars,
         X!threadvars, X!callvars, X!streamvars
<1>2. ptyReader # "done"
  <2>1. ptyChild # "gone" \/ holders # {}
    BY DEF X!ChildReopens, X!ChildExits, X!KinLeaves, X!CollectFenced
  <2> QED BY <1>0, <2>1 DEF BytesFly
<1>3. Read' = Read BY <1>1 DEF Read
<1>4. BytesFly' BY <1>0, <1>1, <1>2, <1>3 DEF BytesFly
<1> QED BY <1>1, <1>3, <1>4, OutputWorld

----------------------------------------------------------------------------
(* read_master. *)
LEMMA OwnersRoom ==
  ASSUME NEW q \in QueueType, NEW g \in Seq(Ev), NEW h \in Nat, NEW r \in Int, NEW reading \in 0..1,
         NEW closed \in 0..1, NEW late \in 0..1, NEW over \in 0..1, NEW reading2 \in 0..1,
         OwnersIs(q, g, h, r, reading, closed, late, over),
         reading2 <= reading \/ q.queued + q.reserved < Capacity
  PROVE  OwnersIs(q, g, h, r, reading2, closed, late, over)
<1> DEFINE a == q.queued
           b == q.reserved
<1>1. a \in Int /\ b \in Int BY QueueFields
<1>2. a >= 0
  <2>1. q.events \in Seq(Ev) /\ Costs(q.events, a) BY QueueFields DEF OwnersIs
  <2> HIDE DEF a
  <2> QED BY <1>1, <2>1, CostsPositive
<1>3. a + 2 * b + 2 * reading <= 2 * Capacity + closed + over BY DEF OwnersIs
<1>4. reading2 <= reading \/ a + b < Capacity OBVIOUS
<1> HIDE DEF a, b
<1>5. a + 2 * b + 2 * reading2 <= 2 * Capacity + closed + over
  <2>1. CASE reading2 <= reading BY <1>1, <1>3, <2>1, SomeRoom
  <2>2. CASE a + b < Capacity BY <1>1, <1>2, <2>2, SomeRoom
  <2> QED BY <1>4, <2>1, <2>2
<1> QED BY <1>5 DEF OwnersIs, a, b

LEMMA StreamsRoom ==
  ASSUME NEW qs, NEW gs, NEW ons, NEW h \in Nat, NEW r \in Int, NEW reading \in 0..1,
         NEW closed \in 0..1, NEW late \in 0..1, NEW over \in 0..1, NEW reading2 \in 0..1,
         StreamsAre(qs, gs, ons, h, r, reading, closed, late, over),
         reading2 <= reading \/ qs[1].receiver_gone \/ qs[1].sender_gone \/ qs[1].queued + qs[1].reserved < Capacity
  PROVE  StreamsAre(qs, gs, ons, h, r, reading2, closed, late, over)
<1>1. 1 \in X!Streams BY DEF X!Streams
<1>2. qs[1] \in QueueType /\ gs[1] \in Seq(Ev) BY <1>1 DEF StreamsAre
<1>3. ASSUME ~qs[1].receiver_gone PROVE 1 \in ons /\ OwnersIs(qs[1], gs[1], h, r, reading2, closed, late, over)
  <2>1. 1 \in ons /\ OwnersIs(qs[1], gs[1], h, r, reading, closed, late, over) BY <1>3 DEF StreamsAre
  <2>2. ~qs[1].sender_gone BY <2>1 DEF OwnersIs
  <2>3. reading2 <= reading \/ qs[1].queued + qs[1].reserved < Capacity BY <1>3, <2>2
  <2> QED BY <1>2, <2>1, <2>3, OwnersRoom
<1> QED BY <1>3 DEF StreamsAre

LEMMA FlagsAre ==
  ASSUME SignalInv
  PROVE  /\ One(ptyReader = "read") \in 0..1 /\ One(actor.closed) \in 0..1 /\ One(actor.late) \in 0..1
         /\ One(actor.told # "running") \in 0..1
         /\ (One(ptyReader = "read") = 1 <=> ptyReader = "read")
BY DEF One

LEMMA OutputRoom == ASSUME SignalInv, OutputInv, X!WaitForRoom PROVE OutputInv'
<1>1. /\ ptyReader = "room" /\ ptyReader' = "read"
      /\ queue[1].receiver_gone \/ queue[1].sender_gone \/ queue[1].queued + queue[1].reserved < Capacity
      /\ UNCHANGED <<flight, kernel, wrote, due, holders, ptyChild, owner, actor, ends, cmds, calls, queue, got, on>>
  BY DEF X!WaitForRoom, X!ReaderGuard, X!childvars, X!callvars
<1>2. PICK h \in Nat : Asks(h) /\ Streamed(h) BY DEF OutputInv
<1>3. Read' = Read /\ Read \in Int BY <1>1 DEF Read, OutputInv, BytesFly
<1>4. OutputTyped' BY <1>1 DEF OutputInv, OutputTyped
<1>5. BytesFly' BY <1>1, <1>3 DEF OutputInv, BytesFly
<1>6. Asks(h)' BY <1>1, <1>2, <1>3 DEF Asks
<1>7. Streamed(h)'
  <2> DEFINE cl == One(actor.closed)
             la == One(actor.late)
             ov == One(actor.told # "running")
  <2>1. cl \in 0..1 /\ la \in 0..1 /\ ov \in 0..1 BY FlagsAre
  <2>2. One(ptyReader = "read") = 0 /\ One(ptyReader' = "read") = 1 BY <1>1 DEF One
  <2>3. StreamsAre(queue, got, on, h, Read, 0, cl, la, ov) BY <1>2, <2>2 DEF Streamed
  <2> HIDE DEF cl, la, ov
  <2>5. 0 \in 0..1 /\ 1 \in 0..1 OBVIOUS
  <2>4. StreamsAre(queue, got, on, h, Read, 1, cl, la, ov) BY <1>1, <1>3, <2>1, <2>3, <2>5, StreamsRoom
  <2> QED BY <1>1, <1>3, <2>2, <2>4 DEF Streamed, cl, la, ov
<1> QED BY <1>4, <1>5, <1>6, <1>7 DEF OutputInv

LEMMA OutputEnds == ASSUME SignalInv, OutputInv, scene = "output", X!ReadsEnd PROVE OutputInv'
<1>1. /\ ptyReader = "read" /\ kernel = <<>> /\ holders = {}
      /\ ptyReader' = IF X!BelievesEnd THEN "done" ELSE "room"
      /\ cmds' = IF X!BelievesEnd THEN Append(cmds, [t |-> "closed", v |-> 0]) ELSE cmds
      /\ ends' = IF ends < END_RETRIES THEN ends + 1 ELSE ends
      /\ due' = [due EXCEPT !.waited = IF @ < END_RETRIES THEN @ + 1 ELSE @,
                            !.slow = @ \/ (due.waited >= END_RETRIES /\ flight # <<>> /\ Head(flight) <= due.upto)]
      /\ UNCHANGED <<flight, kernel, wrote, holders, ptyChild, owner, actor, calls, queue, got, on>>
  BY DEF X!Waiting, X!ReadsEnd, X!ReaderGuard, X!childvars, X!callvars
<1>2. PICK h \in Nat : Asks(h) /\ Streamed(h) BY DEF OutputInv
<1>3. Read' = Read /\ Read \in Nat BY <1>1 DEF Read, OutputInv, BytesFly
<1>4. OutputTyped' BY <1>1 DEF OutputInv, OutputTyped
<1>5. BytesFly'
  <2>0. /\ BytesFly /\ due \in DueType /\ due.upto <= wrote /\ ends \in Nat /\ ends <= due.waited /\ wrote \in Nat
        /\ END_RETRIES \in Nat BY SessionAssumption DEF OutputInv, BytesFly
  <2> DEFINE sl == due.waited >= END_RETRIES /\ flight # <<>> /\ Head(flight) <= due.upto
             wt == IF due.waited < END_RETRIES THEN due.waited + 1 ELSE due.waited
  <2>2. due.waited \in Nat /\ due.upto \in Nat /\ due.slow \in BOOLEAN BY <2>0 DEF DueType
  <2>3. wt \in Nat /\ ends' \in Nat /\ ends' <= wt BY <1>1, <2>0, <2>2
  <2>4. due' = [due EXCEPT !.waited = wt, !.slow = due.slow \/ sl] BY <1>1, <2>0 DEF DueType
  <2> HIDE DEF sl, wt
  <2>5. /\ due' \in DueType /\ due'.upto = due.upto /\ due'.waited = wt /\ due'.slow = (due.slow \/ sl)
    <3>1. (due.slow \/ sl) \in BOOLEAN BY <2>2 DEF sl
    <3> QED BY <2>0, <2>3, <2>4, <3>1 DEF DueType
  <2>1. ASSUME X!BelievesEnd PROVE ptyChild = "gone" /\ (sl \/ due.upto <= Read)
    <3>1. ends >= END_RETRIES /\ reaped BY <2>1 DEF X!BelievesEnd, X!CanReopenTerminal
    <3>2. due.waited >= END_RETRIES BY <2>0, <2>2, <3>1
    <3>3. ptyChild = "gone" BY <3>1 DEF SignalInv, SignalTyped
    <3>4. Len(kernel) = 0 /\ Len(flight) \in Nat /\ Read = wrote - Len(flight) - Len(kernel) /\ flight \in Seq(Nat)
      BY <1>1, <2>0 DEF BytesFly, Read
    <3>5. CASE flight = <<>>
      <4>1. Len(flight) = 0 BY <3>5
      <4>2. Read = wrote BY <2>0, <3>4, <4>1
      <4> QED BY <2>0, <3>3, <4>2
    <3>6. CASE flight # <<>>
      <4>1. 1 \in 1..Len(flight) /\ Head(flight) = flight[1] BY <3>4, <3>6
      <4>2. flight[1] = wrote - Len(flight) + 1 BY <2>0, <4>1 DEF BytesFly
      <4>3. Head(flight) = Read + 1 BY <2>0, <3>4, <4>1, <4>2
      <4>4. Head(flight) <= due.upto \/ due.upto <= Read BY <1>3, <2>2, <4>3
      <4> QED BY <3>2, <3>3, <3>6, <4>4 DEF sl
    <3> QED BY <3>5, <3>6
  <2>6. /\ due' \in DueType /\ due'.upto <= wrote' /\ ends' \in Nat /\ ends' <= due'.waited
        /\ ptyReader' = "done" => holders' = {} /\ ptyChild' = "gone" /\ (~due'.slow => due'.upto <= Read')
    BY <1>1, <1>3, <2>0, <2>1, <2>3, <2>5
  <2> QED BY <1>1, <1>3, <2>0, <2>6 DEF BytesFly
<1>6. Asks(h)'
  <2>0. cmds \in Seq(Cmd) /\ ~Has(cmds, "closed") /\ ~actor.closed BY <1>1, <1>2 DEF Asks
  <2>1. CASE X!BelievesEnd
    <3> DEFINE c == [t |-> "closed", v |-> 0]
    <3>1. c \in Cmd /\ c.t = "closed" BY CommandIn
    <3>2. cmds' = Append(cmds, c) BY <1>1, <2>1
    <3> HIDE DEF c
    <3>3. /\ cmds' \in Seq(Cmd) /\ Closes(cmds') /\ Once(cmds')
          /\ \A tt : Has(cmds, tt) => Has(cmds', tt)
          /\ \A tt : Has(cmds', tt) => Has(cmds, tt) \/ tt = "closed"
      BY <1>2, <2>0, <3>1, <3>2, AskedKept DEF Asks
    <3>4. Outputs(cmds', h, Read) BY <1>2, <1>3, <2>0, <3>1, <3>2, OutputsAsked DEF Asks
    <3> QED BY <1>1, <1>2, <1>3, <2>0, <2>1, <3>3, <3>4 DEF Asks
  <2>2. CASE ~X!BelievesEnd BY <1>1, <1>2, <1>3, <2>0, <2>2 DEF Asks
  <2> QED BY <2>1, <2>2
<1>7. Streamed(h)'
  <2> DEFINE cl == One(actor.closed)
             la == One(actor.late)
             ov == One(actor.told # "running")
  <2>1. cl \in 0..1 /\ la \in 0..1 /\ ov \in 0..1 BY FlagsAre
  <2>2. One(ptyReader = "read") = 1 /\ One(ptyReader' = "read") = 0 BY <1>1 DEF One
  <2>3. StreamsAre(queue, got, on, h, Read, 1, cl, la, ov) BY <1>2, <2>2 DEF Streamed
  <2> HIDE DEF cl, la, ov
  <2>5. 0 \in 0..1 /\ 1 \in 0..1 /\ 0 <= 1 /\ Read \in Int BY <1>3
  <2>4. StreamsAre(queue, got, on, h, Read, 0, cl, la, ov) BY <2>1, <2>3, <2>5, StreamsRoom
  <2> QED BY <1>1, <1>3, <2>2, <2>4 DEF Streamed, cl, la, ov
<1> QED BY <1>4, <1>5, <1>6, <1>7 DEF OutputInv

LEMMA OwnersReserve ==
  ASSUME NEW q \in QueueType, NEW g \in Seq(Ev), NEW h \in Nat, NEW r \in Int,
         NEW closed \in 0..1, NEW late \in 0..1, NEW over \in 0..1,
         OwnersIs(q, g, h, r, 1, closed, late, over)
  PROVE  /\ [q EXCEPT !.reserved = q.reserved + 1] \in QueueType
         /\ OwnersIs([q EXCEPT !.reserved = q.reserved + 1], g, h, r + 1, 0, closed, late, over)
<1> DEFINE a == q.queued
           b == q.reserved
           b2 == b + 1
           z == [q EXCEPT !.reserved = b2]
<1>1. a \in Int /\ b \in Int /\ b2 \in Int /\ b2 = b + 1 BY QueueFields
<1>2. a + 2 * b + 2 * 1 <= 2 * Capacity + closed + over /\ b = r - h BY DEF OwnersIs
<1>0. z = [q EXCEPT !.reserved = q.reserved + 1] OBVIOUS
<1> HIDE DEF b2
<1>3. /\ z \in QueueType /\ z.events = q.events /\ z.queued = q.queued /\ z.reserved = b2
      /\ z.overflowed = q.overflowed /\ z.sender_gone = q.sender_gone BY <1>1 DEF QueueType
<1> HIDE DEF z
<1>4. ~q.overflowed /\ ~q.sender_gone BY DEF OwnersIs
<1>5. ~z.overflowed /\ ~z.sender_gone BY <1>3, <1>4
<1>6. z.queued = a BY <1>3
<1> HIDE DEF a, b
<1>7. z.queued + 2 * z.reserved + 2 * 0 <= 2 * Capacity + closed + over
  <2>1. a + 2 * b2 + 2 * 0 <= 2 * Capacity + closed + over BY <1>1, <1>2, SomeRoom
  <2> QED BY <1>3, <1>6, <2>1
<1>8. z.reserved = (r + 1) - h BY <1>1, <1>2, <1>3
<1>9. OwnersIs(z, g, h, r + 1, 0, closed, late, over) BY <1>3, <1>5, <1>7, <1>8 DEF OwnersIs
<1> QED BY <1>0, <1>3, <1>9

LEMMA OutputReads == ASSUME SignalInv, OutputInv, X!ReadsData PROVE OutputInv'
<1>1. /\ ptyReader = "read" /\ kernel # <<>> /\ kernel' = Tail(kernel) /\ ends' = 0 /\ ptyReader' = "room"
      /\ queue' = [queue EXCEPT ![1].reserved = IF queue[1].receiver_gone THEN @ ELSE @ + 1]
      /\ cmds' = Append(cmds, [t |-> "output", v |-> Head(kernel)])
      /\ due' = [due EXCEPT !.upto = wrote, !.waited = 0]
      /\ UNCHANGED <<flight, wrote, holders, ptyChild, owner, actor, calls, got, on>>
  BY DEF X!ReadsData, X!ReaderGuard, X!childvars, X!callvars
<1>2. PICK h \in Nat : Asks(h) /\ Streamed(h) BY DEF OutputInv
<1>3. OutputTyped' BY <1>1 DEF OutputInv, OutputTyped
<1>b. BytesFly BY DEF OutputInv
<1>4. /\ kernel' \in Seq(Nat) /\ Len(kernel') = Len(kernel) - 1 /\ Len(kernel) \in Nat \ {0}
      /\ \A i \in 1..(Len(kernel) - 1) : kernel'[i] = kernel[i + 1]
      /\ Head(kernel) = kernel[1] BY <1>1, <1>b, Tailed DEF BytesFly
<1>5. Head(kernel) = Read + 1 /\ Read \in Nat
  <2>1. \A i \in 1..Len(kernel) : kernel[i] = Read + i BY <1>b DEF BytesFly
  <2>2. 1 \in 1..Len(kernel) BY <1>4
  <2> QED BY <1>4, <1>b, <2>1, <2>2 DEF BytesFly
<1>6. Read' = Read + 1
  <2> DEFINE y == Len(flight)
             k == Len(kernel)
  <2>1. Read = wrote - y - k /\ Read' = wrote - y - (k - 1) BY <1>1, <1>4 DEF Read
  <2>2. wrote \in Nat /\ y \in Nat /\ k \in Nat BY <1>4, <1>b DEF BytesFly
  <2> HIDE DEF y, k
  <2> QED BY <2>1, <2>2
<1>7. BytesFly'
  <2>1. \A i \in 1..Len(kernel') : kernel'[i] = Read' + i
    <3> SUFFICES ASSUME NEW i \in 1..(Len(kernel) - 1) PROVE kernel'[i] = (Read + 1) + i BY <1>4, <1>6
    <3>1. i + 1 \in 1..Len(kernel) BY <1>4
    <3>2. kernel[i + 1] = Read + (i + 1) BY <1>b, <3>1 DEF BytesFly
    <3> QED BY <1>4, <1>5, <3>2
  <2>2. due' \in DueType /\ due'.upto = wrote /\ due'.waited = 0 /\ wrote \in Nat BY <1>1, <1>b DEF BytesFly, DueType
  <2> QED BY <1>1, <1>4, <1>5, <1>6, <1>b, <2>1, <2>2 DEF BytesFly
<1>8. Asks(h)'
  <2>0. cmds \in Seq(Cmd) /\ ~Has(cmds, "closed") /\ ~actor.closed BY <1>1, <1>2 DEF Asks
  <2> DEFINE c == [t |-> "output", v |-> Head(kernel)]
  <2>1. c \in Cmd /\ c.t = "output" /\ c.v = Read + 1
    <3>1. Read + 1 \in Nat BY <1>5
    <3> QED BY <1>5, <3>1, CommandIn
  <2>2. cmds' = Append(cmds, c) BY <1>1
  <2> HIDE DEF c
  <2>3. /\ cmds' \in Seq(Cmd) /\ Closes(cmds') /\ Once(cmds')
        /\ \A tt : Has(cmds', tt) => Has(cmds, tt) \/ tt = "output"
    BY <1>2, <2>0, <2>1, <2>2, AskedKept DEF Asks
  <2>4. Outputs(cmds', h, Read + 1) /\ h <= Read + 1
    <3>1. h <= Read /\ Outputs(cmds, h, Read) BY <1>2 DEF Asks
    <3> QED BY <1>5, <2>0, <2>1, <2>2, <3>1, OutputsRead
  <2>5. queue'[2] = queue[2]
    <3>1. 2 \in X!Streams /\ queue \in [X!Streams -> QueueType] BY <1>2 DEF Streamed, StreamsAre, X!Streams
    <3> QED BY <1>1, <3>1
  <2> QED BY <1>1, <1>2, <1>6, <2>0, <2>3, <2>4, <2>5 DEF Asks
<1>9. Streamed(h)'
  <2> DEFINE cl == One(actor.closed)
             la == One(actor.late)
             ov == One(actor.told # "running")
  <2>1. cl \in 0..1 /\ la \in 0..1 /\ ov \in 0..1 BY FlagsAre
  <2>2. One(ptyReader = "read") = 1 /\ One(ptyReader' = "read") = 0 BY <1>1 DEF One
  <2>3. StreamsAre(queue, got, on, h, Read, 1, cl, la, ov) BY <1>2, <2>2 DEF Streamed
  <2> HIDE DEF cl, la, ov
  <2>4. 1 \in X!Streams /\ 2 \in X!Streams BY DEF X!Streams
  <2>5. queue[1] \in QueueType /\ queue[2] \in QueueType /\ got[1] \in Seq(Ev) BY <2>3, <2>4 DEF StreamsAre
  <2>6. queue'[2] = queue[2] /\ DOMAIN queue' = X!Streams
    <3>1. queue \in [X!Streams -> QueueType] BY <2>3 DEF StreamsAre
    <3> QED BY <1>1, <2>4, <3>1
  <2>7. queue'[1] = [queue[1] EXCEPT !.reserved = IF queue[1].receiver_gone THEN queue[1].reserved ELSE queue[1].reserved + 1]
    <3>1. queue \in [X!Streams -> QueueType] BY <2>3 DEF StreamsAre
    <3> QED BY <1>1, <2>4, <3>1
  <2>8. CASE queue[1].receiver_gone
    <3>1. queue'[1] = queue[1]
      <4>1. queue'[1] = [queue[1] EXCEPT !.reserved = queue[1].reserved] BY <2>7, <2>8
      <4> QED BY <2>5, <4>1 DEF QueueType
    <3>2. queue' = queue
      <4>1. queue \in [X!Streams -> QueueType] BY <2>3 DEF StreamsAre
      <4>2. \A s \in X!Streams : queue'[s] = queue[s] BY <2>6, <3>1 DEF X!Streams
      <4>3. queue' = [s \in X!Streams |-> queue'[s]] BY <1>1, <4>1
      <4> QED BY <4>1, <4>2, <4>3
    <3>3. StreamsAre(queue, got, on, h, Read + 1, 0, cl, la, ov) BY <2>3, <2>8 DEF StreamsAre
    <3> QED BY <1>1, <1>6, <2>2, <3>2, <3>3 DEF Streamed, cl, la, ov
  <2>9. CASE ~queue[1].receiver_gone
    <3>1. queue'[1] = [queue[1] EXCEPT !.reserved = queue[1].reserved + 1] BY <2>7, <2>9
    <3>2. 1 \in on /\ OwnersIs(queue[1], got[1], h, Read, 1, cl, la, ov) BY <2>3, <2>9 DEF StreamsAre
    <3>3. queue'[1] \in QueueType /\ OwnersIs(queue'[1], got[1], h, Read + 1, 0, cl, la, ov)
      <4>1. Read \in Int BY <1>5
      <4> QED BY <2>1, <2>5, <3>1, <3>2, <4>1, OwnersReserve
    <3>4. queue' \in [X!Streams -> QueueType]
      <4>1. queue' = [s \in X!Streams |-> queue'[s]]
        <5>1. queue \in [X!Streams -> QueueType] BY <2>3 DEF StreamsAre
        <5> QED BY <1>1, <5>1
      <4>2. \A s \in X!Streams : queue'[s] \in QueueType BY <2>5, <2>6, <3>3 DEF X!Streams
      <4> QED BY <4>1, <4>2
    <3>5. StreamsAre(queue', got, on, h, Read + 1, 0, cl, la, ov) BY <2>3, <2>6, <3>2, <3>3, <3>4 DEF StreamsAre
    <3> QED BY <1>1, <1>6, <2>2, <3>5 DEF Streamed, cl, la, ov
  <2> QED BY <2>8, <2>9
<1> QED BY <1>3, <1>7, <1>8, <1>9 DEF OutputInv

(* What clients, the reaper and the owner of a stream do. *)
LEMMA OutputAsked ==
  ASSUME OutputInv, NEW c \in Cmd, c.t \in {"reaped", "attach"}, cmds' = Append(cmds, c),
         c.t = "attach" => calls = 0 /\ calls' = 1, c.t = "reaped" => calls' = calls,
         UNCHANGED <<owner, actor, ptyReader, ends, flight, kernel, wrote, due, holders, ptyChild, queue, got, on>>
  PROVE  OutputInv'
<1>1. PICK h \in Nat : Asks(h) /\ Streamed(h) BY DEF OutputInv
<1>2. Read' = Read /\ Read \in Nat BY DEF Read, OutputInv, BytesFly
<1>3. OutputTyped' BY DEF OutputInv, OutputTyped
<1>4. BytesFly' BY <1>2 DEF OutputInv, BytesFly
<1>5. Streamed(h)' BY <1>1, <1>2 DEF Streamed
<1>6. Asks(h)'
  <2>0. cmds \in Seq(Cmd) /\ (c.t = "attach" => ~Has(cmds, "attach")) BY <1>1 DEF Asks
  <2>3. /\ cmds' \in Seq(Cmd) /\ Closes(cmds') /\ Once(cmds')
        /\ \A tt : Has(cmds', tt) => Has(cmds, tt) \/ tt = c.t BY <1>1, <2>0, AskedKept DEF Asks
  <2>4. Outputs(cmds', h, Read) BY <1>1, <1>2, <2>0, OutputsAsked DEF Asks
  <2>5. /\ Has(cmds', "closed") => Has(cmds, "closed")
        /\ Has(cmds', "output") => Has(cmds, "output") BY <2>3
  <2>6. CASE c.t = "attach"
    <3>1. calls = 0 /\ calls' = 1 BY <2>6
    <3>2. queue[2] = X!NewQueue(TRUE) /\ got[2] = <<>> /\ 2 \notin on BY <1>1, <3>1 DEF Asks
    <3> QED BY <1>1, <1>2, <2>3, <2>4, <2>5, <3>1, <3>2 DEF Asks
  <2>7. CASE c.t = "reaped"
    <3>1. calls' = calls BY <2>7
    <3>2. Has(cmds', "attach") => Has(cmds, "attach") BY <2>3, <2>7
    <3> QED BY <1>1, <1>2, <2>3, <2>4, <2>5, <3>1, <3>2 DEF Asks
  <2> QED BY <2>6, <2>7
<1> QED BY <1>3, <1>4, <1>5, <1>6 DEF OutputInv

LEMMA StreamsReplace ==
  ASSUME NEW qs, NEW gs, NEW ons, NEW h \in Nat, NEW r \in Int, NEW reading \in 0..1,
         NEW closed \in 0..1, NEW late \in 0..1, NEW over \in 0..1,
         StreamsAre(qs, gs, ons, h, r, reading, closed, late, over),
         NEW qs2 \in [X!Streams -> QueueType], NEW gs2 \in [X!Streams -> Seq(Ev)], NEW s \in X!Streams,
         \A o \in X!Streams : o # s => qs2[o] = qs[o] /\ gs2[o] = gs[o],
         ~qs2[s].receiver_gone => ~qs[s].receiver_gone,
         s = 1 /\ ~qs2[1].receiver_gone => OwnersIs(qs2[1], gs2[1], h, r, reading, closed, late, over),
         s = 2 /\ ~qs2[2].receiver_gone => LatersIs(qs2[2], gs2[2], h, ons, closed)
  PROVE  StreamsAre(qs2, gs2, ons, h, r, reading, closed, late, over)
<1>1. 1 \in X!Streams /\ 2 \in X!Streams /\ s \in {1, 2} BY DEF X!Streams
<1>2. CASE s = 1 BY <1>1, <1>2 DEF StreamsAre
<1>3. CASE s = 2 BY <1>1, <1>3 DEF StreamsAre
<1> QED BY <1>1, <1>2, <1>3

LEMMA OutputPops == ASSUME SignalInv, OutputInv, NEW s \in X!Streams, X!Pop(s) PROVE OutputInv'
<1>1. /\ ~queue[s].receiver_gone /\ (s = 1 \/ got[s] # <<>> \/ queue[s].events # <<>>)
      /\ UNCHANGED <<owner, actor, ptyReader, ends, flight, kernel, wrote, due, holders, ptyChild, cmds, calls, on>>
  BY DEF X!Pop, X!childvars, X!termvars, X!threadvars, X!callvars
<1>2. PICK h \in Nat : Asks(h) /\ Streamed(h) BY DEF OutputInv
<1>3. Read' = Read /\ Read \in Nat BY <1>1 DEF Read, OutputInv, BytesFly
<1>4. OutputTyped' BY <1>1 DEF OutputInv, OutputTyped
<1>5. BytesFly' BY <1>1, <1>3 DEF OutputInv, BytesFly
<1>6. 1 \in X!Streams /\ 2 \in X!Streams /\ s \in {1, 2} BY DEF X!Streams
<1> DEFINE rd == One(ptyReader = "read")
           cl == One(actor.closed)
           la == One(actor.late)
           ov == One(actor.told # "running")
<1>7. rd \in 0..1 /\ cl \in 0..1 /\ la \in 0..1 /\ ov \in 0..1 BY FlagsAre
<1>8. StreamsAre(queue, got, on, h, Read, rd, cl, la, ov) BY <1>2 DEF Streamed
<1>s. StreamsAre(queue', got', on, h, Read, rd, cl, la, ov) => Streamed(h)' BY <1>1, <1>3 DEF Streamed
<1> HIDE DEF rd, cl, la, ov
<1>9. queue \in [X!Streams -> QueueType] /\ got \in [X!Streams -> Seq(Ev)] BY <1>8 DEF StreamsAre
<1>10. queue[s] \in QueueType /\ got[s] \in Seq(Ev) /\ queue[s].events \in Seq(Ev) BY <1>9, QueueFields
<1>11. /\ queue' \in [X!Streams -> QueueType] /\ got' \in [X!Streams -> Seq(Ev)]
       /\ \A o \in X!Streams : o # s => queue'[o] = queue[o] /\ got'[o] = got[o]
       /\ ~queue'[s].receiver_gone => ~queue[s].receiver_gone
       /\ s = 1 /\ ~queue'[1].receiver_gone => OwnersIs(queue'[1], got'[1], h, Read, rd, cl, la, ov)
       /\ s = 2 /\ ~queue'[2].receiver_gone => LatersIs(queue'[2], got'[2], h, on, cl)
  <2>1. CASE queue[s].events # <<>>
    <3>1. /\ queue' = [queue EXCEPT ![s].events = Tail(@), ![s].queued = @ - X!EventCost(Head(queue[s].events))]
          /\ got' = [got EXCEPT ![s] = Append(@, Head(queue[s].events))] BY <2>1 DEF X!Pop
    <3>2. queue'[s] = Popped(queue[s]) /\ \A o \in X!Streams : o # s => queue'[o] = queue[o]
      BY <1>9, <3>1 DEF Popped
    <3>3. got'[s] = Append(got[s], Head(queue[s].events)) /\ \A o \in X!Streams : o # s => got'[o] = got[o]
      BY <1>9, <3>1
    <3>4. Popped(queue[s]) \in QueueType /\ (Popped(queue[s]).receiver_gone <=> queue[s].receiver_gone)
      BY <1>10, <2>1, PoppedIs
    <3>5. Head(queue[s].events) \in Ev BY <1>10, <2>1
    <3>6. queue' \in [X!Streams -> QueueType]
      <4>1. queue' = [o \in X!Streams |-> queue'[o]] BY <1>9, <3>1
      <4>2. \A o \in X!Streams : queue'[o] \in QueueType BY <1>9, <3>2, <3>4
      <4> QED BY <4>1, <4>2
    <3>7. got' \in [X!Streams -> Seq(Ev)]
      <4>1. Append(got[s], Head(queue[s].events)) \in Seq(Ev) BY <1>10, <3>5
      <4> QED BY <1>9, <3>1, <4>1
    <3>8. s = 1 => OwnersIs(queue'[1], got'[1], h, Read, rd, cl, la, ov)
      <4>1. ASSUME s = 1 PROVE OwnersIs(queue[1], got[1], h, Read, rd, cl, la, ov) BY <1>1, <1>8, <4>1 DEF StreamsAre
      <4>2. Read \in Int BY <1>3
      <4>3. ASSUME s = 1 PROVE OwnersIs(queue'[1], got'[1], h, Read, rd, cl, la, ov)
        <5>1. /\ queue[1] \in QueueType /\ got[1] \in Seq(Ev) /\ queue[1].events # <<>>
              /\ queue'[1] = Popped(queue[1]) /\ got'[1] = Append(got[1], Head(queue[1].events))
          BY <1>10, <2>1, <3>2, <3>3, <4>3
        <5>2. OwnersIs(queue[1], got[1], h, Read, rd, cl, la, ov) BY <4>1, <4>3
        <5>3. OwnersIs(Popped(queue[1]), Append(got[1], Head(queue[1].events)), h, Read, rd, cl, la, ov)
          BY <1>7, <4>2, <5>1, <5>2, OwnersPop
        <5> QED BY <5>1, <5>3
      <4> QED BY <4>3
    <3>9. s = 2 => LatersIs(queue'[2], got'[2], h, on, cl)
      <4>1. ASSUME s = 2 PROVE LatersIs(queue[2], got[2], h, on, cl) BY <1>1, <1>8, <4>1 DEF StreamsAre
      <4>3. ASSUME s = 2 PROVE LatersIs(queue'[2], got'[2], h, on, cl)
        <5>1. /\ queue[2] \in QueueType /\ got[2] \in Seq(Ev) /\ queue[2].events # <<>>
              /\ queue'[2] = Popped(queue[2]) /\ got'[2] = Append(got[2], Head(queue[2].events))
          BY <1>10, <2>1, <3>2, <3>3, <4>3
        <5>2. LatersIs(queue[2], got[2], h, on, cl) BY <4>1, <4>3
        <5>3. LatersIs(Popped(queue[2]), Append(got[2], Head(queue[2].events)), h, on, cl)
          BY <1>7, <5>1, <5>2, LatersPop
        <5> QED BY <5>1, <5>3
      <4> QED BY <4>3
    <3> QED BY <1>1, <3>2, <3>3, <3>6, <3>7, <3>8, <3>9
  <2>2. CASE queue[s].events = <<>>
    <3>1. queue' = queue /\ \E x \in {"overflowed", "closed"} : got' = [got EXCEPT ![s] = Append(@, <<"error", x>>)]
      BY <2>2 DEF X!Pop, X!Event
    <3>2. PICK x \in {"overflowed", "closed"} : got' = [got EXCEPT ![s] = Append(@, <<"error", x>>)] BY <3>1
    <3> DEFINE ev == <<"error", x>>
    <3>3. ev \in Ev /\ ev[1] = "error" BY DEF Ev
    <3>4. got' = [got EXCEPT ![s] = Append(got[s], ev)] BY <3>2
    <3> HIDE DEF ev
    <3>5. Append(got[s], ev) \in Seq(Ev) BY <1>10, <3>3
    <3>6. got'[s] = Append(got[s], ev) /\ (\A o \in X!Streams : o # s => got'[o] = got[o])
          /\ got' \in [X!Streams -> Seq(Ev)] BY <1>9, <3>4, <3>5
    <3>7. ASSUME s = 1 PROVE OwnersIs(queue[1], got'[1], h, Read, rd, cl, la, ov)
      <4>1. OwnersIs(queue[1], got[1], h, Read, rd, cl, la, ov) BY <1>1, <1>8, <3>7 DEF StreamsAre
      <4>2. Read \in Int BY <1>3
      <4>3. queue[1] \in QueueType /\ got[1] \in Seq(Ev) /\ queue[1].events = <<>> /\ got'[1] = Append(got[1], ev)
        BY <1>10, <2>2, <3>6, <3>7
      <4>4. OwnersIs(queue[1], Append(got[1], ev), h, Read, rd, cl, la, ov)
        BY <1>7, <3>3, <4>1, <4>2, <4>3, ErrorsPop
      <4> QED BY <4>3, <4>4
    <3>8. ASSUME s = 2 PROVE LatersIs(queue[2], got'[2], h, on, cl)
      <4>1. LatersIs(queue[2], got[2], h, on, cl) BY <1>1, <1>8, <3>8 DEF StreamsAre
      <4>2. Read \in Int BY <1>3
      <4>3. queue[2] \in QueueType /\ got[2] \in Seq(Ev) /\ queue[2].events = <<>> /\ got'[2] = Append(got[2], ev)
        BY <1>10, <2>2, <3>6, <3>8
      <4>4. LatersIs(queue[2], Append(got[2], ev), h, on, cl) BY <1>7, <3>3, <4>1, <4>2, <4>3, ErrorsPop
      <4> QED BY <4>3, <4>4
    <3> QED BY <1>9, <3>1, <3>6, <3>7, <3>8
  <2> QED BY <2>1, <2>2
<1>12. StreamsAre(queue', got', on, h, Read, rd, cl, la, ov)
  <2>1. Read \in Int BY <1>3
  <2>2. queue' \in [X!Streams -> QueueType] BY <1>11
  <2>3. got' \in [X!Streams -> Seq(Ev)] BY <1>11
  <2>4. \A o \in X!Streams : o # s => queue'[o] = queue[o] /\ got'[o] = got[o] BY <1>11
  <2>5. ~queue'[s].receiver_gone => ~queue[s].receiver_gone BY <1>11
  <2>6. s = 1 /\ ~queue'[1].receiver_gone => OwnersIs(queue'[1], got'[1], h, Read, rd, cl, la, ov) BY <1>11
  <2>7. s = 2 /\ ~queue'[2].receiver_gone => LatersIs(queue'[2], got'[2], h, on, cl) BY <1>11
  <2> QED BY ONLY s \in X!Streams, h \in Nat, <1>7, <1>8, <2>1, <2>2, <2>3, <2>4, <2>5, <2>6, <2>7, StreamsReplace, ZenonT(60)
<1>13. Asks(h)'
  <2>1. ASSUME queue[2] = X!NewQueue(TRUE), got[2] = <<>> PROVE queue'[2] = queue[2] /\ got'[2] = got[2]
    <3>1. queue[2].events = <<>> BY <2>1, NewIs
    <3>2. s # 2
      <4> SUFFICES ASSUME s = 2 PROVE FALSE OBVIOUS
      <4>1. got[2] # <<>> \/ queue[2].events # <<>> BY <1>1
      <4> QED BY <2>1, <3>1, <4>1
    <3> QED BY <1>6, <1>11, <3>2
  <2> QED BY <1>1, <1>2, <1>3, <2>1 DEF Asks
<1> QED BY <1>4, <1>5, <1>12, <1>13, <1>s DEF OutputInv

LEMMA OutputDrops == ASSUME SignalInv, OutputInv, NEW s \in X!Streams, X!DropStream(s) PROVE OutputInv'
<1>1. /\ s \in on
      /\ queue' = [queue EXCEPT ![s] = [@ EXCEPT !.receiver_gone = TRUE, !.events = <<>>, !.queued = 0]]
      /\ UNCHANGED <<owner, actor, ptyReader, ends, flight, kernel, wrote, due, holders, ptyChild, cmds, calls, got, on>>
  BY DEF X!DropStream, X!childvars, X!termvars, X!threadvars, X!callvars
<1>2. PICK h \in Nat : Asks(h) /\ Streamed(h) BY DEF OutputInv
<1>3. Read' = Read /\ Read \in Nat BY <1>1 DEF Read, OutputInv, BytesFly
<1>4. OutputTyped' BY <1>1 DEF OutputInv, OutputTyped
<1>5. BytesFly' BY <1>1, <1>3 DEF OutputInv, BytesFly
<1>6. 1 \in X!Streams /\ 2 \in X!Streams /\ s \in {1, 2} BY DEF X!Streams
<1> DEFINE rd == One(ptyReader = "read")
           cl == One(actor.closed)
           la == One(actor.late)
           ov == One(actor.told # "running")
<1>7. rd \in 0..1 /\ cl \in 0..1 /\ la \in 0..1 /\ ov \in 0..1 BY FlagsAre
<1>8. StreamsAre(queue, got, on, h, Read, rd, cl, la, ov) BY <1>2 DEF Streamed
<1>s. StreamsAre(queue', got, on, h, Read, rd, cl, la, ov) => Streamed(h)' BY <1>1, <1>3 DEF Streamed
<1> HIDE DEF rd, cl, la, ov
<1>9. queue \in [X!Streams -> QueueType] /\ got \in [X!Streams -> Seq(Ev)] BY <1>8 DEF StreamsAre
<1> DEFINE q1 == [queue[s] EXCEPT !.receiver_gone = TRUE]
           q2 == [q1 EXCEPT !.events = <<>>]
           q3 == [q2 EXCEPT !.queued = 0]
<1>10. queue' = [queue EXCEPT ![s] = q3] BY <1>1
<1>11. q3 \in QueueType /\ q3.receiver_gone = TRUE
  <2>1. queue[s] \in QueueType /\ <<>> \in Seq(Ev) BY <1>9
  <2>2. q1 \in QueueType /\ q1.receiver_gone = TRUE BY <2>1 DEF QueueType
  <2> HIDE DEF q1
  <2>3. q2 \in QueueType /\ q2.receiver_gone = q1.receiver_gone BY <2>1, <2>2 DEF QueueType
  <2> HIDE DEF q2
  <2>4. q3 \in QueueType /\ q3.receiver_gone = q2.receiver_gone BY <2>3 DEF QueueType
  <2> HIDE DEF q3
  <2> QED BY <2>2, <2>3, <2>4
<1> HIDE DEF q3
<1>12. queue' \in [X!Streams -> QueueType] /\ queue'[s] = q3 /\ \A o \in X!Streams : o # s => queue'[o] = queue[o]
  BY <1>9, <1>10, <1>11
<1>13. queue'[s].receiver_gone BY <1>11, <1>12
<1>14. StreamsAre(queue', got, on, h, Read, rd, cl, la, ov)
  <2>1. Read \in Int BY <1>3
  <2>2. queue' \in [X!Streams -> QueueType] BY <1>12
  <2>4. \A o \in X!Streams : o # s => queue'[o] = queue[o] /\ got[o] = got[o] BY <1>12
  <2>5. ~queue'[s].receiver_gone => ~queue[s].receiver_gone BY <1>13
  <2>6. s = 1 /\ ~queue'[1].receiver_gone => OwnersIs(queue'[1], got[1], h, Read, rd, cl, la, ov) BY <1>13
  <2>7. s = 2 /\ ~queue'[2].receiver_gone => LatersIs(queue'[2], got[2], h, on, cl) BY <1>13
  <2> QED BY ONLY s \in X!Streams, h \in Nat, <1>7, <1>8, <1>9, <2>1, <2>2, <2>4, <2>5, <2>6, <2>7, StreamsReplace
<1>15. Asks(h)'
  <2>1. 2 \notin on => queue'[2] = queue[2] BY <1>1, <1>6, <1>12
  <2> QED BY <1>1, <1>2, <1>3, <2>1 DEF Asks
<1> QED BY <1>4, <1>5, <1>14, <1>15, <1>s DEF OutputInv

----------------------------------------------------------------------------
(* Actor::handle, with a terminal that is written to. *)
LEMMA OutputActs ==
  ASSUME OutputInv, OutputTyped', NEW h \in Nat, Asks(h)', Streamed(h)',
         UNCHANGED <<flight, kernel, wrote, due, ends, ptyReader, holders, ptyChild>>
  PROVE  OutputInv'
<1>1. Read' = Read BY DEF Read
<1>2. BytesFly' BY <1>1 DEF OutputInv, BytesFly
<1> QED BY <1>2 DEF OutputInv

(* A command other than an attach is taken. *)
LEMMA AsksTaken ==
  ASSUME NEW h \in Nat, Asks(h), cmds # <<>>, cmds' = Tail(cmds), Head(cmds).t # "attach", NEW h2 \in Nat,
         Outputs(cmds', h2, Read), h2 <= Read, Read' = Read, UNCHANGED <<ptyReader, calls, got>>,
         2 \notin on => queue'[2] = queue[2] /\ 2 \notin on',
         actor'.closed => ptyReader = "done" /\ ~Has(cmds', "closed") /\ ~Has(cmds', "output")
  PROVE  Asks(h2)'
<1>1. cmds \in Seq(Cmd) /\ Closes(cmds) /\ Once(cmds) BY DEF Asks
<1>2. /\ cmds' \in Seq(Cmd) /\ Closes(cmds') /\ Once(cmds')
      /\ \A tt : Has(cmds', tt) => Has(cmds, tt) BY <1>1, TakenKept
<1>3. Has(cmds', "closed") => ptyReader' = "done" BY <1>2 DEF Asks
<1>4. calls' = 0 => ~Has(cmds', "attach") BY <1>2 DEF Asks
<1>5. calls' = 0 \/ Has(cmds', "attach") => queue'[2] = X!NewQueue(TRUE) /\ got'[2] = <<>> /\ 2 \notin on'
  BY <1>2 DEF Asks
<1> QED BY <1>2, <1>3, <1>4, <1>5 DEF Asks

LEMMA OutputHandled == ASSUME SignalInv, OutputInv, X!HandleOutput PROVE OutputInv'
<1>1. /\ cmds # <<>> /\ Head(cmds).t = "output" /\ cmds' = Tail(cmds)
      /\ IF actor.closed THEN UNCHANGED <<queue, on, got>> ELSE X!Broadcasts(<<"data", Head(cmds).v>>)
      /\ UNCHANGED <<flight, kernel, wrote, due, holders, ptyChild, owner, actor, ptyReader, ends, calls>>
  BY DEF X!HandleOutput, X!Handles, X!Event, X!ActorGuard, X!Quiet, X!childvars, X!termvars, X!threadvars, X!callvars
<1>2. PICK h \in Nat : Asks(h) /\ Streamed(h) BY DEF OutputInv
<1>3. cmds \in Seq(Cmd) /\ Outputs(cmds, h, Read) BY <1>2 DEF Asks
<1>4. Read \in Nat /\ Read' = Read BY <1>1 DEF OutputInv, BytesFly, Read
<1>5. Head(cmds).v = h + 1 /\ h < Read /\ Outputs(cmds', h + 1, Read) BY <1>1, <1>3, <1>4, OutputsNext
<1>6. ~actor.closed
  <2>1. Has(cmds, "output") BY <1>1, <1>3, TakenKept
  <2> QED BY <1>2, <2>1 DEF Asks
<1> DEFINE ev == <<"data", h + 1>>
           rd == One(ptyReader = "read")
           la == One(actor.late)
           ov == One(actor.told # "running")
<1>7. rd \in 0..1 /\ la \in 0..1 /\ ov \in 0..1 BY FlagsAre
<1>8. One(actor.closed) = 0 BY <1>6 DEF One
<1>9. StreamsAre(queue, got, on, h, Read, rd, 0, la, ov) BY <1>2, <1>8 DEF Streamed
<1>10. queue' = X!Broadcast(queue, on, ev) /\ on' = X!Kept(queue, on, ev) /\ got' = got
  BY <1>1, <1>5, <1>6 DEF X!Broadcasts
<1>s. StreamsAre(queue', got, on', h + 1, Read, rd, 0, la, ov) => Streamed(h + 1)'
  BY <1>1, <1>4, <1>8, <1>10 DEF Streamed
<1> HIDE DEF rd, la, ov
<1>11. ev \in Ev BY DEF Ev
<1>12. SendsTo(queue, on, ev, queue', on')
  <2>1. queue \in [X!Streams -> QueueType] /\ on \in SUBSET X!Streams BY <1>9 DEF StreamsAre
  <2> HIDE DEF ev
  <2> QED BY <1>10, <1>11, <2>1, BroadcastTold
<1>13. StreamsAre(queue', got, on', h + 1, Read, rd, 0, la, ov)
  <2>1. Read \in Int BY <1>4
  <2> QED BY <1>5, <1>7, <1>9, <1>12, <2>1, BroadcastData
<1>14. 2 \notin on => queue'[2] = queue[2] /\ 2 \notin on'
  <2>1. 2 \in X!Streams BY DEF X!Streams
  <2> QED BY <1>12, <2>1 DEF SendsTo
<1>15. Asks(h + 1)'
  <2>1. h + 1 \in Nat /\ h + 1 <= Read BY <1>4, <1>5
  <2>2. ~actor'.closed BY <1>1, <1>6
  <2> QED BY <1>1, <1>2, <1>4, <1>5, <1>10, <1>14, <2>1, <2>2, AsksTaken
<1>16. OutputTyped' BY <1>1 DEF OutputInv, OutputTyped
<1> QED BY <1>1, <1>13, <1>15, <1>16, <1>s, OutputActs

(* Actor::publish_lifecycle after the output closed, or late. *)
LEMMA PublishTells ==
  ASSUME NEW a \in ActorType, a.told \in Lives, a.life \in Lives, a.told = "running" \/ a.told = a.life,
         NEW qs, NEW ons, NEW h \in Nat, NEW r \in Int, NEW reading \in 0..1, NEW closed \in 0..1, NEW late \in 0..1,
         StreamsAre(qs, got, ons, h, r, reading, closed, late, One(a.told # "running")), closed + late >= 1,
         X!PublishLifecycle(a, qs, ons)
  PROVE  /\ StreamsAre(queue', got', on', h, r, reading, closed, late, One(actor'.told # "running"))
         /\ actor'.told = a.life /\ actor'.life = a.life /\ actor'.pc = a.pc
         /\ (actor'.closed <=> a.closed) /\ (actor'.late <=> a.late) /\ (actor'.ended <=> a.ended)
         /\ 2 \notin ons => queue'[2] = qs[2] /\ 2 \notin on'
<1> DEFINE a1 == [a EXCEPT !.told = a.life]
           a2 == [a1 EXCEPT !.timer = FALSE]
<1>1. actor' = a2 /\ got' = got BY DEF X!PublishLifecycle
<1>2. /\ a2.told = a.life /\ a2.life = a.life /\ a2.pc = a.pc /\ a2.closed = a.closed /\ a2.late = a.late
      /\ a2.ended = a.ended BY DEF ActorType
<1> HIDE DEF a2
<1>3. /\ actor'.told = a.life /\ actor'.life = a.life /\ actor'.pc = a.pc
      /\ (actor'.closed <=> a.closed) /\ (actor'.late <=> a.late) /\ (actor'.ended <=> a.ended)
  BY <1>1, <1>2
<1>4. CASE a.told = a.life
  <2>1. queue' = qs /\ on' = ons BY <1>4 DEF X!PublishLifecycle
  <2>2. One(actor'.told # "running") = One(a.told # "running") BY <1>3, <1>4
  <2> QED BY <1>1, <1>3, <2>1, <2>2
<1>5. CASE a.told # a.life
  <2> DEFINE ev == <<"life", a.life>>
  <2>1. queue' = X!Broadcast(qs, ons, ev) /\ on' = X!Kept(qs, ons, ev) BY <1>5 DEF X!PublishLifecycle, X!Event
  <2>2. ev \in Ev /\ ev[1] = "life" BY DEF Ev, Lives
  <2>3. One(a.told # "running") = 0 /\ One(actor'.told # "running") = 1 BY <1>3, <1>5 DEF One, Lives
  <2>4. qs \in [X!Streams -> QueueType] /\ ons \in SUBSET X!Streams BY DEF StreamsAre
  <2> HIDE DEF ev
  <2>5. SendsTo(qs, ons, ev, queue', on') BY <2>1, <2>2, <2>4, BroadcastTold
  <2>6. StreamsAre(qs, got, ons, h, r, reading, closed, late, 0) BY <2>3
  <2>7. 0 \in 0..1 /\ 1 \in 0..1 /\ late <= late OBVIOUS
  <2>8. StreamsAre(queue', got, on', h, r, reading, closed, late, 1)
    BY <2>2, <2>5, <2>6, <2>7, BroadcastEnd
  <2>9. 2 \notin ons => queue'[2] = qs[2] /\ 2 \notin on'
    <3>1. 2 \in X!Streams BY DEF X!Streams
    <3> QED BY <2>5, <3>1 DEF SendsTo
  <2> QED BY <1>1, <1>3, <2>3, <2>8, <2>9
<1> QED BY <1>4, <1>5

LEMMA StreamsLate ==
  ASSUME NEW qs, NEW gs, NEW ons, NEW h, NEW r, NEW reading, NEW closed, NEW late, NEW over,
         StreamsAre(qs, gs, ons, h, r, reading, closed, late, over)
  PROVE  StreamsAre(qs, gs, ons, h, r, reading, closed, 1, over)
BY DEF StreamsAre, OwnersIs

LEMMA OutputReaped == ASSUME SignalInv, OutputInv, X!HandleReaped PROVE OutputInv'
<1>1. /\ cmds # <<>> /\ Head(cmds).t = "reaped" /\ cmds' = Tail(cmds)
      /\ UNCHANGED <<flight, kernel, wrote, due, holders, ptyChild, owner, ptyReader, ends, calls>>
  BY DEF X!HandleReaped, X!Handles, X!ActorGuard, X!childvars, X!termvars, X!threadvars, X!callvars
<1>2. PICK h \in Nat : Asks(h) /\ Streamed(h) BY DEF OutputInv
<1>3. cmds \in Seq(Cmd) /\ Outputs(cmds, h, Read) /\ h <= Read BY <1>2 DEF Asks
<1>4. Read \in Nat /\ Read' = Read BY <1>1 DEF OutputInv, BytesFly, Read
<1>5. Outputs(cmds', h, Read) BY <1>1, <1>3, <1>4, OutputsLater
<1>6. \A tt : Has(cmds', tt) => Has(cmds, tt) BY <1>1, <1>3, TakenKept
<1>7. ASSUME got' = got, actor'.closed <=> actor.closed, 2 \notin on => queue'[2] = queue[2] /\ 2 \notin on'
      PROVE  Asks(h)'
  <2>1. actor'.closed => ptyReader = "done" /\ ~Has(cmds', "closed") /\ ~Has(cmds', "output")
    BY <1>2, <1>6, <1>7 DEF Asks
  <2> QED BY <1>1, <1>2, <1>3, <1>4, <1>5, <1>7, <2>1, AsksTaken
<1>a. actor \in ActorType /\ OutputTyped BY DEF SignalInv, SignalTyped, OutputInv
<1>8. CASE actor.life # "running"
  <2>1. UNCHANGED <<actor, queue, on, got>> BY <1>8 DEF X!HandleReaped, X!streamvars
  <2>2. Asks(h)' BY <1>7, <2>1
  <2>3. Streamed(h)' BY <1>1, <1>2, <1>4, <2>1 DEF Streamed
  <2>4. OutputTyped' BY <1>1, <1>a, <2>1 DEF OutputTyped
  <2> QED BY <1>1, <2>2, <2>3, <2>4, OutputActs
<1>9. CASE actor.life = "running" /\ ~actor.closed
  <2> DEFINE a1 == [actor EXCEPT !.life = "exited"]
             a2 == [a1 EXCEPT !.timer = TRUE]
  <2>1. actor' = a2 /\ UNCHANGED <<queue, on, got>> BY <1>9 DEF X!HandleReaped, X!streamvars
  <2>2. /\ a2.life = "exited" /\ a2.told = actor.told /\ a2.pc = actor.pc /\ a2.closed = actor.closed
        /\ a2.late = actor.late /\ a2.ended = actor.ended BY <1>a DEF ActorType
  <2> HIDE DEF a2
  <2>3. /\ actor'.life = "exited" /\ actor'.told = actor.told /\ actor'.pc = actor.pc
        /\ (actor'.closed <=> actor.closed) /\ (actor'.late <=> actor.late) /\ (actor'.ended <=> actor.ended)
    BY <2>1, <2>2
  <2>4. Asks(h)' BY <1>7, <2>1, <2>3
  <2>5. One(actor'.closed) = One(actor.closed) /\ One(actor'.late) = One(actor.late)
        /\ One(actor'.told # "running") = One(actor.told # "running") BY <2>3 DEF One
  <2>6. Streamed(h)' BY <1>1, <1>2, <1>4, <2>1, <2>5 DEF Streamed
  <2>7. OutputTyped' BY <1>1, <1>9, <1>a, <2>3 DEF OutputTyped, Lives
  <2> QED BY <1>1, <2>4, <2>6, <2>7, OutputActs
<1>10. CASE actor.life = "running" /\ actor.closed
  <2> DEFINE a == [actor EXCEPT !.life = "exited"]
             rd == One(ptyReader = "read")
             la == One(actor.late)
  <2>1. X!PublishLifecycle(a, queue, on) BY <1>10 DEF X!HandleReaped
  <2>2. a \in ActorType BY <1>a, ActorFields
  <2>3. /\ a.life = "exited" /\ a.told = actor.told /\ a.pc = actor.pc /\ a.closed = actor.closed
        /\ a.late = actor.late /\ a.ended = actor.ended BY <1>a DEF ActorType
  <2>4. rd \in 0..1 /\ la \in 0..1 /\ 1 \in 0..1 BY FlagsAre
  <2>5. One(actor.closed) = 1 BY <1>10 DEF One
  <2>6. a.told \in Lives /\ a.life \in Lives /\ a.told = "running" BY <1>10, <1>a, <2>3 DEF OutputTyped, Lives
  <2>7. (a.closed <=> actor.closed) /\ (a.late <=> actor.late) /\ (a.ended <=> actor.ended) BY <2>3
  <2>8. StreamsAre(queue, got, on, h, Read, rd, 1, la, One(a.told # "running"))
    BY <1>2, <2>3, <2>5 DEF Streamed
  <2>9. Read \in Int /\ 1 + la >= 1 BY <1>4, <2>4
  <2>r. One(ptyReader' = "read") = rd BY <1>1
  <2> HIDE DEF a, rd, la
  <2>10. /\ StreamsAre(queue', got', on', h, Read, rd, 1, la, One(actor'.told # "running"))
         /\ actor'.told = a.life /\ actor'.life = a.life /\ actor'.pc = a.pc
         /\ (actor'.closed <=> a.closed) /\ (actor'.late <=> a.late) /\ (actor'.ended <=> a.ended)
         /\ 2 \notin on => queue'[2] = queue[2] /\ 2 \notin on'
    BY <2>1, <2>2, <2>4, <2>6, <2>8, <2>9, PublishTells
  <2>11. got' = got BY <2>1 DEF X!PublishLifecycle
  <2>12. Asks(h)' BY <1>7, <2>7, <2>10, <2>11
  <2>13. One(actor'.closed) = 1 BY <1>10, <2>7, <2>10 DEF One
  <2>14. One(actor'.late) = la BY <2>7, <2>10 DEF One, la
  <2>15. Streamed(h)' BY <1>4, <2>10, <2>13, <2>14, <2>r DEF Streamed
  <2>16. OutputTyped' BY <1>1, <1>a, <2>3, <2>6, <2>7, <2>10 DEF OutputTyped
  <2> QED BY <1>1, <2>12, <2>15, <2>16, OutputActs
<1> QED BY <1>8, <1>9, <1>10

(* EXIT_OUTPUT_DRAIN ran out. *)
LEMMA OutputDrained == ASSUME SignalInv, OutputInv, X!DrainEnds PROVE OutputInv'
<1>1. UNCHANGED <<flight, kernel, wrote, due, holders, ptyChild, owner, ptyReader, ends, calls, cmds>>
  BY DEF X!DrainEnds, X!Quiet, X!ActorGuard, X!childvars, X!termvars, X!threadvars, X!callvars
<1>2. PICK h \in Nat : Asks(h) /\ Streamed(h) BY DEF OutputInv
<1>4. Read \in Nat /\ Read' = Read BY <1>1 DEF OutputInv, BytesFly, Read
<1>a. actor \in ActorType /\ OutputTyped BY DEF SignalInv, SignalTyped, OutputInv
<1> DEFINE a == [actor EXCEPT !.late = TRUE]
           rd == One(ptyReader = "read")
           cl == One(actor.closed)
<1>5. X!PublishLifecycle(a, queue, on) BY DEF X!DrainEnds
<1>6. a \in ActorType BY <1>a, ActorFields
<1>7. /\ a.life = actor.life /\ a.told = actor.told /\ a.pc = actor.pc /\ a.closed = actor.closed
      /\ a.late = TRUE /\ a.ended = actor.ended BY <1>a DEF ActorType
<1>8. rd \in 0..1 /\ cl \in 0..1 /\ 1 \in 0..1 BY FlagsAre
<1>9. a.told \in Lives /\ a.life \in Lives /\ (a.told = "running" \/ a.told = a.life) BY <1>a, <1>7 DEF OutputTyped
<1>10. (a.closed <=> actor.closed) /\ a.late /\ (a.ended <=> actor.ended) BY <1>7
<1>11. StreamsAre(queue, got, on, h, Read, rd, cl, 1, One(a.told # "running"))
  <2>1. StreamsAre(queue, got, on, h, Read, rd, cl, One(actor.late), One(actor.told # "running")) BY <1>2 DEF Streamed
  <2> HIDE DEF a, rd, cl
  <2> QED BY <1>7, <2>1, StreamsLate
<1>12. Read \in Int /\ cl + 1 >= 1 BY <1>4, <1>8
<1>r. One(ptyReader' = "read") = rd BY <1>1
<1> HIDE DEF a, rd, cl
<1>13. /\ StreamsAre(queue', got', on', h, Read, rd, cl, 1, One(actor'.told # "running"))
       /\ actor'.told = a.life /\ actor'.life = a.life /\ actor'.pc = a.pc
       /\ (actor'.closed <=> a.closed) /\ (actor'.late <=> a.late) /\ (actor'.ended <=> a.ended)
       /\ 2 \notin on => queue'[2] = queue[2] /\ 2 \notin on'
  BY <1>5, <1>6, <1>8, <1>9, <1>11, <1>12, PublishTells
<1>14. got' = got BY <1>5 DEF X!PublishLifecycle
<1>15. Asks(h)' BY <1>1, <1>2, <1>4, <1>10, <1>13, <1>14 DEF Asks
<1>16. One(actor'.closed) = cl /\ One(actor'.late) = 1 BY <1>10, <1>13 DEF One, cl
<1>17. Streamed(h)' BY <1>4, <1>13, <1>16, <1>r DEF Streamed
<1>18. OutputTyped' BY <1>1, <1>a, <1>7, <1>9, <1>10, <1>13 DEF OutputTyped
<1> QED BY <1>1, <1>15, <1>17, <1>18, OutputActs

LEMMA OutputClosed == ASSUME SignalInv, OutputInv, X!HandleReaderClosed PROVE OutputInv'
<1> DEFINE ev == <<"closed", 0>>
           qs == X!Broadcast(queue, on, ev)
           ons == X!Kept(queue, on, ev)
           a == [actor EXCEPT !.closed = TRUE]
           rd == One(ptyReader = "read")
           la == One(actor.late)
           ov == One(actor.told # "running")
<1>1. /\ cmds # <<>> /\ Head(cmds).t = "closed" /\ cmds' = Tail(cmds)
      /\ UNCHANGED <<flight, kernel, wrote, due, holders, ptyChild, owner, ptyReader, ends, calls>>
  BY DEF X!HandleReaderClosed, X!Handles, X!Quiet, X!ActorGuard, X!childvars, X!termvars, X!threadvars, X!callvars
<1>5. X!PublishLifecycle(a, qs, ons) BY DEF X!HandleReaderClosed, X!Event
<1>2. PICK h \in Nat : Asks(h) /\ Streamed(h) BY DEF OutputInv
<1>3. cmds \in Seq(Cmd) /\ Outputs(cmds, h, Read) /\ h <= Read /\ Closes(cmds) BY <1>2 DEF Asks
<1>4. Read \in Nat /\ Read' = Read BY <1>1 DEF OutputInv, BytesFly, Read
<1>a. actor \in ActorType /\ OutputTyped BY DEF SignalInv, SignalTyped, OutputInv
<1>b. Outputs(cmds', h, Read) BY <1>1, <1>3, <1>4, OutputsLater
<1>c. Has(cmds, "closed") /\ ~Has(cmds', "closed") /\ ~Has(cmds', "output") BY <1>1, <1>3, TakenKept
<1>d. ptyReader = "done" /\ ~actor.closed BY <1>2, <1>c DEF Asks
<1>6. a \in ActorType BY <1>a, ActorFields
<1>7. /\ a.life = actor.life /\ a.told = actor.told /\ a.pc = actor.pc /\ a.closed = TRUE
      /\ a.late = actor.late /\ a.ended = actor.ended BY <1>a DEF ActorType
<1>8. rd \in 0..1 /\ la \in 0..1 /\ ov \in 0..1 /\ 0 \in 0..1 /\ 1 \in 0..1 BY FlagsAre
<1>9. a.told \in Lives /\ a.life \in Lives /\ (a.told = "running" \/ a.told = a.life) BY <1>a, <1>7 DEF OutputTyped
<1>10. a.closed /\ (a.late <=> actor.late) /\ (a.ended <=> actor.ended) BY <1>7
<1>11. StreamsAre(queue, got, on, h, Read, rd, 0, la, ov)
  <2>1. One(actor.closed) = 0 BY <1>d DEF One
  <2> QED BY <1>2, <2>1 DEF Streamed
<1>12. ev \in Ev /\ IsClosed(ev) BY DEF Ev, IsClosed
<1>v. ov = One(a.told # "running") BY <1>7
<1>r. One(ptyReader' = "read") = rd BY <1>1
<1> HIDE DEF ev, a, rd, la, ov
<1>13. SendsTo(queue, on, ev, qs, ons)
  <2>1. queue \in [X!Streams -> QueueType] /\ on \in SUBSET X!Streams BY <1>11 DEF StreamsAre
  <2> QED BY <1>12, <2>1, BroadcastTold
<1> HIDE DEF qs, ons
<1>14. Read \in Int /\ 1 + la >= 1 BY <1>4, <1>8
<1>15. StreamsAre(qs, got, ons, h, Read, rd, 1, la, ov) BY <1>8, <1>11, <1>12, <1>13, <1>14, BroadcastEnd
<1>16. StreamsAre(qs, got, ons, h, Read, rd, 1, la, One(a.told # "running")) BY <1>15, <1>v
<1>17. /\ StreamsAre(queue', got', on', h, Read, rd, 1, la, One(actor'.told # "running"))
       /\ actor'.told = a.life /\ actor'.life = a.life /\ actor'.pc = a.pc
       /\ (actor'.closed <=> a.closed) /\ (actor'.late <=> a.late) /\ (actor'.ended <=> a.ended)
       /\ 2 \notin ons => queue'[2] = qs[2] /\ 2 \notin on'
  BY <1>5, <1>6, <1>8, <1>9, <1>14, <1>16, PublishTells
<1>18. got' = got BY <1>5 DEF X!PublishLifecycle
<1>19. 2 \notin on => queue'[2] = queue[2] /\ 2 \notin on'
  <2>1. 2 \in X!Streams BY DEF X!Streams
  <2> QED BY <1>13, <1>17, <2>1 DEF SendsTo
<1>20. Asks(h)' BY <1>1, <1>2, <1>3, <1>4, <1>b, <1>c, <1>d, <1>18, <1>19, AsksTaken
<1>21. One(actor'.closed) = 1 /\ One(actor'.late) = la BY <1>10, <1>17 DEF One, la
<1>22. Streamed(h)' BY <1>4, <1>17, <1>21, <1>r DEF Streamed
<1>23. OutputTyped' BY <1>1, <1>a, <1>7, <1>9, <1>10, <1>17 DEF OutputTyped
<1> QED BY <1>1, <1>20, <1>22, <1>23, OutputActs

LEMMA LatersPush ==
  ASSUME NEW q \in QueueType, NEW g \in Seq(Ev), NEW h \in Nat, NEW ons, 2 \in ons, NEW closed \in 0..1,
         LatersIs(q, g, h, ons, closed), NEW ev \in Ev, ~IsData(ev), IsClosed(ev) => closed = 1
  PROVE  X!Push(2, q, ev) \in QueueType /\ LatersIs(X!Push(2, q, ev), g, h, ons, closed)
<1>1. LatersIs(Told(2, q, ev), g, h, ons, closed)
  <2>1. CASE X!Refused(2, q, ev) BY <2>1, LatersAreRefused
  <2>2. CASE ~X!Refused(2, q, ev)
    <3>1. closed <= closed OBVIOUS
    <3> QED BY <2>2, <3>1, LatersGetEnd
  <2> QED BY <2>1, <2>2
<1>2. /\ X!Push(2, q, ev) \in QueueType /\ X!Push(2, q, ev).events = Told(2, q, ev).events
      /\ X!Push(2, q, ev).queued = Told(2, q, ev).queued BY PushIs
<1> QED BY <1>1, <1>2 DEF LatersIs

(* Actor::attach: told how the child is, and of the close if it is over. *)
LEMMA OutputAttached == ASSUME SignalInv, OutputInv, X!HandleAttach PROVE OutputInv'
<1> DEFINE life == <<"life", actor.told>>
           end == <<"closed", 0>>
           first == X!Push(2, queue[2], life)
           whole == IF actor.closed THEN X!Push(2, first, end) ELSE first
           rd == One(ptyReader = "read")
           cl == One(actor.closed)
           la == One(actor.late)
           ov == One(actor.told # "running")
<1>1. /\ cmds # <<>> /\ Head(cmds).t = "attach" /\ cmds' = Tail(cmds)
      /\ UNCHANGED <<flight, kernel, wrote, due, holders, ptyChild, owner, actor, ptyReader, ends, calls, got>>
  BY DEF X!HandleAttach, X!Handles, X!Quiet, X!ActorGuard, X!childvars, X!termvars, X!threadvars, X!callvars
<1>w. \/ UNCHANGED <<queue, on>>
      \/ queue' = [queue EXCEPT ![2] = whole] /\ on' = on \union {2} BY DEF X!HandleAttach, X!Event
<1>2. PICK h \in Nat : Asks(h) /\ Streamed(h) BY DEF OutputInv
<1>3. cmds \in Seq(Cmd) /\ Outputs(cmds, h, Read) /\ h <= Read /\ Closes(cmds) /\ Once(cmds) BY <1>2 DEF Asks
<1>4. Read \in Nat /\ Read' = Read BY <1>1 DEF OutputInv, BytesFly, Read
<1>a. OutputTyped BY DEF OutputInv
<1>5. /\ cmds' \in Seq(Cmd) /\ Closes(cmds') /\ Once(cmds') /\ Has(cmds, "attach") /\ ~Has(cmds', "attach")
      /\ \A tt : Has(cmds', tt) => Has(cmds, tt) BY <1>1, <1>3, TakenKept
<1>6. Outputs(cmds', h, Read) BY <1>1, <1>3, <1>4, OutputsLater
<1>7. queue[2] = X!NewQueue(TRUE) /\ got[2] = <<>> /\ 2 \notin on /\ calls # 0 BY <1>2, <1>5 DEF Asks
<1>8. Asks(h)'
  <2>1. Has(cmds', "closed") => ptyReader' = "done" BY <1>1, <1>2, <1>5 DEF Asks
  <2>2. actor'.closed => ptyReader' = "done" /\ ~Has(cmds', "closed") /\ ~Has(cmds', "output")
    BY <1>1, <1>2, <1>5 DEF Asks
  <2>3. calls' # 0 BY <1>1, <1>7
  <2> QED BY <1>3, <1>4, <1>5, <1>6, <2>1, <2>2, <2>3 DEF Asks
<1>9. OutputTyped' BY <1>1, <1>a DEF OutputTyped
<1>10. StreamsAre(queue, got, on, h, Read, rd, cl, la, ov) BY <1>2 DEF Streamed
<1>s. StreamsAre(queue', got, on', h, Read, rd, cl, la, ov) => Streamed(h)' BY <1>1, <1>4 DEF Streamed
<1>11. rd \in 0..1 /\ cl \in 0..1 /\ la \in 0..1 /\ ov \in 0..1 BY FlagsAre
<1>c. actor.closed => cl = 1 BY DEF One
<1>12. life \in Ev /\ ~IsData(life) /\ ~IsClosed(life) BY <1>a DEF OutputTyped, Ev, IsData, IsClosed
<1>13. end \in Ev /\ ~IsData(end) BY DEF Ev, IsData
<1> HIDE DEF rd, cl, la, ov, life, end
<1>14. CASE UNCHANGED <<queue, on>>
  <2>1. StreamsAre(queue', got, on', h, Read, rd, cl, la, ov) BY <1>10, <1>14
  <2> QED BY <1>1, <1>8, <1>9, <1>s, <2>1, OutputActs
<1>15. CASE queue' = [queue EXCEPT ![2] = whole] /\ on' = on \union {2}
  <2>0. 1 \in X!Streams /\ 2 \in X!Streams /\ \A s \in X!Streams : s = 1 \/ s = 2 BY DEF X!Streams
  <2>1. queue \in [X!Streams -> QueueType] /\ got \in [X!Streams -> Seq(Ev)] /\ on \subseteq X!Streams
    BY <1>10 DEF StreamsAre
  <2>2. queue[2] \in QueueType /\ got[2] \in Seq(Ev) BY <2>0, <2>1
  <2>3. LatersIs(queue[2], got[2], h, on', cl) BY <1>7, <1>11, LatersNew
  <2>4. 2 \in on' /\ on' \subseteq X!Streams BY <1>15, <2>0, <2>1
  <2>5. first \in QueueType /\ LatersIs(first, got[2], h, on', cl)
    BY <1>11, <1>12, <2>2, <2>3, <2>4, LatersPush
  <2> HIDE DEF first
  <2>6. whole \in QueueType /\ LatersIs(whole, got[2], h, on', cl)
    <3>1. CASE actor.closed
      <4>1. X!Push(2, first, end) \in QueueType /\ LatersIs(X!Push(2, first, end), got[2], h, on', cl)
        BY <1>11, <1>13, <1>c, <2>2, <2>4, <2>5, <3>1, LatersPush
      <4> QED BY <3>1, <4>1
    <3>2. CASE ~actor.closed BY <2>5, <3>2
    <3> QED BY <3>1, <3>2
  <2> HIDE DEF whole
  <2>7. queue' \in [X!Streams -> QueueType] /\ queue'[1] = queue[1] /\ queue'[2] = whole
    BY <1>15, <2>0, <2>1, <2>6
  <2>8. ~queue'[1].receiver_gone => 1 \in on' /\ OwnersIs(queue'[1], got[1], h, Read, rd, cl, la, ov)
    BY <1>10, <1>15, <2>7 DEF StreamsAre
  <2>9. StreamsAre(queue', got, on', h, Read, rd, cl, la, ov)
    BY <2>1, <2>4, <2>6, <2>7, <2>8 DEF StreamsAre
  <2> QED BY <1>1, <1>8, <1>9, <1>s, <2>9, OutputActs
<1> QED BY <1>14, <1>15, <1>w

(* What is not asked of the actor in this scene. *)
LEMMA OutputNever ==
  ASSUME SignalInv, OutputInv, scene = "output",
         \/ X!HandleInput \/ X!HandleQuery("query") \/ X!HandleQuery("resize") \/ X!HandleSignal("kill")
         \/ X!HandleSignal("stop") \/ X!SendKills \/ X!HandleOwnerLost \/ X!ActorEnds \/ X!SettleNext
         \/ X!OwnerDrops \/ X!ClientsDrop
         \/ \E kind \in {"input", "query", "resize", "kill", "stop"}, stale \in BOOLEAN : X!Requests(kind, stale)
  PROVE  FALSE
<1>1. cmds \in Seq(Cmd) BY DEF OutputInv, Asks
<1>2. cmds # <<>> => Head(cmds).t \in {"output", "closed", "reaped", "attach"}
  <2>1. cmds # <<>> => Head(cmds) \in Cmd BY <1>1
  <2> QED BY <2>1, CommandTypes
<1>3. actor.pc = "idle" /\ owner BY DEF OutputInv, OutputTyped
<1>4. settler.pc = "none" BY DEF SignalInv, Pinned
<1>5. ~X!SettleNext
  BY <1>4 DEF X!SettleNext, X!SettleStarts, X!PinPidfd, X!PinToken, X!PinWatch, X!PinUnsupported, X!Pin, X!ExactSignal,
              X!WaitExit, X!LivenessAfterExit, X!ParentCollects
<1>6. ~(X!HandleInput \/ X!HandleQuery("query") \/ X!HandleQuery("resize") \/ X!HandleSignal("kill")
        \/ X!HandleSignal("stop") \/ X!HandleOwnerLost)
  BY <1>2 DEF X!HandleInput, X!HandleQuery, X!HandleSignal, X!HandleOwnerLost, X!Handles
<1>7. ~X!SendKills /\ ~X!ActorEnds /\ ~X!OwnerDrops /\ ~X!ClientsDrop
  BY <1>3 DEF X!SendKills, X!ActorEnds, X!OwnerDrops, X!ClientsDrop
<1> QED BY <1>5, <1>6, <1>7 DEF X!Requests

LEMMA OutputSteps == ASSUME SignalInv, OutputInv, scene = "output", X!SubstrateNext PROVE OutputInv'
<1>1. CASE X!WorldNext
  <2>1. CASE X!Arrives \/ \E who \in {"child", "kin"} : X!Writes(who) BY <2>1, OutputFlies
  <2>2. CASE X!ChildReopens \/ X!ChildExits \/ X!KinLeaves BY <2>2, OutputChild
  <2>3. CASE X!ChildReadsInput \/ X!PidReused
    <3>1. UNCHANGED outVars
      BY <2>3 DEF X!ChildReadsInput, X!PidReused, X!World, X!childvars, X!termvars, X!threadvars, X!callvars,
                  X!streamvars, outVars
    <3> QED BY <3>1, OutputStutters
  <2> QED BY <1>1, <2>1, <2>2, <2>3 DEF X!WorldNext
<1>2. CASE X!ReaderNext BY <1>2, OutputRoom, OutputReads, OutputEnds DEF X!ReaderNext
<1>3. CASE X!ReaperNext
  <2>1. CASE X!ReaperWakes \/ X!ReaperLocks
    <3>1. UNCHANGED outVars
      BY <2>1 DEF X!ReaperWakes, X!ReaperLocks, X!ReaperGuard, X!termvars, X!callvars, X!streamvars, outVars
    <3> QED BY <3>1, OutputStutters
  <2>2. CASE X!CollectFenced BY <2>2, OutputChild
  <2>3. CASE X!ReaperTells
    <3> DEFINE c == [t |-> "reaped", v |-> 0]
    <3>1. cmds' = Append(cmds, c) /\ calls' = calls
          /\ UNCHANGED <<owner, actor, ptyReader, ends, flight, kernel, wrote, due, holders, ptyChild, queue, got, on>>
      BY <2>3 DEF X!ReaperTells, X!ReaperGuard, X!termvars, X!callvars, X!streamvars
    <3>2. c \in Cmd /\ c.t = "reaped" BY CommandIn
    <3> HIDE DEF c
    <3> QED BY <3>1, <3>2, OutputAsked
  <2> QED BY <1>3, <2>1, <2>2, <2>3 DEF X!ReaperNext
<1>4. CASE X!ClientNext
  <2>1. CASE \E stale \in BOOLEAN : X!Attaches(stale)
    <3>1. PICK stale \in BOOLEAN : X!Attaches(stale) BY <2>1
    <3> DEFINE c == [t |-> "attach", v |-> 2, stale |-> stale]
    <3>2. cmds' = Append(cmds, c) /\ calls = 0 /\ calls' = 1
          /\ UNCHANGED <<owner, actor, ptyReader, ends, flight, kernel, wrote, due, holders, ptyChild, queue, got, on>>
      BY <3>1 DEF X!Attaches, X!AskGuard, X!childvars, X!termvars, X!threadvars, X!streamvars
    <3>3. c \in Cmd /\ c.t = "attach" BY CommandIn
    <3> HIDE DEF c
    <3> QED BY <3>2, <3>3, OutputAsked
  <2>2. CASE \E s \in X!Streams : X!DropStream(s) BY <2>2, OutputDrops
  <2> QED BY <1>4, <2>1, <2>2, OutputNever DEF X!ClientNext
<1>5. CASE X!ActorNext
  BY <1>5, OutputAttached, OutputHandled, OutputReaped, OutputDrained, OutputClosed, OutputNever DEF X!ActorNext
<1>6. CASE X!WriterNext
  <2>1. UNCHANGED outVars
    BY <1>6 DEF X!WriterNext, X!WriterTakes, X!WriteWithoutBlocking, X!WriterGivesUp, X!WriterGuard, X!childvars,
                X!termvars, X!threadvars, X!callvars, X!streamvars, outVars
  <2> QED BY <2>1, OutputStutters
<1>7. CASE X!SettleNext BY <1>7, OutputNever
<1>8. CASE \E s \in X!Streams : X!Pop(s) BY <1>8, OutputPops
<1> QED BY <1>1, <1>2, <1>3, <1>4, <1>5, <1>6, <1>7, <1>8 DEF X!SubstrateNext

----------------------------------------------------------------------------
(* The scenes in which nothing is written. *)
idleVars == <<flight, kernel, calls, cmds, on, queue, got>>

LEMMA IdleMoves ==
  ASSUME IdleInv, UNCHANGED <<flight, kernel, on, queue, got>>, calls' \in Nat, cmds' \in Seq(IdleCmd)
  PROVE  IdleInv'
BY DEF IdleInv

LEMMA IdleCommandIn ==
  /\ \A x \in {"closed", "reaped", "lost"} : [t |-> x, v |-> 0] \in IdleCmd
  /\ \A x \in {"input", "query", "resize", "kill", "stop"}, y \in Nat, b \in BOOLEAN :
       [t |-> x, v |-> y, stale |-> b] \in IdleCmd
BY DEF IdleCmd

LEMMA IdleTakes ==
  ASSUME NEW cs \in Seq(IdleCmd), cs # <<>>
  PROVE  Tail(cs) \in Seq(IdleCmd) /\ Head(cs).t \notin {"attach", "output"}
<1>1. Head(cs) \in IdleCmd /\ Tail(cs) \in Seq(IdleCmd) OBVIOUS
<1> QED BY <1>1 DEF IdleCmd

(* A broadcast to nobody. *)
LEMMA IdleBroadcast ==
  ASSUME IdleInv, NEW ev
  PROVE  X!Broadcast(queue, on, ev) = queue /\ X!Kept(queue, on, ev) = on
<1>1. on = {} /\ queue = [s \in X!Streams |-> queue[s]] BY DEF IdleInv
<1>2. X!Broadcast(queue, on, ev) = [s \in X!Streams |-> queue[s]] BY <1>1 DEF X!Broadcast
<1> QED BY <1>1, <1>2 DEF X!Kept

LEMMA IdlePublishes ==
  ASSUME IdleInv, NEW a, X!PublishLifecycle(a, queue, on)
  PROVE  UNCHANGED <<queue, on, got>>
<1>1. \A ev : X!Broadcast(queue, on, ev) = queue /\ X!Kept(queue, on, ev) = on BY IdleBroadcast
<1> QED BY <1>1 DEF X!PublishLifecycle

LEMMA IdleActor == ASSUME IdleInv, scene # "output", X!ActorNext PROVE IdleInv'
<1>1. calls \in Nat /\ cmds \in Seq(IdleCmd) BY DEF IdleInv
<1>2. cmds # <<>> => Tail(cmds) \in Seq(IdleCmd) /\ Head(cmds).t \notin {"attach", "output"} BY <1>1, IdleTakes
<1>3. ASSUME UNCHANGED <<flight, kernel, calls, queue, on, got>>, cmds' = cmds \/ (cmds # <<>> /\ cmds' = Tail(cmds))
      PROVE  IdleInv' BY <1>1, <1>2, <1>3, IdleMoves
<1>4. ~X!HandleAttach /\ ~X!HandleOutput BY <1>2 DEF X!HandleAttach, X!HandleOutput, X!Handles
<1>5. CASE X!HandleInput \/ X!HandleQuery("query") \/ X!HandleQuery("resize") \/ X!HandleSignal("kill")
           \/ X!HandleSignal("stop") \/ X!SendKills
  BY <1>3, <1>5 DEF X!HandleInput, X!HandleQuery, X!HandleSignal, X!SendKills, X!Handles, X!ActorGuard, X!termvars,
                    X!callvars, X!streamvars
<1>6. CASE X!HandleReaped
  <2>1. UNCHANGED <<queue, on, got>>
    <3>1. UNCHANGED <<queue, on, got>> \/ \E a : X!PublishLifecycle(a, queue, on)
      BY <1>6 DEF X!HandleReaped, X!streamvars
    <3> QED BY <3>1, IdlePublishes
  <2>2. cmds # <<>> /\ cmds' = Tail(cmds) /\ UNCHANGED <<flight, kernel, calls>>
    BY <1>6 DEF X!HandleReaped, X!Handles, X!ActorGuard, X!termvars, X!callvars
  <2> QED BY <1>3, <2>1, <2>2
<1>7. CASE X!DrainEnds
  <2>1. UNCHANGED <<queue, on, got>>
    <3>1. \E a : X!PublishLifecycle(a, queue, on) BY <1>7 DEF X!DrainEnds
    <3> QED BY <3>1, IdlePublishes
  <2>2. cmds' = cmds /\ UNCHANGED <<flight, kernel, calls>>
    BY <1>7 DEF X!DrainEnds, X!ActorGuard, X!termvars, X!callvars
  <2> QED BY <1>3, <2>1, <2>2
<1>8. CASE X!HandleReaderClosed
  <2>1. UNCHANGED <<queue, on, got>>
    <3> DEFINE ev == X!Event("closed", 0)
    <3>1. \E a : X!PublishLifecycle(a, X!Broadcast(queue, on, ev), X!Kept(queue, on, ev))
      BY <1>8 DEF X!HandleReaderClosed
    <3>2. X!Broadcast(queue, on, ev) = queue /\ X!Kept(queue, on, ev) = on BY IdleBroadcast
    <3>3. \E a : X!PublishLifecycle(a, queue, on) BY <3>1, <3>2
    <3> QED BY <3>3, IdlePublishes
  <2>2. cmds # <<>> /\ cmds' = Tail(cmds) /\ UNCHANGED <<flight, kernel, calls>>
    BY <1>8 DEF X!HandleReaderClosed, X!Handles, X!ActorGuard, X!termvars, X!callvars
  <2> QED BY <1>3, <2>1, <2>2
<1>9. CASE X!HandleOwnerLost
  <2>1. UNCHANGED <<queue, on, got>>
    <3> DEFINE ev == X!Event("life", "lost")
    <3>1. \/ UNCHANGED <<queue, on, got>>
          \/ queue' = X!Broadcast(queue, on, ev) /\ on' = X!Kept(queue, on, ev) /\ got' = got
      BY <1>9 DEF X!HandleOwnerLost, X!streamvars
    <3>2. X!Broadcast(queue, on, ev) = queue /\ X!Kept(queue, on, ev) = on BY IdleBroadcast
    <3> QED BY <3>1, <3>2
  <2>2. cmds # <<>> /\ cmds' = Tail(cmds) /\ UNCHANGED <<flight, kernel, calls>>
    BY <1>9 DEF X!HandleOwnerLost, X!Handles, X!ActorGuard, X!termvars, X!callvars
  <2> QED BY <1>3, <2>1, <2>2
<1>10. CASE X!ActorEnds
  <2>1. UNCHANGED <<queue, on, got>>
    <3>1. on = {} /\ queue = [s \in X!Streams |-> queue[s]] BY DEF IdleInv
    <3>2. queue' = [s \in X!Streams |-> queue[s]] BY <1>10, <3>1 DEF X!ActorEnds
    <3> QED BY <1>10, <3>1, <3>2 DEF X!ActorEnds
  <2>2. cmds' = cmds /\ UNCHANGED <<flight, kernel, calls>>
    BY <1>10 DEF X!ActorEnds, X!ActorGuard, X!termvars, X!callvars
  <2> QED BY <1>3, <2>1, <2>2
<1> QED BY <1>4, <1>5, <1>6, <1>7, <1>8, <1>9, <1>10 DEF X!ActorNext

LEMMA IdleSteps == ASSUME IdleInv, scene # "output", X!SubstrateNext PROVE IdleInv'
<1>0. calls \in Nat /\ cmds \in Seq(IdleCmd) /\ flight = <<>> /\ kernel = <<>> /\ on = {} BY DEF IdleInv
<1>s. ASSUME UNCHANGED idleVars PROVE IdleInv' BY <1>0, <1>s, IdleMoves DEF idleVars
<1>a. ASSUME UNCHANGED <<flight, kernel, on, queue, got>>, calls' \in Nat,
             NEW c \in IdleCmd, cmds' = Append(cmds, c)
      PROVE  IdleInv'
  <2>1. cmds' \in Seq(IdleCmd) BY <1>0, <1>a
  <2> QED BY <1>a, <2>1, IdleMoves
<1>1. CASE X!WorldNext
  BY <1>0, <1>1, <1>s DEF X!WorldNext, X!Writes, X!Arrives, X!ChildReopens, X!ChildExits, X!KinLeaves, X!ChildReadsInput,
     X!PidReused, X!World, X!termvars, X!callvars, X!streamvars, idleVars
<1>2. CASE X!ReaderNext
  <2>1. CASE X!WaitForRoom BY <1>s, <2>1 DEF X!WaitForRoom, X!ReaderGuard, X!callvars, idleVars
  <2>2. CASE X!ReadsData BY <1>0, <2>2 DEF X!ReadsData
  <2>3. CASE X!ReadsEnd
    <3>1. UNCHANGED <<flight, kernel, on, queue, got, calls>> BY <2>3 DEF X!ReadsEnd, X!ReaderGuard, X!callvars
    <3>2. cmds' = cmds \/ cmds' = Append(cmds, [t |-> "closed", v |-> 0]) BY <2>3 DEF X!ReadsEnd
    <3>3. [t |-> "closed", v |-> 0] \in IdleCmd BY IdleCommandIn
    <3> QED BY <1>0, <1>a, <1>s, <3>1, <3>2, <3>3 DEF idleVars
  <2> QED BY <1>2, <2>1, <2>2, <2>3 DEF X!ReaderNext
<1>3. CASE X!ReaperNext
  <2>1. UNCHANGED <<flight, kernel, on, queue, got, calls>>
    BY <1>3 DEF X!ReaperNext, X!ReaperWakes, X!ReaperLocks, X!CollectFenced, X!ReaperTells, X!ReaperGuard, X!termvars,
                X!callvars, X!streamvars
  <2>2. cmds' = cmds \/ cmds' = Append(cmds, [t |-> "reaped", v |-> 0])
    BY <1>3 DEF X!ReaperNext, X!ReaperWakes, X!ReaperLocks, X!CollectFenced, X!ReaperTells
  <2>3. [t |-> "reaped", v |-> 0] \in IdleCmd BY IdleCommandIn
  <2> QED BY <1>0, <1>a, <1>s, <2>1, <2>2, <2>3 DEF idleVars
<1>4. CASE X!ClientNext
  <2>1. CASE \E kind \in {"input", "query", "resize", "kill", "stop"}, stale \in BOOLEAN : X!Requests(kind, stale)
    <3>1. PICK kind \in {"input", "query", "resize", "kill", "stop"}, stale \in BOOLEAN : X!Requests(kind, stale)
      BY <2>1
    <3> DEFINE c == [t |-> kind, v |-> calls + 1, stale |-> stale]
    <3>2. UNCHANGED <<flight, kernel, on, queue, got>> /\ calls' = calls + 1 /\ cmds' = Append(cmds, c)
      BY <3>1 DEF X!Requests, X!AskGuard, X!termvars, X!streamvars
    <3>3. calls + 1 \in Nat BY <1>0
    <3>4. c \in IdleCmd BY <3>3, IdleCommandIn
    <3> HIDE DEF c
    <3> QED BY <1>a, <3>2, <3>3, <3>4
  <2>2. CASE X!OwnerDrops
    <3>1. UNCHANGED <<flight, kernel, on, queue, got, calls>> /\ cmds' = Append(cmds, [t |-> "lost", v |-> 0])
      BY <2>2 DEF X!OwnerDrops, X!AskGuard, X!termvars, X!streamvars
    <3>2. [t |-> "lost", v |-> 0] \in IdleCmd BY IdleCommandIn
    <3> QED BY <1>0, <1>a, <3>1, <3>2
  <2>3. CASE X!ClientsDrop BY <1>s, <2>3 DEF X!ClientsDrop, X!AskGuard, X!termvars, X!streamvars, idleVars
  <2> QED BY <1>0, <1>4, <2>1, <2>2, <2>3 DEF X!ClientNext, X!Attaches, X!DropStream
<1>5. CASE X!ActorNext BY <1>5, IdleActor
<1>6. CASE X!WriterNext
  BY <1>6, <1>s DEF X!WriterNext, X!WriterTakes, X!WriteWithoutBlocking, X!WriterGivesUp, X!WriterGuard, X!termvars,
     X!callvars, X!streamvars, idleVars
<1>7. CASE X!SettleNext
  BY <1>7, <1>s DEF X!SettleNext, X!SettleStarts, X!PinPidfd, X!PinToken, X!PinWatch, X!PinUnsupported, X!Pin,
     X!ExactSignal, X!WaitExit, X!LivenessAfterExit, X!ParentCollects, X!SettleGuard, X!World, X!termvars, X!callvars,
     X!streamvars, idleVars
<1>8. ASSUME NEW s \in X!Streams PROVE ~X!Pop(s)
  <2>1. got[s] = <<>> BY DEF IdleInv
  <2>2. s = 1 \/ s = 2 BY DEF X!Streams
  <2>3. queue[s] = IF s = 1 THEN X!NewQueue(FALSE) ELSE X!NewQueue(TRUE) BY DEF IdleInv
  <2>4. s = 1 => queue[s].receiver_gone BY <2>3, NewIs
  <2>5. s = 2 => queue[s].events = <<>>
    <3>1. s = 2 => queue[s] = X!NewQueue(TRUE) BY <2>3
    <3>2. X!NewQueue(TRUE).events = <<>> BY NewIs
    <3> QED BY ONLY <3>1, <3>2
  <2> QED BY <2>1, <2>2, <2>4, <2>5 DEF X!Pop
<1> QED BY <1>1, <1>2, <1>3, <1>4, <1>5, <1>6, <1>7, <1>8 DEF X!SubstrateNext

----------------------------------------------------------------------------
(* The substrate. *)
LEMMA SignalSteps == ASSUME SignalInv, X!SubstrateNext PROVE SignalInv'
<1>1. CASE X!WorldNext
  <2>1. CASE X!ChildExits \/ X!PidReused BY <2>1, SignalChild
  <2>2. CASE X!Arrives \/ X!ChildReopens \/ X!KinLeaves \/ X!ChildReadsInput \/ \E who \in {"child", "kin"} : X!Writes(who)
    <3>1. UNCHANGED signalVars
      BY <2>2 DEF X!Writes, X!Arrives, X!ChildReopens, X!KinLeaves, X!ChildReadsInput, X!World, X!childvars, X!threadvars,
         X!fencevars, signalVars
    <3> QED BY <3>1, SignalStutters
  <2> QED BY <1>1, <2>1, <2>2 DEF X!WorldNext
<1>2. CASE X!ReaderNext
  <2>1. UNCHANGED signalVars
    BY <1>2 DEF X!ReaderNext, X!WaitForRoom, X!ReadsData, X!ReadsEnd, X!ReaderGuard, X!childvars, X!fencevars, signalVars
  <2> QED BY <2>1, SignalStutters
<1>3. CASE X!ReaperNext BY SMTT(60), <1>3, SignalChild
<1>4. CASE X!ClientNext
  <2>1. UNCHANGED signalVars
    BY <1>4 DEF X!ClientNext, X!Requests, X!Attaches, X!OwnerDrops, X!ClientsDrop, X!DropStream, X!AskGuard, X!childvars,
       X!threadvars, X!fencevars, signalVars
  <2> QED BY <2>1, SignalStutters
<1>5. CASE X!ActorNext
  <2>1. CASE X!HandleReaped \/ X!DrainEnds \/ X!HandleReaderClosed \/ X!ActorEnds BY <2>1, SignalHandles
  <2>2. CASE X!HandleSignal("kill") \/ X!HandleSignal("stop") \/ X!HandleOwnerLost BY <2>2, SignalAsked
  <2>3. CASE X!SendKills BY <2>3, SignalKills
  <2>4. CASE X!HandleAttach \/ X!HandleInput \/ X!HandleQuery("query") \/ X!HandleQuery("resize") \/ X!HandleOutput
    <3>1. UNCHANGED signalVars
      BY <2>4 DEF X!HandleAttach, X!HandleInput, X!HandleQuery, X!HandleOutput, X!Quiet, X!ActorGuard, X!childvars,
         X!threadvars, signalVars
    <3> QED BY <3>1, SignalStutters
  <2> QED BY <1>5, <2>1, <2>2, <2>3, <2>4 DEF X!ActorNext
<1>6. CASE X!WriterNext
  <2>1. UNCHANGED signalVars
    BY <1>6 DEF X!WriterNext, X!WriterTakes, X!WriteWithoutBlocking, X!WriterGivesUp, X!WriterGuard, X!childvars,
       X!threadvars, X!fencevars, signalVars
  <2> QED BY <2>1, SignalStutters
<1>7. CASE X!SettleNext BY <1>7, SignalSettles
<1>8. CASE \E s \in X!Streams : X!Pop(s)
  <2>1. UNCHANGED signalVars BY <1>8 DEF X!Pop, X!childvars, X!threadvars, X!fencevars, signalVars
  <2> QED BY <2>1, SignalStutters
<1> QED BY <1>1, <1>2, <1>3, <1>4, <1>5, <1>6, <1>7, <1>8 DEF X!SubstrateNext

LEMMA SceneStays == ASSUME X!SubstrateNext PROVE scene' = scene
<1>1. CASE X!WorldNext
  BY <1>1 DEF X!WorldNext, X!Writes, X!Arrives, X!ChildReopens, X!ChildExits, X!KinLeaves, X!ChildReadsInput,
     X!PidReused, X!World
<1>2. CASE X!ReaderNext \/ X!ReaperNext
  BY ZenonT(60), <1>2 DEF X!ReaderNext, X!WaitForRoom, X!ReadsData, X!ReadsEnd, X!ReaderGuard, X!ReaperNext, X!ReaperWakes,
     X!ReaperLocks, X!CollectFenced, X!ReaperTells, X!ReaperGuard
<1>3. CASE X!ClientNext \/ X!WriterNext \/ \E s \in X!Streams : X!Pop(s)
  BY <1>3 DEF X!ClientNext, X!Requests, X!Attaches, X!OwnerDrops, X!ClientsDrop, X!DropStream, X!AskGuard,
     X!WriterNext, X!WriterTakes, X!WriteWithoutBlocking, X!WriterGivesUp, X!WriterGuard, X!Pop
<1>4. CASE X!ActorNext
  BY <1>4 DEF X!ActorNext, X!HandleAttach, X!HandleInput, X!HandleQuery, X!HandleSignal, X!SendKills, X!HandleOutput,
     X!HandleReaped, X!DrainEnds, X!HandleReaderClosed, X!HandleOwnerLost, X!ActorEnds, X!ActorGuard
<1>5. CASE X!SettleNext
  BY <1>5 DEF X!SettleNext, X!SettleStarts, X!PinPidfd, X!PinToken, X!PinWatch, X!PinUnsupported, X!Pin,
     X!ExactSignal, X!WaitExit, X!LivenessAfterExit, X!ParentCollects, X!SettleGuard, X!World
<1> QED BY <1>1, <1>2, <1>3, <1>4, <1>5 DEF X!SubstrateNext

LEMMA SubstrateSteps == ASSUME SubstrateInv, X!SubstrateNext PROVE SubstrateInv'
BY SignalSteps, OutputSteps, IdleSteps, SceneStays DEF SubstrateInv

LEMMA SubstrateStutters == ASSUME SubstrateInv, UNCHANGED X!xvars PROVE SubstrateInv'
<1>1. UNCHANGED <<signalVars, outVars, idleVars>>
  BY DEF X!xvars, X!childvars, X!termvars, X!threadvars, X!fencevars, X!streamvars, X!callvars, signalVars, outVars,
     idleVars
<1>2. SignalInv' BY <1>1, SignalStutters DEF SubstrateInv
<1>3. scene' = scene BY <1>1 DEF signalVars
<1>4. IdleInv => IdleInv' BY <1>1 DEF IdleInv, idleVars
<1> QED BY <1>1, <1>2, <1>3, <1>4, OutputStutters DEF SubstrateInv
=============================================================================
