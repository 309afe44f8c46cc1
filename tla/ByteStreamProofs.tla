-------------------------- MODULE ByteStreamProofs --------------------------
(***************************************************************************)
(* Proofs about ByteStream, for every set of senders, keys and bounds: the *)
(* order of the frames on the wire, and that no turn is lost.              *)
(*                                                                         *)
(* WireOrder speaks of frames already written. It is carried by three      *)
(* relations on the way there: between a frame written and one that still  *)
(* waits, between the one in hand and those that wait, and between those   *)
(* written and the one in hand; and by the turns being exclusive.          *)
(***************************************************************************)
EXTENDS ByteStream, TLAPS, WellFoundedInduction

Waiting == {"check", "asleep"}
Turning == {"lock", "decide", "write", "tell", "finish", "unlock", "release",
            "give"}
Unwritten == {"lock", "decide", "write"}

\* One sender has the turn, each of the others that are not idle has one frame
\* in the queue, and the queue is in the order of arrival.
TurnInv ==
  /\ \A s \in Senders :
       stage[s] \in Turning => busy /\ hand \in Frame /\ hand.by = s
  /\ \A i \in 1 .. Len(queue) :
       stage[queue[i].by] \in Waiting /\ queue[i].ticket < next
  /\ \A i, j \in 1 .. Len(queue) :
       i < j => queue[i].ticket < queue[j].ticket /\ queue[i].by # queue[j].by
  /\ \A s \in Senders :
       stage[s] \in Waiting => \E i \in 1 .. Len(queue) : queue[i].by = s

\* A frame that waits may be overtaken by those written and by the one in hand,
\* and the one in hand by those written, where they came later.
OrderInv ==
  /\ \A i \in 1 .. Len(wire) : wire[i].frame.ticket < next
  /\ \A i \in 1 .. Len(wire), n \in 1 .. Len(queue) :
       queue[n].ticket < wire[i].frame.ticket =>
         MayOvertake(wire[i].frame, queue[n])
  /\ \A s \in Senders : stage[s] \in Turning =>
       /\ hand.ticket < next
       /\ \A n \in 1 .. Len(queue) :
            queue[n].ticket < hand.ticket => MayOvertake(hand, queue[n])
  /\ \A s \in Senders : stage[s] \in Unwritten =>
       \A i \in 1 .. Len(wire) :
         hand.ticket < wire[i].frame.ticket => MayOvertake(wire[i].frame, hand)
  /\ WireOrder

Inv == TypeOK /\ TurnInv /\ OrderInv /\ NoSleepingTurn

-----------------------------------------------------------------------------
(* The queue. *)

\* The fields of a frame that the proofs use.
LEMMA FrameFields ==
  \A f \in Frame : f.by \in Senders /\ f.ticket \in Nat
PROOF BY DEF Frame

\* What was written is a sequence of frames.
LEMMA WireFrames ==
  ASSUME TypeOK
  PROVE  /\ Len(wire) \in Nat
         /\ \A i \in 1 .. Len(wire) :
              wire[i].frame \in Frame /\ wire[i].frame.ticket \in Nat
PROOF
<1> DEFINE E == [frame : Frame, whole : BOOLEAN]
<1>1. wire \in Seq(E) BY DEF TypeOK
<1>2. \A e \in E : e.frame \in Frame OBVIOUS
<1> HIDE DEF E
<1>3. Len(wire) \in Nat /\ \A i \in 1 .. Len(wire) : wire[i] \in E BY <1>1
<1> QED BY <1>2, <1>3, FrameFields

\* A set of naturals that is not empty has a least element.
LEMMA Least ==
  ASSUME NEW T, T \subseteq Nat, T # {}
  PROVE  \E i \in T : \A j \in T : i <= j
PROOF
<1> DEFINE R == {p \in Nat \X Nat : p[1] < p[2]}
<1>1. IsWellFoundedOn(R, Nat)
  BY NatLessThanWellFounded, Zenon DEF OpToRel
<1>2. \E x \in T : \A y \in T : ~ (<<y, x>> \in R)
  <2> HIDE DEF R
  <2> QED BY <1>1, WFMin
<1>3. PICK i \in T : \A y \in T : ~ (<<y, i>> \in R) BY <1>2
<1>4. \A y \in T : ~ (y < i) BY <1>3
<1> QED BY <1>4

\* `next_index` is an index of the queue: the first, when no control frame is
\* unblocked, or else that of the oldest unblocked one.
LEMMA NextIndexFacts ==
  ASSUME NEW q \in Seq(Frame), q # <<>>
  PROVE  /\ NextIndex(q) \in 1 .. Len(q)
         /\ \/ NextIndex(q) = 1 /\ \A i \in 1 .. Len(q) : ~Unblocked(q, i)
            \/ /\ Unblocked(q, NextIndex(q))
               /\ \A i \in 1 .. Len(q) : Unblocked(q, i) => NextIndex(q) <= i
PROOF
<1> DEFINE U == {i \in 1 .. Len(q) : Unblocked(q, i)}
<1>0. Len(q) \in Nat /\ Len(q) >= 1 OBVIOUS
<1>1. CASE U = {}
  <2>1. NextIndex(q) = 1 BY <1>1 DEF NextIndex
  <2> QED BY <1>0, <1>1, <2>1
<1>2. CASE U # {}
  <2>1. NextIndex(q) = CHOOSE i \in U : \A j \in U : i <= j
    BY <1>2 DEF NextIndex
  <2>2. \E i \in U : \A j \in U : i <= j
    <3>1. U \subseteq Nat BY <1>0
    <3> HIDE DEF U
    <3> QED BY <1>2, <3>1, Least
  <2>3. NextIndex(q) \in U /\ \A j \in U : NextIndex(q) <= j
    <3> HIDE DEF U
    <3> QED BY <2>1, <2>2
  <2> QED BY <2>3
<1> QED BY <1>1, <1>2

\* A frame that joins the queue is next itself, or changes nothing about which
\* frame is.
LEMMA PeekAppend ==
  ASSUME NEW q \in Seq(Frame), NEW f \in Frame
  PROVE  \/ Peek(Append(q, f)) = f
         \/ q # <<>> /\ Peek(Append(q, f)) = Peek(q)
PROOF
<1> DEFINE r == Append(q, f)
           n == NextIndex(r)
           m == NextIndex(q)
<1>1. /\ r \in Seq(Frame) /\ r # <<>> /\ Len(r) = Len(q) + 1 /\ Len(q) \in Nat
      /\ r[Len(q) + 1] = f /\ \A i \in 1 .. Len(q) : r[i] = q[i]
  OBVIOUS
<1>2. /\ n \in 1 .. Len(r)
      /\ \/ n = 1 /\ \A i \in 1 .. Len(r) : ~Unblocked(r, i)
         \/ /\ Unblocked(r, n)
            /\ \A i \in 1 .. Len(r) : Unblocked(r, i) => n <= i
  <2> HIDE DEF r
  <2> QED BY <1>1, NextIndexFacts
<1>3. \A i \in 1 .. Len(q) : Unblocked(r, i) <=> Unblocked(q, i)
  <2> HIDE DEF r
  <2> QED BY <1>1 DEF Unblocked
<1>4. CASE n = Len(q) + 1
  BY <1>1, <1>4 DEF Peek
<1>5. CASE n # Len(q) + 1
  <2> HIDE DEF r, n
  <2>1. n \in 1 .. Len(q) /\ q # <<>> BY <1>1, <1>2, <1>5
  <2>2. /\ m \in 1 .. Len(q)
        /\ \/ m = 1 /\ \A i \in 1 .. Len(q) : ~Unblocked(q, i)
           \/ /\ Unblocked(q, m)
              /\ \A i \in 1 .. Len(q) : Unblocked(q, i) => m <= i
    BY <2>1, NextIndexFacts
  <2> HIDE DEF m
  <2>3. n = m BY <1>1, <1>2, <1>3, <2>1, <2>2
  <2> QED BY <1>1, <2>1, <2>3 DEF Peek, n, m, r
<1> QED BY <1>4, <1>5

\* `pop` takes one frame out and keeps the others in their order.
LEMMA PoppedFacts ==
  ASSUME NEW q \in Seq(Frame), q # <<>>
  PROVE  /\ Popped(q) \in Seq(Frame)
         /\ Len(Popped(q)) = Len(q) - 1
         /\ \A i \in 1 .. Len(q) - 1 :
              Popped(q)[i] = IF i < NextIndex(q) THEN q[i] ELSE q[i + 1]
PROOF
<1> DEFINE n == NextIndex(q)
<1>1. n \in 1 .. Len(q) /\ Len(q) \in Nat BY NextIndexFacts
<1>2. Popped(q) = SubSeq(q, 1, n - 1) \o SubSeq(q, n + 1, Len(q))
  BY DEF Popped
<1> HIDE DEF n
<1>3. /\ SubSeq(q, 1, n - 1) \in Seq(Frame)
      /\ Len(SubSeq(q, 1, n - 1)) = n - 1
      /\ \A i \in 1 .. n - 1 : SubSeq(q, 1, n - 1)[i] = q[i]
  BY <1>1
<1>4. /\ SubSeq(q, n + 1, Len(q)) \in Seq(Frame)
      /\ Len(SubSeq(q, n + 1, Len(q))) = Len(q) - n
      /\ \A i \in 1 .. Len(q) - n : SubSeq(q, n + 1, Len(q))[i] = q[i + n]
  BY <1>1
<1> DEFINE a == SubSeq(q, 1, n - 1)
           b == SubSeq(q, n + 1, Len(q))
<1> HIDE DEF a, b
<1>5. /\ a \o b \in Seq(Frame) /\ Len(a \o b) = Len(a) + Len(b)
      /\ \A i \in 1 .. Len(a) + Len(b) :
           (a \o b)[i] = IF i <= Len(a) THEN a[i] ELSE b[i - Len(a)]
  BY SMTT(30), <1>3, <1>4 DEF a, b
<1>6. Len(a) = n - 1 /\ Len(b) = Len(q) - n BY <1>3, <1>4 DEF a, b
<1>7. ASSUME NEW i \in 1 .. Len(q) - 1
      PROVE  (a \o b)[i] = IF i < n THEN q[i] ELSE q[i + 1]
  <2>1. CASE i < n
    <3>1. (a \o b)[i] = a[i] BY <1>1, <1>5, <1>6, <2>1
    <3>2. a[i] = q[i] BY <1>1, <1>3, <2>1 DEF a
    <3> QED BY <2>1, <3>1, <3>2
  <2>2. CASE ~(i < n)
    <3>1. (a \o b)[i] = b[i - (n - 1)] BY <1>1, <1>5, <1>6, <2>2
    <3>2. i - (n - 1) \in 1 .. Len(q) - n /\ (i - (n - 1)) + n = i + 1
      BY <1>1, <2>2
    <3>3. b[i - (n - 1)] = q[i + 1] BY <1>4, <3>2 DEF b
    <3> QED BY <2>2, <3>1, <3>3
  <2> QED BY <2>1, <2>2
<1>8. Len(a \o b) = Len(q) - 1 BY <1>1, <1>5, <1>6
<1> QED BY <1>2, <1>5, <1>7, <1>8 DEF n, a, b

-----------------------------------------------------------------------------
(* Steps. *)

\* A step of a thread that has the turn, or that has nothing to do with turns,
\* and that neither queues nor writes.
LEMMA QuietStep ==
  ASSUME Inv, UNCHANGED <<queue, busy, next, hand, wire>>,
         NEW t \in Threads, NEW p \in Stages, Goto(t, p),
         t \in Senders =>
           /\ stage[t] \in Turning /\ p \in Turning
           /\ p \in Unwritten => stage[t] \in Unwritten
  PROVE  TurnInv' /\ OrderInv' /\ NoSleepingTurn'
PROOF
<1>1. /\ queue \in Seq(Frame) /\ stage \in [Threads -> Stages]
      /\ stage' = [stage EXCEPT ![t] = p]
      /\ Senders \subseteq Threads
  BY DEF Inv, TypeOK, Goto, Threads
<1>2. \A i \in 1 .. Len(queue) : queue[i].by \in Senders
  <2>1. \A i \in 1 .. Len(queue) : queue[i] \in Frame BY <1>1
  <2> QED BY <2>1, FrameFields
<1>3. \A s \in Senders : s # t => stage'[s] = stage[s] BY <1>1
<1>4. t \in Senders => stage[t] \in Turning /\ stage'[t] \in Turning
                       /\ (stage'[t] \in Unwritten => stage[t] \in Unwritten)
  BY <1>1
<1>5. Turning \cap Waiting = {} BY DEF Turning, Waiting
<1>6. \A i \in 1 .. Len(queue) : stage'[queue[i].by] = stage[queue[i].by]
  BY <1>2, <1>3, <1>4, <1>5 DEF Inv, TurnInv
<1>7. \A s \in Senders : /\ stage'[s] \in Turning <=> stage[s] \in Turning
                         /\ stage'[s] \in Waiting <=> stage[s] \in Waiting
                         /\ stage'[s] \in Unwritten => stage[s] \in Unwritten
  BY <1>3, <1>4, <1>5
<1>8. TurnInv' BY <1>6, <1>7 DEF Inv, TurnInv
<1>9. OrderInv' BY <1>7 DEF Inv, OrderInv, WireOrder
<1>10. NoSleepingTurn'
  <2> SUFFICES ASSUME ~busy, queue # <<>>
               PROVE  stage'[Peek(queue).by] = "check"
    BY DEF NoSleepingTurn
  <2>1. \E i \in 1 .. Len(queue) : Peek(queue) = queue[i]
    BY <1>1, NextIndexFacts DEF Peek
  <2> QED BY <1>6, <2>1 DEF Inv, NoSleepingTurn
<1> QED BY <1>8, <1>9, <1>10

\* A call of `send` queues its frame.
LEMMA ArriveStep ==
  ASSUME Inv, NEW s \in Senders, NEW k \in Keys, Arrive(s, k)
  PROVE  Inv'
PROOF
<1> DEFINE f == [call |-> k.call, control |-> k.control, target |-> k.target,
                 by |-> s, ticket |-> next, late |-> ended]
<1>1. /\ queue \in Seq(Frame) /\ stage \in [Threads -> Stages]
      /\ Senders \subseteq Threads /\ next \in Nat /\ ended \in BOOLEAN
  BY DEF Inv, TypeOK, Threads
<1>2. f \in Frame /\ f.by = s /\ f.ticket = next
  BY <1>1, KeysAssumption DEF Frame
<1>3. /\ stage[s] = "idle" /\ stage' = [stage EXCEPT ![s] = "check"]
      /\ next' = next + 1 /\ queue' = Append(queue, f)
      /\ UNCHANGED <<busy, hand, writerVars, ended, delivery, told, incoming>>
  BY DEF Arrive, Goto
<1> HIDE DEF f
<1>4. /\ Len(queue') = Len(queue) + 1 /\ Len(queue) \in Nat
      /\ queue'[Len(queue) + 1] = f /\ queue' \in Seq(Frame)
      /\ \A i \in 1 .. Len(queue) : queue'[i] = queue[i]
  BY <1>1, <1>2, <1>3
<1>5. /\ stage' \in [Threads -> Stages] /\ stage'[s] = "check"
      /\ \A u \in Senders : u # s => stage'[u] = stage[u]
  BY <1>1, <1>3 DEF Stages
<1>6. TypeOK'
  BY <1>1, <1>3, <1>4, <1>5 DEF Inv, TypeOK, writerVars
<1>7. \A i \in 1 .. Len(queue) :
        /\ queue[i].by \in Senders /\ queue[i].by # s
        /\ queue[i].ticket \in Nat /\ queue[i].ticket < next
        /\ stage'[queue[i].by] = stage[queue[i].by]
        /\ stage[queue[i].by] \in Waiting
  <2>1. \A i \in 1 .. Len(queue) : queue[i] \in Frame BY <1>1
  <2>2. \A i \in 1 .. Len(queue) :
          stage[queue[i].by] \in Waiting /\ queue[i].ticket < next
    BY DEF Inv, TurnInv
  <2>3. stage[s] \notin Waiting BY <1>3 DEF Waiting
  <2> QED BY <1>5, <2>1, <2>2, <2>3, FrameFields
<1>8. TurnInv'
  <2>1. \A u \in Senders :
          stage'[u] \in Turning => busy' /\ hand' \in Frame /\ hand'.by = u
    BY <1>3, <1>5 DEF Inv, TurnInv, Turning
  <2>2. \A i \in 1 .. Len(queue') :
          stage'[queue'[i].by] \in Waiting /\ queue'[i].ticket < next'
    BY <1>1, <1>2, <1>3, <1>4, <1>5, <1>7 DEF Waiting
  <2>3. \A i, j \in 1 .. Len(queue') :
          i < j => /\ queue'[i].ticket < queue'[j].ticket
                   /\ queue'[i].by # queue'[j].by
    <3> SUFFICES ASSUME NEW i \in 1 .. Len(queue'),
                        NEW j \in 1 .. Len(queue'), i < j
                 PROVE  /\ queue'[i].ticket < queue'[j].ticket
                        /\ queue'[i].by # queue'[j].by
      OBVIOUS
    <3>1. i \in 1 .. Len(queue) /\ queue'[i] = queue[i] BY <1>4
    <3>2. CASE j = Len(queue) + 1
      BY <1>2, <1>4, <1>7, <3>1, <3>2
    <3>3. CASE j # Len(queue) + 1
      <4>1. j \in 1 .. Len(queue) /\ queue'[j] = queue[j] BY <1>4, <3>3
      <4> QED BY <3>1, <4>1 DEF Inv, TurnInv
    <3> QED BY <3>2, <3>3
  <2>4. \A u \in Senders :
          stage'[u] \in Waiting => \E i \in 1 .. Len(queue') : queue'[i].by = u
    <3> SUFFICES ASSUME NEW u \in Senders, stage'[u] \in Waiting
                 PROVE  \E i \in 1 .. Len(queue') : queue'[i].by = u
      OBVIOUS
    <3>1. CASE u = s
      <4>1. Len(queue) + 1 \in 1 .. Len(queue') BY <1>4
      <4> QED BY <1>2, <1>4, <3>1, <4>1
    <3>2. CASE u # s
      <4>1. PICK i \in 1 .. Len(queue) : queue[i].by = u
        BY <1>5, <3>2 DEF Inv, TurnInv
      <4> QED BY <1>4, <4>1
    <3> QED BY <3>1, <3>2
  <2> QED BY <2>1, <2>2, <2>3, <2>4 DEF TurnInv
<1>9. OrderInv'
  <2>0. wire' = wire /\ \A i \in 1 .. Len(wire) : wire[i].frame.ticket \in Nat
    BY <1>3, WireFrames DEF Inv, writerVars
  <2>1. \A i \in 1 .. Len(wire) : wire[i].frame.ticket < next
    BY DEF Inv, OrderInv
  <2>2. \A i \in 1 .. Len(wire) : wire[i].frame.ticket < next'
    BY <1>1, <1>3, <2>0, <2>1
  <2>3. \A i \in 1 .. Len(wire), n \in 1 .. Len(queue') :
          queue'[n].ticket < wire[i].frame.ticket =>
            MayOvertake(wire[i].frame, queue'[n])
    BY SMTT(30), <1>1, <1>2, <1>4, <2>0, <2>1 DEF Inv, OrderInv
  <2>4. ASSUME NEW u \in Senders, stage'[u] \in Turning
        PROVE  /\ hand'.ticket < next'
               /\ \A n \in 1 .. Len(queue') :
                    queue'[n].ticket < hand'.ticket =>
                      MayOvertake(hand', queue'[n])
    <3>1. stage[u] \in Turning BY <1>5, <2>4 DEF Turning
    <3>2. hand.ticket \in Nat /\ hand.ticket < next
      BY <3>1, FrameFields DEF Inv, TurnInv, OrderInv
    <3> QED BY <1>1, <1>2, <1>3, <1>4, <3>1, <3>2 DEF Inv, OrderInv
  <2>5. ASSUME NEW u \in Senders, stage'[u] \in Unwritten
        PROVE  \A i \in 1 .. Len(wire) :
                 hand'.ticket < wire[i].frame.ticket =>
                   MayOvertake(wire[i].frame, hand')
    BY <1>3, <1>5, <2>5 DEF Inv, OrderInv, Unwritten
  <2>6. WireOrder' BY <2>0 DEF Inv, OrderInv, WireOrder
  <2> QED BY <2>0, <2>2, <2>3, <2>4, <2>5, <2>6 DEF OrderInv
<1>10. NoSleepingTurn'
  <2> SUFFICES ASSUME ~busy' PROVE stage'[Peek(queue').by] = "check"
    BY DEF NoSleepingTurn
  <2>1. CASE Peek(queue') = f
    BY <1>2, <1>5, <2>1
  <2>2. CASE queue # <<>> /\ Peek(queue') = Peek(queue)
    <3>1. PICK i \in 1 .. Len(queue) : Peek(queue) = queue[i]
      BY <1>1, <2>2, NextIndexFacts DEF Peek
    <3>2. stage[Peek(queue).by] = "check"
      BY <1>3, <2>2 DEF Inv, NoSleepingTurn
    <3> QED BY <1>7, <2>2, <3>1, <3>2
  <2> QED BY <1>1, <1>2, <1>3, <2>1, <2>2, PeekAppend
<1> QED BY <1>6, <1>8, <1>9, <1>10 DEF Inv

\* A sender takes the turn with the frame the rule picks.
LEMMA TakeTurnStep ==
  ASSUME Inv, NEW s \in Senders, TakeTurn(s)
  PROVE  Inv'
PROOF
<1> DEFINE n == NextIndex(queue)
<1>1. /\ queue \in Seq(Frame) /\ stage \in [Threads -> Stages]
      /\ Senders \subseteq Threads /\ next \in Nat /\ Len(queue) \in Nat
  BY DEF Inv, TypeOK, Threads
<1>2. /\ stage[s] = "check" /\ ~busy /\ Peek(queue).by = s
      /\ queue' = Popped(queue) /\ busy' = TRUE /\ hand' = Peek(queue)
      /\ stage' = [stage EXCEPT ![s] = "lock"]
      /\ UNCHANGED <<next, writerVars, ended, delivery, told, incoming>>
  BY DEF TakeTurn, MyTurn, Goto
<1>3. queue # <<>>
  <2>1. \E i \in 1 .. Len(queue) : queue[i].by = s
    BY <1>2 DEF Inv, TurnInv, Waiting
  <2> QED BY <1>1, <2>1
<1>4. /\ n \in 1 .. Len(queue)
      /\ n = 1 \/ Unblocked(queue, n)
      /\ queue[n].by = s /\ hand' = queue[n] /\ hand' \in Frame
  <2>1. n \in 1 .. Len(queue) /\ (n = 1 \/ Unblocked(queue, n))
    BY <1>1, <1>3, NextIndexFacts
  <2> QED BY <1>1, <1>2, <2>1 DEF Peek
<1>5. /\ queue' \in Seq(Frame) /\ Len(queue') = Len(queue) - 1
      /\ \A i \in 1 .. Len(queue') :
           queue'[i] = IF i < n THEN queue[i] ELSE queue[i + 1]
  BY <1>1, <1>2, <1>3, PoppedFacts
<1> HIDE DEF n
<1>6. /\ stage' \in [Threads -> Stages] /\ stage'[s] = "lock"
      /\ \A u \in Senders : u # s => stage'[u] = stage[u]
  BY <1>1, <1>2 DEF Stages
<1>7. TypeOK'
  BY <1>2, <1>4, <1>5, <1>6 DEF Inv, TypeOK, writerVars
\* Each frame left was in the queue, at an index other than n.
<1> DEFINE old(i) == IF i < n THEN i ELSE i + 1
<1>8. \A i \in 1 .. Len(queue') :
        /\ old(i) \in 1 .. Len(queue) /\ old(i) # n
        /\ queue'[i] = queue[old(i)]
  BY <1>1, <1>4, <1>5
<1>9. \A i, j \in 1 .. Len(queue') : i < j => old(i) < old(j)
  BY <1>1, <1>4, <1>5
<1>10. \A i \in 1 .. Len(queue) :
         i # n => \E j \in 1 .. Len(queue') : old(j) = i
  <2> SUFFICES ASSUME NEW i \in 1 .. Len(queue), i # n
               PROVE  \E j \in 1 .. Len(queue') : old(j) = i
    OBVIOUS
  <2>1. CASE i < n
    BY <1>1, <1>4, <1>5, <2>1
  <2>2. CASE i > n
    <3>1. i - 1 \in 1 .. Len(queue') /\ old(i - 1) = i
      BY <1>1, <1>4, <1>5, <2>2
    <3> QED BY <3>1
  <2> QED BY <1>4, <2>1, <2>2
<1> HIDE DEF old
<1>11. \A i \in 1 .. Len(queue) : i # n =>
         /\ queue[i].by \in Senders /\ queue[i].by # s
         /\ stage'[queue[i].by] = stage[queue[i].by]
  <2>1. \A i \in 1 .. Len(queue) : queue[i] \in Frame BY <1>1
  <2>2. \A i \in 1 .. Len(queue) : i # n => queue[i].by # s
    BY <1>1, <1>4 DEF Inv, TurnInv
  <2> QED BY <1>6, <2>1, <2>2, FrameFields
<1>12. TurnInv'
  <2>1. \A u \in Senders :
          stage'[u] \in Turning => busy' /\ hand' \in Frame /\ hand'.by = u
    <3>1. \A u \in Senders : stage[u] \notin Turning
      BY <1>2 DEF Inv, TurnInv
    <3> QED BY <1>2, <1>4, <1>6, <3>1
  <2>2. \A i \in 1 .. Len(queue') :
          stage'[queue'[i].by] \in Waiting /\ queue'[i].ticket < next'
    BY <1>2, <1>8, <1>11 DEF Inv, TurnInv
  <2>3. \A i, j \in 1 .. Len(queue') :
          i < j => /\ queue'[i].ticket < queue'[j].ticket
                   /\ queue'[i].by # queue'[j].by
    BY <1>8, <1>9 DEF Inv, TurnInv
  <2>4. \A u \in Senders :
          stage'[u] \in Waiting => \E i \in 1 .. Len(queue') : queue'[i].by = u
    <3> SUFFICES ASSUME NEW u \in Senders, stage'[u] \in Waiting
                 PROVE  \E i \in 1 .. Len(queue') : queue'[i].by = u
      OBVIOUS
    <3>1. u # s /\ stage[u] \in Waiting BY <1>6 DEF Waiting
    <3>2. PICK i \in 1 .. Len(queue) : queue[i].by = u
      BY <3>1 DEF Inv, TurnInv
    <3>3. i # n BY <1>4, <3>1, <3>2
    <3> QED BY <1>8, <1>10, <3>2, <3>3
  <2> QED BY <2>1, <2>2, <2>3, <2>4 DEF TurnInv
<1>13. OrderInv'
  <2>0. wire' = wire /\ next' = next BY <1>2 DEF writerVars
  <2>1. \A i \in 1 .. Len(wire), m \in 1 .. Len(queue) :
          queue[m].ticket < wire[i].frame.ticket =>
            MayOvertake(wire[i].frame, queue[m])
    BY DEF Inv, OrderInv
  <2>2. \A i \in 1 .. Len(wire), m \in 1 .. Len(queue') :
          queue'[m].ticket < wire[i].frame.ticket =>
            MayOvertake(wire[i].frame, queue'[m])
    BY <1>8, <2>1
  <2>3. hand'.ticket < next' BY <1>4, <2>0 DEF Inv, TurnInv
  <2>4. ASSUME NEW m \in 1 .. Len(queue'), queue'[m].ticket < hand'.ticket
        PROVE  MayOvertake(hand', queue'[m])
    <3>1. PICK o \in 1 .. Len(queue) : o # n /\ queue'[m] = queue[o] BY <1>8
    <3>2. queue[o].ticket \in Nat /\ queue[n].ticket \in Nat
      <4>1. queue[o] \in Frame /\ queue[n] \in Frame BY <1>1, <1>4
      <4> QED BY <4>1, FrameFields
    <3>3. ~(n < o)
      <4>1. n < o => queue[n].ticket < queue[o].ticket
        BY <1>4 DEF Inv, TurnInv
      <4> QED BY <1>4, <2>4, <3>1, <3>2, <4>1
    <3>4. o \in 1 .. n - 1 BY <1>1, <1>4, <3>1, <3>3
    <3>5. Unblocked(queue, n) BY <1>4, <3>4
    <3> QED BY <1>4, <3>1, <3>4, <3>5 DEF Unblocked, MayOvertake
  <2>5. \A i \in 1 .. Len(wire) :
          hand'.ticket < wire[i].frame.ticket =>
            MayOvertake(wire[i].frame, hand')
    BY <1>4, <2>1
  <2>6. WireOrder' BY <2>0 DEF Inv, OrderInv, WireOrder
  <2>7. \A i \in 1 .. Len(wire) : wire[i].frame.ticket < next
    BY DEF Inv, OrderInv
  <2> QED BY <2>0, <2>2, <2>3, <2>4, <2>5, <2>6, <2>7 DEF OrderInv
<1>14. NoSleepingTurn' BY <1>2 DEF NoSleepingTurn
<1> QED BY <1>7, <1>12, <1>13, <1>14 DEF Inv

\* A sender whose turn it is not goes to sleep.
LEMMA SleepStep ==
  ASSUME Inv, NEW s \in Senders, Sleep(s)
  PROVE  Inv'
PROOF
<1>1. /\ queue \in Seq(Frame) /\ stage \in [Threads -> Stages]
      /\ Senders \subseteq Threads
  BY DEF Inv, TypeOK, Threads
<1>2. /\ stage[s] = "check" /\ (busy \/ Peek(queue).by # s)
      /\ stage' = [stage EXCEPT ![s] = "asleep"]
      /\ UNCHANGED <<turnVars, hand, writerVars, ended, delivery, told,
                     incoming>>
  BY DEF Sleep, MyTurn, Goto
<1>3. /\ stage' \in [Threads -> Stages] /\ stage'[s] = "asleep"
      /\ \A u \in Senders : u # s => stage'[u] = stage[u]
  BY <1>1, <1>2 DEF Stages
<1>4. \A u \in Senders : /\ stage'[u] \in Waiting <=> stage[u] \in Waiting
                         /\ stage'[u] \in Turning <=> stage[u] \in Turning
                         /\ stage'[u] \in Unwritten <=> stage[u] \in Unwritten
  BY <1>2, <1>3 DEF Waiting, Turning, Unwritten
<1>5. \A i \in 1 .. Len(queue) : queue[i].by \in Senders
  <2>1. \A i \in 1 .. Len(queue) : queue[i] \in Frame BY <1>1
  <2> QED BY <2>1, FrameFields
<1>6. TypeOK'
  BY <1>2, <1>3 DEF Inv, TypeOK, turnVars, writerVars
<1>7. TurnInv' BY <1>2, <1>4, <1>5 DEF Inv, TurnInv, turnVars
<1>8. OrderInv'
  BY <1>2, <1>4 DEF Inv, OrderInv, WireOrder, turnVars, writerVars
<1>9. NoSleepingTurn'
  <2> SUFFICES ASSUME ~busy, queue # <<>>
               PROVE  stage'[Peek(queue).by] = "check"
    BY <1>2 DEF NoSleepingTurn, turnVars
  <2>1. PICK i \in 1 .. Len(queue) : Peek(queue) = queue[i]
    BY <1>1, NextIndexFacts DEF Peek
  <2> QED BY <1>2, <1>3, <1>5, <2>1 DEF Inv, NoSleepingTurn
<1> QED BY <1>6, <1>7, <1>8, <1>9 DEF Inv

\* What writing the frame in hand does to the wire.
LEMMA WrittenOrder ==
  ASSUME Inv, NEW s \in Senders, stage[s] = "write",
         NEW w \in BOOLEAN, wire' = Written(w)
  PROVE  /\ wire' \in Seq([frame : Frame, whole : BOOLEAN])
         /\ WireOrder'
         /\ \A i \in 1 .. Len(wire') :
              /\ wire'[i].frame.ticket < next
              /\ \A n \in 1 .. Len(queue) :
                   queue[n].ticket < wire'[i].frame.ticket =>
                     MayOvertake(wire'[i].frame, queue[n])
PROOF
<1> DEFINE e == [frame |-> hand, whole |-> w]
           E == [frame : Frame, whole : BOOLEAN]
<1>1. hand \in Frame /\ hand.ticket \in Nat
  BY FrameFields DEF Inv, TurnInv, Turning
<1>2. wire \in Seq(E) /\ Len(wire) \in Nat BY DEF Inv, TypeOK
<1>3. e \in E /\ e.frame = hand BY <1>1
<1>4. wire' = Append(wire, e) BY DEF Written
<1> HIDE DEF e, E
<1>5. /\ wire' \in Seq(E) /\ Len(wire') = Len(wire) + 1
      /\ wire'[Len(wire) + 1] = e
      /\ \A i \in 1 .. Len(wire) : wire'[i] = wire[i]
  BY <1>2, <1>3, <1>4
<1>6. \A i \in 1 .. Len(wire) : wire[i].frame.ticket \in Nat
  BY WireFrames DEF Inv
<1>7. \A i \in 1 .. Len(wire) :
        hand.ticket < wire[i].frame.ticket => MayOvertake(wire[i].frame, hand)
  BY DEF Inv, OrderInv, Unwritten
<1>8. WireOrder'
  <2> SUFFICES ASSUME NEW i \in 1 .. Len(wire'), NEW j \in 1 .. Len(wire'),
                      i < j, wire'[j].frame.ticket < wire'[i].frame.ticket
               PROVE  MayOvertake(wire'[i].frame, wire'[j].frame)
    BY DEF WireOrder
  <2>1. i \in 1 .. Len(wire) /\ wire'[i] = wire[i] BY <1>2, <1>5
  <2>2. CASE j = Len(wire) + 1 BY <1>3, <1>5, <1>7, <2>1, <2>2
  <2>3. CASE j # Len(wire) + 1
    <3>1. j \in 1 .. Len(wire) /\ wire'[j] = wire[j] BY <1>2, <1>5, <2>3
    <3> QED BY <2>1, <3>1 DEF Inv, OrderInv, WireOrder
  <2> QED BY <2>2, <2>3
<1>9. ASSUME NEW i \in 1 .. Len(wire')
      PROVE  /\ wire'[i].frame.ticket < next
             /\ \A n \in 1 .. Len(queue) :
                  queue[n].ticket < wire'[i].frame.ticket =>
                    MayOvertake(wire'[i].frame, queue[n])
  <2>1. CASE i = Len(wire) + 1
    BY <1>3, <1>5, <2>1 DEF Inv, OrderInv, Turning
  <2>2. CASE i # Len(wire) + 1
    <3>1. i \in 1 .. Len(wire) /\ wire'[i] = wire[i] BY <1>2, <1>5, <2>2
    <3> QED BY <3>1 DEF Inv, OrderInv
  <2> QED BY <2>1, <2>2
<1> QED BY <1>5, <1>8, <1>9 DEF E

\* The frame in hand is written, and its sender goes on with the turn.
LEMMA WriteStep ==
  ASSUME Inv, NEW s \in Senders, stage[s] = "write",
         NEW w \in BOOLEAN, wire' = Written(w),
         NEW p \in Turning \ Unwritten, Goto(s, p),
         UNCHANGED <<queue, busy, next, hand>>
  PROVE  TurnInv' /\ OrderInv' /\ NoSleepingTurn'
PROOF
<1>1. /\ queue \in Seq(Frame) /\ stage \in [Threads -> Stages]
      /\ Senders \subseteq Threads
  BY DEF Inv, TypeOK, Threads
<1>2. /\ stage'[s] = p /\ stage'[s] \in Turning /\ stage'[s] \notin Unwritten
      /\ \A u \in Senders : u # s => stage'[u] = stage[u]
  BY <1>1 DEF Goto
<1>3. \A u \in Senders : stage[u] \in Turning => u = s
  BY DEF Inv, TurnInv, Turning
<1>4. \A u \in Senders : /\ stage'[u] \in Waiting <=> stage[u] \in Waiting
                         /\ stage'[u] \in Turning <=> stage[u] \in Turning
                         /\ stage'[u] \notin Unwritten
  <2>1. /\ stage[s] \in Turning /\ Turning \cap Waiting = {}
        /\ Unwritten \subseteq Turning
    BY DEF Turning, Waiting, Unwritten
  <2> QED BY <1>2, <1>3, <2>1
<1>5. \A i \in 1 .. Len(queue) : queue[i].by \in Senders /\ queue[i].by # s
  <2>1. \A i \in 1 .. Len(queue) : queue[i] \in Frame BY <1>1
  <2>2. stage[s] \notin Waiting BY DEF Waiting
  <2> QED BY <2>1, <2>2, FrameFields DEF Inv, TurnInv
<1>6. TurnInv' BY <1>4, <1>5 DEF Inv, TurnInv
<1>7. OrderInv' BY <1>4, WrittenOrder DEF Inv, OrderInv
<1>8. NoSleepingTurn' BY DEF Inv, TurnInv, NoSleepingTurn, Turning
<1> QED BY <1>6, <1>7, <1>8

\* A sender gives the turn back and wakes the others, having written or not.
LEMMA NotifiedStep ==
  ASSUME Inv, NEW s \in Senders, stage[s] \in Turning,
         stage' = Notified(s, stage), busy' = FALSE, hand' = NoFrame,
         UNCHANGED <<queue, next>>,
         UNCHANGED wire \/ (stage[s] = "write" /\ wire' = Written(FALSE))
  PROVE  /\ stage' \in [Threads -> Stages]
         /\ wire' \in Seq([frame : Frame, whole : BOOLEAN])
         /\ TurnInv' /\ OrderInv' /\ NoSleepingTurn'
PROOF
<1>1. /\ queue \in Seq(Frame) /\ stage \in [Threads -> Stages]
      /\ Senders \subseteq Threads
  BY DEF Inv, TypeOK, Threads
<1>2. \A u \in Threads :
        stage'[u] = IF u = s THEN "idle"
                    ELSE IF stage[u] = "asleep" THEN "check" ELSE stage[u]
  BY DEF Notified
<1>3. stage' \in [Threads -> Stages]
  BY <1>1 DEF Notified, Stages
<1>4. \A u \in Senders : stage[u] \in Turning => u = s
  BY DEF Inv, TurnInv
<1>5. stage[s] \notin Waiting BY DEF Turning, Waiting
<1>6. \A u \in Senders : /\ stage'[u] \in Waiting <=> stage[u] \in Waiting
                         /\ stage[u] \in Waiting => stage'[u] = "check"
                         /\ stage'[u] \notin Turning
  BY <1>1, <1>2, <1>4, <1>5 DEF Waiting, Turning
<1>7. \A i \in 1 .. Len(queue) : queue[i].by \in Senders
  <2>1. \A i \in 1 .. Len(queue) : queue[i] \in Frame BY <1>1
  <2> QED BY <2>1, FrameFields
<1>8. TurnInv' BY <1>6, <1>7 DEF Inv, TurnInv
<1>9. Unwritten \subseteq Turning BY DEF Unwritten, Turning
<1>10. OrderInv' /\ wire' \in Seq([frame : Frame, whole : BOOLEAN])
  <2>1. CASE UNCHANGED wire
    BY <1>6, <1>9, <2>1 DEF Inv, TypeOK, OrderInv, WireOrder
  <2>2. CASE stage[s] = "write" /\ wire' = Written(FALSE)
    BY <1>6, <1>9, <2>2, WrittenOrder DEF OrderInv
  <2> QED BY <2>1, <2>2
<1>11. NoSleepingTurn'
  <2> SUFFICES ASSUME queue # <<>> PROVE stage'[Peek(queue).by] = "check"
    BY DEF NoSleepingTurn
  <2>1. PICK i \in 1 .. Len(queue) : Peek(queue) = queue[i]
    BY <1>1, NextIndexFacts DEF Peek
  <2> QED BY <1>6, <1>7, <2>1 DEF Inv, TurnInv
<1> QED BY <1>3, <1>8, <1>10, <1>11

-----------------------------------------------------------------------------

\* `Shared::end` takes a thread to one place.
LEMMA EndGoes ==
  ASSUME TypeOK, NEW t \in Threads, End(t)
  PROVE  /\ ended' \in BOOLEAN
         /\ \E p \in Stages :
              /\ Goto(t, p)
              /\ t \in Senders => p \in Turning \ Unwritten
PROOF BY DEF End, AfterEnd, Stages, Turning, Unwritten

\* A thread that goes to a stage keeps the type of `stage`.
LEMMA GotoStages ==
  ASSUME TypeOK, NEW t \in Threads, NEW p \in Stages, Goto(t, p)
  PROVE  stage' \in [Threads -> Stages]
PROOF BY DEF Goto, TypeOK

\* Every step preserves the invariant of turns and order.
LEMMA InvStep ==
  ASSUME Inv, [Next]_vars
  PROVE  Inv'
PROOF
<1> USE DEF turnVars, writerVars
<1>0. /\ Senders \subseteq Threads /\ Closers \subseteq Threads
      /\ Reader \in Threads /\ TypeOK
  BY DEF Threads, Inv
<1>1. CASE \E s \in Senders : \E k \in Keys : Arrive(s, k)
  BY <1>1, ArriveStep
<1>2. ASSUME NEW s \in Senders, SendStep(s) \/ SendFault(s)
      PROVE  Inv'
  <2>1. CASE TakeTurn(s) BY <2>1, TakeTurnStep
  <2>2. CASE Sleep(s) BY <2>2, SleepStep
  <2>3. CASE LockWriter(s)
    <3>1. PICK p \in Stages : /\ Goto(s, p) /\ p \in Turning
                              /\ ended' \in BOOLEAN
      <4>1. CASE Goto(s, "decide") /\ UNCHANGED ended
        BY <4>1, <1>0 DEF Stages, Turning, TypeOK
      <4>2. CASE End(s) BY <4>2, <1>0, EndGoes
      <4> QED BY <2>3, <4>1, <4>2 DEF LockWriter
    <3>2. TypeOK' BY <1>0, <2>3, <3>1, GotoStages DEF TypeOK, LockWriter
    <3>3. stage[s] \in Turning /\ stage[s] \in Unwritten
      BY <2>3 DEF LockWriter, Turning, Unwritten
    <3> QED BY <1>0, <2>3, <3>1, <3>2, <3>3, QuietStep DEF LockWriter, Inv
  <2>4. CASE Refused(s)
    <3>1. Goto(s, "finish") /\ "finish" \in Stages /\ "finish" \in Turning
          /\ "finish" \notin Unwritten /\ stage[s] \in Turning
      BY <2>4 DEF Refused, Stages, Turning, Unwritten
    <3>2. TypeOK' BY <1>0, <2>4, <3>1, GotoStages DEF TypeOK, Refused
    <3> QED BY <1>0, <2>4, <3>1, <3>2, QuietStep DEF Refused, Inv
  <2>5. CASE Invalid(s)
    <3>1. PICK p \in Stages : /\ Goto(s, p) /\ p \in Turning \ Unwritten
                              /\ ended' \in BOOLEAN
      BY <1>0, <2>5, EndGoes DEF Invalid
    <3>2. TypeOK' BY <1>0, <2>5, <3>1, GotoStages DEF TypeOK, Invalid
    <3>3. stage[s] \in Turning BY <2>5 DEF Invalid, Turning
    <3> QED BY <1>0, <2>5, <3>1, <3>2, <3>3, QuietStep DEF Invalid, Inv
  <2>6. CASE StartWrite(s)
    <3>1. Goto(s, "write") /\ "write" \in Stages /\ "write" \in Turning
          /\ stage[s] \in Turning /\ stage[s] \in Unwritten
      BY <2>6 DEF StartWrite, Stages, Turning, Unwritten
    <3>2. TypeOK' BY <1>0, <2>6, <3>1, GotoStages DEF TypeOK, StartWrite
    <3> QED BY <1>0, <2>6, <3>1, <3>2, QuietStep DEF StartWrite, Inv
  <2>7. CASE WriteDone(s) \/ WritePeerGone(s)
    <3>1. /\ Goto(s, "finish") /\ "finish" \in Stages
          /\ "finish" \in Turning \ Unwritten /\ stage[s] = "write"
          /\ \E w \in BOOLEAN : wire' = Written(w)
          /\ failed' \in BOOLEAN
          /\ UNCHANGED <<queue, busy, next, hand, writerLock, poisoned, writer,
                         ended, delivery, told, incoming>>
      BY <1>0, <2>7 DEF WriteDone, WritePeerGone, Stages, Turning, Unwritten,
                       TypeOK
    <3>2. wire' \in Seq([frame : Frame, whole : BOOLEAN])
      BY <3>1, WrittenOrder
    <3>3. TypeOK' BY <1>0, <3>1, <3>2, GotoStages DEF TypeOK
    <3> QED BY <3>1, <3>3, WriteStep DEF Inv
  <2>8. CASE WriteFails(s)
    <3>1. PICK p \in Stages : /\ Goto(s, p) /\ p \in Turning \ Unwritten
                              /\ ended' \in BOOLEAN
      BY <1>0, <2>8, EndGoes DEF WriteFails
    <3>2. /\ stage[s] = "write" /\ FALSE \in BOOLEAN /\ wire' = Written(FALSE)
          /\ wire' \in Seq([frame : Frame, whole : BOOLEAN])
      BY <2>8, WrittenOrder DEF WriteFails
    <3>3. TypeOK' BY <1>0, <2>8, <3>1, <3>2, GotoStages DEF TypeOK, WriteFails
    <3> QED BY <2>8, <3>1, <3>2, <3>3, WriteStep DEF WriteFails, Inv
  <2>9. CASE WritePanics(s)
    <3>1. stage[s] \in Turning BY <2>9 DEF WritePanics, Turning
    <3>2. /\ stage' \in [Threads -> Stages]
          /\ wire' \in Seq([frame : Frame, whole : BOOLEAN])
          /\ TurnInv' /\ OrderInv' /\ NoSleepingTurn'
      BY <2>9, <3>1, NotifiedStep DEF WritePanics
    <3>3. TypeOK' BY <1>0, <2>9, <3>2 DEF TypeOK, WritePanics
    <3> QED BY <3>2, <3>3 DEF Inv
  <2>10. CASE Finish(s)
    <3>1. Goto(s, "unlock") /\ "unlock" \in Stages /\ "unlock" \in Turning
          /\ "unlock" \notin Unwritten /\ stage[s] \in Turning
      BY <2>10 DEF Finish, Stages, Turning, Unwritten
    <3>2. TypeOK' BY <1>0, <2>10, <3>1, GotoStages DEF TypeOK, Finish
    <3> QED BY <1>0, <2>10, <3>1, <3>2, QuietStep DEF Finish, Inv
  <2>11. CASE Unlock(s)
    <3>1. Goto(s, "release") /\ "release" \in Stages /\ "release" \in Turning
          /\ "release" \notin Unwritten /\ stage[s] \in Turning
      BY <2>11 DEF Unlock, Stages, Turning, Unwritten
    <3>2. TypeOK' BY <1>0, <2>11, <3>1, GotoStages DEF TypeOK, Unlock
    <3> QED BY <1>0, <2>11, <3>1, <3>2, QuietStep DEF Unlock, Inv
  <2>12. CASE GiveTurn(s)
    <3>1. stage[s] \in Turning BY <2>12 DEF GiveTurn, Turning
    <3>2. /\ stage' \in [Threads -> Stages]
          /\ TurnInv' /\ OrderInv' /\ NoSleepingTurn'
      BY <2>12, <3>1, NotifiedStep DEF GiveTurn
    <3>3. TypeOK' BY <1>0, <2>12, <3>2 DEF TypeOK, GiveTurn
    <3> QED BY <3>2, <3>3 DEF Inv
  <2> QED BY <1>2, <2>1, <2>2, <2>3, <2>4, <2>5, <2>6, <2>7, <2>8, <2>9,
             <2>10, <2>11, <2>12 DEF SendStep, SendFault
<1>3. ASSUME NEW t \in Threads, EndStep(t)
      PROVE  Inv'
  <2>1. CASE Tell(t)
    <3>1. /\ Goto(t, AfterEnd(t)) /\ AfterEnd(t) \in Stages
          /\ t \in Senders => /\ AfterEnd(t) \in Turning
                              /\ AfterEnd(t) \notin Unwritten
                              /\ stage[t] \in Turning
      BY <2>1 DEF Tell, AfterEnd, Stages, Turning, Unwritten
    <3>2. TypeOK' BY <1>0, <2>1, <3>1, GotoStages DEF TypeOK, Tell
    <3> QED BY <2>1, <3>1, <3>2, QuietStep DEF Tell, Inv
  <2>2. CASE ReleaseIfEnded(t)
    <3>1. /\ Goto(t, AfterRelease(t)) /\ AfterRelease(t) \in Stages
          /\ t \in Senders => /\ AfterRelease(t) \in Turning
                              /\ AfterRelease(t) \notin Unwritten
                              /\ stage[t] \in Turning
      BY <2>2 DEF ReleaseIfEnded, AfterRelease, Stages, Turning, Unwritten
    <3>2. TypeOK' BY <1>0, <2>2, <3>1, GotoStages DEF TypeOK, ReleaseIfEnded
    <3> QED BY <2>2, <3>1, <3>2, QuietStep DEF ReleaseIfEnded, Inv
  <2> QED BY <1>3, <2>1, <2>2 DEF EndStep
<1>4. ASSUME NEW t \in Closers, Close(t)
      PROVE  Inv'
  <2>1. PICK p \in Stages : Goto(t, p) /\ ended' \in BOOLEAN
    BY <1>0, <1>4, EndGoes DEF Close
  <2>2. TypeOK' BY <1>0, <1>4, <2>1, GotoStages DEF TypeOK, Close
  <2>3. t \notin Senders BY ThreadsAssumption
  <2> QED BY <1>0, <1>4, <2>1, <2>2, <2>3, QuietStep DEF Close, Inv
<1>5. CASE ReadFrame \/ ReadEnds \/ Deliver \/ Route
  <2>1. PICK p \in Stages : Goto(Reader, p) /\ ended' \in BOOLEAN
    <3>1. CASE End(Reader) BY <1>0, <3>1, EndGoes
    <3>2. CASE ~End(Reader)
      BY <1>0, <1>5, <3>2
         DEF ReadFrame, ReadEnds, Deliver, Route, TypeOK, Stages
    <3> QED BY <3>1, <3>2
  <2>2. TypeOK'
    BY <1>0, <1>5, <2>1, GotoStages
       DEF TypeOK, ReadFrame, ReadEnds, Deliver, Route
  <2>3. Reader \notin Senders BY ThreadsAssumption
  <2>4. UNCHANGED <<queue, busy, next, hand, wire>>
    BY <1>5 DEF ReadFrame, ReadEnds, Deliver, Route
  <2> QED BY <1>0, <2>1, <2>2, <2>3, <2>4, QuietStep DEF Inv
<1>6. CASE UNCHANGED vars
  BY <1>6 DEF vars, Inv, TypeOK, TurnInv, OrderInv, WireOrder, NoSleepingTurn
<1> QED BY <1>1, <1>2, <1>3, <1>4, <1>5, <1>6 DEF Next

\* The turns are exclusive and lost to nobody, and the frames on the wire, in
\* hand and in the queue keep the writer's rule, in every reachable state.
THEOREM StreamInvariant == Spec => []Inv
PROOF
<1>1. Init => Inv
  <2> SUFFICES ASSUME Init PROVE Inv OBVIOUS
  <2>1. queue \in Seq(Frame) /\ Len(queue) = 0
    BY DEF Init
  <2>2. wire \in Seq([frame : Frame, whole : BOOLEAN]) /\ Len(wire) = 0
    BY DEF Init
  <2>3. stage \in [Threads -> Stages] BY DEF Init, Stages
  <2>4. TypeOK BY <2>1, <2>2, <2>3 DEF Init, TypeOK
  <2>5. \A s \in Senders : stage[s] = "idle"
    BY ThreadsAssumption DEF Init, Threads
  <2>6. TurnInv BY <2>1, <2>5 DEF TurnInv, Turning, Waiting
  <2>7. OrderInv
    BY <2>1, <2>2, <2>5 DEF OrderInv, WireOrder, Turning, Unwritten
  <2>8. NoSleepingTurn BY DEF Init, NoSleepingTurn
  <2> QED BY <2>4, <2>6, <2>7, <2>8 DEF Inv
<1>2. Inv /\ [Next]_vars => Inv' BY InvStep
<1> QED BY <1>1, <1>2, PTL DEF Spec

\* Whatever senders send, and whatever happens to the writer and the session,
\* the order on the wire is the writer's rule (D-N).
THEOREM WireKeepsOrder == Spec => []WireOrder
PROOF
<1>1. Inv => WireOrder BY DEF Inv, OrderInv
<1> QED BY <1>1, StreamInvariant, PTL

\* When the writer is free, the sender whose frame comes next is awake.
THEOREM NoTurnLost == Spec => []NoSleepingTurn
PROOF
<1>1. Inv => NoSleepingTurn BY DEF Inv
<1> QED BY <1>1, StreamInvariant, PTL

-----------------------------------------------------------------------------
(* The end of the session. *)

\* What the threads are, and that one sender at most has the turn.
Facts ==
  /\ stage \in [Threads -> Stages] /\ told \in Nat
  /\ Senders \subseteq Threads /\ Closers \subseteq Threads
  /\ Reader \in Threads \ (Senders \cup Closers)
  /\ Senders \cap Closers = {} /\ Nobody \notin Threads
  /\ \A s, u \in Senders :
       stage[s] \in Turning /\ stage[u] \in Turning => s = u

\* They follow from the invariant of the turns.
LEMMA ThreadFacts ==
  ASSUME Inv
  PROVE  Facts
PROOF BY ThreadsAssumption DEF Inv, TypeOK, TurnInv, Threads, Facts

\* Who ends the session first tells the router, and is the only one to; the
\* reader routes inside the fence, and only before that.
ToldInv ==
  /\ \A t \in Threads : stage[t] = "tell" => ended /\ told = 0
  /\ \A t, u \in Threads : stage[t] = "tell" /\ stage[u] = "tell" => t = u
  /\ ~ended => told = 0
  /\ stage[Reader] = "route" => delivery = Reader /\ told = 0
  /\ told <= 1

\* The writer's mutex is held by the sender that uses the writer.
LockInv ==
  \A s \in Senders :
    writerLock = s <=> stage[s] \in {"decide", "write", "tell", "finish",
                                     "unlock"}

\* ToldInv is inductive.
LEMMA ToldInvStep ==
  ASSUME Inv, ToldInv, [Next]_vars
  PROVE  ToldInv'
PROOF
<1> USE DEF turnVars, writerVars, Goto, Facts
<1>0. Inv /\ Facts BY ThreadFacts
<1>1. ASSUME NEW s \in Senders, NEW k \in Keys, Arrive(s, k)
      PROVE  ToldInv'
  BY <1>0, <1>1 DEF ToldInv, Arrive
<1>2. ASSUME NEW s \in Senders, SendStep(s) \/ SendFault(s)
      PROVE  ToldInv'
  <2>1. CASE TakeTurn(s)
    BY <1>0, <2>1 DEF ToldInv, TakeTurn
  <2>2. CASE Sleep(s)
    BY <1>0, <2>2 DEF ToldInv, Sleep
  <2>3. CASE LockWriter(s)
    BY <1>0, <2>3 DEF ToldInv, LockWriter, End, AfterEnd
  <2>4. CASE Refused(s)
    BY <1>0, <2>4 DEF ToldInv, Refused
  <2>5. CASE Invalid(s)
    BY <1>0, <2>5 DEF ToldInv, Invalid, End, AfterEnd
  <2>6. CASE StartWrite(s)
    BY <1>0, <2>6 DEF ToldInv, StartWrite
  <2>7. CASE WriteDone(s)
    BY <1>0, <2>7 DEF ToldInv, WriteDone
  <2>8. CASE WritePeerGone(s)
    BY <1>0, <2>8 DEF ToldInv, WritePeerGone
  <2>9. CASE WriteFails(s)
    BY <1>0, <2>9 DEF ToldInv, WriteFails, End, AfterEnd
  <2>10. CASE WritePanics(s)
    BY <1>0, <2>10 DEF ToldInv, WritePanics, Notified
  <2>11. CASE Finish(s)
    BY <1>0, <2>11 DEF ToldInv, Finish
  <2>12. CASE Unlock(s)
    BY <1>0, <2>12 DEF ToldInv, Unlock
  <2>13. CASE GiveTurn(s)
    BY <1>0, <2>13 DEF ToldInv, GiveTurn, Notified
  <2> QED BY <1>2, <2>1, <2>2, <2>3, <2>4, <2>5, <2>6, <2>7,
             <2>8, <2>9, <2>10, <2>11, <2>12, <2>13 DEF SendStep, SendFault
<1>3. ASSUME NEW t \in Threads, EndStep(t)
      PROVE  ToldInv'
  <2>1. CASE Tell(t)
    BY <1>0, <2>1 DEF ToldInv, Tell, AfterEnd
  <2>2. CASE ReleaseIfEnded(t)
    BY <1>0, <2>2 DEF ToldInv, ReleaseIfEnded, AfterRelease
  <2> QED BY <1>3, <2>1, <2>2 DEF EndStep
<1>4. ASSUME NEW t \in Closers, Close(t)
      PROVE  ToldInv'
  BY <1>0, <1>4 DEF ToldInv, Close, End, AfterEnd
<1>5. CASE ReadFrame
  BY <1>0, <1>5 DEF ToldInv, ReadFrame
<1>6. CASE ReadEnds
  BY <1>0, <1>6 DEF ToldInv, ReadEnds, End, AfterEnd
<1>7. CASE Deliver
  BY <1>0, <1>7 DEF ToldInv, Deliver
<1>8. CASE Route
  BY <1>0, <1>8 DEF ToldInv, Route, End, AfterEnd
<1>9. CASE UNCHANGED vars BY <1>9 DEF ToldInv, vars
<1> QED BY <1>1, <1>2, <1>3, <1>4, <1>5, <1>6, <1>7, <1>8, <1>9 DEF Next

\* LockInv is inductive.
LEMMA LockInvStep ==
  ASSUME Inv, LockInv, [Next]_vars
  PROVE  LockInv'
PROOF
<1> USE DEF turnVars, writerVars, Goto, Facts, Turning
<1>0. Inv /\ Facts BY ThreadFacts
<1>1. ASSUME NEW s \in Senders, NEW k \in Keys, Arrive(s, k)
      PROVE  LockInv'
  BY <1>0, <1>1 DEF LockInv, Arrive
<1>2. ASSUME NEW s \in Senders, SendStep(s) \/ SendFault(s)
      PROVE  LockInv'
  <2>1. CASE TakeTurn(s)
    BY <1>0, <2>1 DEF LockInv, TakeTurn
  <2>2. CASE Sleep(s)
    BY <1>0, <2>2 DEF LockInv, Sleep
  <2>3. CASE LockWriter(s)
    BY <1>0, <2>3 DEF LockInv, LockWriter, End, AfterEnd
  <2>4. CASE Refused(s)
    BY <1>0, <2>4 DEF LockInv, Refused
  <2>5. CASE Invalid(s)
    BY <1>0, <2>5 DEF LockInv, Invalid, End, AfterEnd
  <2>6. CASE StartWrite(s)
    BY <1>0, <2>6 DEF LockInv, StartWrite
  <2>7. CASE WriteDone(s)
    BY <1>0, <2>7 DEF LockInv, WriteDone
  <2>8. CASE WritePeerGone(s)
    BY <1>0, <2>8 DEF LockInv, WritePeerGone
  <2>9. CASE WriteFails(s)
    BY <1>0, <2>9 DEF LockInv, WriteFails, End, AfterEnd
  <2>10. CASE WritePanics(s)
    BY <1>0, <2>10 DEF LockInv, WritePanics, Notified
  <2>11. CASE Finish(s)
    BY <1>0, <2>11 DEF LockInv, Finish
  <2>12. CASE Unlock(s)
    BY <1>0, <2>12 DEF LockInv, Unlock
  <2>13. CASE GiveTurn(s)
    BY <1>0, <2>13 DEF LockInv, GiveTurn, Notified
  <2> QED BY <1>2, <2>1, <2>2, <2>3, <2>4, <2>5, <2>6, <2>7,
             <2>8, <2>9, <2>10, <2>11, <2>12, <2>13 DEF SendStep, SendFault
<1>3. ASSUME NEW t \in Threads, EndStep(t)
      PROVE  LockInv'
  <2>1. CASE Tell(t)
    BY <1>0, <2>1 DEF LockInv, Tell, AfterEnd
  <2>2. CASE ReleaseIfEnded(t)
    BY <1>0, <2>2 DEF LockInv, ReleaseIfEnded, AfterRelease
  <2> QED BY <1>3, <2>1, <2>2 DEF EndStep
<1>4. ASSUME NEW t \in Closers, Close(t)
      PROVE  LockInv'
  BY <1>0, <1>4 DEF LockInv, Close, End, AfterEnd
<1>5. CASE ReadFrame
  BY <1>0, <1>5 DEF LockInv, ReadFrame
<1>6. CASE ReadEnds
  BY <1>0, <1>6 DEF LockInv, ReadEnds, End, AfterEnd
<1>7. CASE Deliver
  BY <1>0, <1>7 DEF LockInv, Deliver
<1>8. CASE Route
  BY <1>0, <1>8 DEF LockInv, Route, End, AfterEnd
<1>9. CASE UNCHANGED vars BY <1>9 DEF LockInv, vars
<1> QED BY <1>1, <1>2, <1>3, <1>4, <1>5, <1>6, <1>7, <1>8, <1>9 DEF Next


\* Written adds one entry to the wire.
LEMMA WireGrows ==
  ASSUME TypeOK, hand \in Frame, NEW w \in BOOLEAN, wire' = Written(w)
  PROVE  /\ Len(wire) \in Nat /\ Len(wire') = Len(wire) + 1
         /\ wire'[Len(wire) + 1].whole = w
         /\ wire'[Len(wire) + 1].frame = hand
         /\ \A i \in 1 .. Len(wire) : wire'[i] = wire[i]
PROOF
<1> DEFINE e == [frame |-> hand, whole |-> w]
           E == [frame : Frame, whole : BOOLEAN]
<1>1. wire \in Seq(E) BY DEF TypeOK
<1>2. e \in E /\ e.frame = hand /\ e.whole = w OBVIOUS
<1>3. wire' = Append(wire, e) BY DEF Written
<1> HIDE DEF e, E
<1> QED BY <1>1, <1>2, <1>3

\* A frame written in part means a session that has ended, or a writer that
\* failed or whose lock is poisoned, and no sender writes then.
TornInv ==
  /\ \A i \in 1 .. Len(wire) : ~wire[i].whole => failed \/ poisoned \/ ended
  /\ \A s \in Senders : stage[s] \in {"decide", "write"} => ~poisoned
  /\ \A s \in Senders :
       stage[s] = "write" => \A i \in 1 .. Len(wire) : wire[i].whole
  /\ FramingKept

\* A frame whose `send` came after the end is known to be late wherever it is.
LateInv ==
  /\ \A i \in 1 .. Len(queue) : queue[i].late => ended
  /\ \A s \in Senders : stage[s] \in Unwritten => (hand.late => ended)
  /\ \A s \in Senders : stage[s] = "write" => ~hand.late
  /\ NothingSentLate

\* TornInv is inductive.
LEMMA TornInvStep ==
  ASSUME Inv, TornInv, [Next]_vars
  PROVE  TornInv'
PROOF
<1> USE DEF turnVars, writerVars, Goto, Facts, Turning, FramingKept
<1>0. Inv /\ Facts BY ThreadFacts
<1>1. ASSUME NEW s \in Senders, NEW k \in Keys, Arrive(s, k)
      PROVE  TornInv'
  BY <1>0, <1>1 DEF TornInv, Arrive
<1>2. ASSUME NEW s \in Senders, SendStep(s) \/ SendFault(s)
      PROVE  TornInv'
  <2>1. CASE TakeTurn(s)
    BY <1>0, <2>1 DEF TornInv, TakeTurn
  <2>2. CASE Sleep(s)
    BY <1>0, <2>2 DEF TornInv, Sleep
  <2>3. CASE LockWriter(s)
    BY <1>0, <2>3 DEF TornInv, LockWriter, End, AfterEnd
  <2>4. CASE Refused(s)
    BY <1>0, <2>4 DEF TornInv, Refused
  <2>5. CASE Invalid(s)
    BY <1>0, <2>5 DEF TornInv, Invalid, End, AfterEnd
  <2>6. CASE StartWrite(s)
    BY <1>0, <2>6 DEF TornInv, StartWrite
  <2>7. CASE WriteDone(s)
    <3>1. stage[s] = "write" /\ hand \in Frame /\ TypeOK
      BY <1>0, <2>7 DEF WriteDone, Inv, TurnInv, Turning
    <3>2. /\ Len(wire) \in Nat /\ Len(wire') = Len(wire) + 1
          /\ wire'[Len(wire) + 1].whole = TRUE
          /\ wire'[Len(wire) + 1].frame = hand
          /\ \A i \in 1 .. Len(wire) : wire'[i] = wire[i]
      BY <2>7, <3>1, WireGrows DEF WriteDone
    <3>3. \A i \in 1 .. Len(wire) : wire[i].whole
      BY <3>1 DEF TornInv
    <3>4. FramingKept' BY <3>2, <3>3 DEF FramingKept
    <3>5. \A i \in 1 .. Len(wire') :
            ~wire'[i].whole => failed' \/ poisoned' \/ ended'
      <4>1. wire'[Len(wire) + 1].whole BY <3>2
      <4>2. \A i \in 1 .. Len(wire') : wire'[i].whole
        BY <3>2, <3>3, <4>1
      <4> QED BY <4>2
    <3>6. \A u \in Senders : stage'[u] \notin Unwritten
      BY <1>0, <2>7, <3>1 DEF Facts, Turning, Unwritten, WriteDone
    <3> QED BY <3>4, <3>5, <3>6 DEF TornInv, Unwritten
  <2>8. CASE WritePeerGone(s)
    <3>1. stage[s] = "write" /\ hand \in Frame /\ TypeOK
      BY <1>0, <2>8 DEF WritePeerGone, Inv, TurnInv, Turning
    <3>2. /\ Len(wire) \in Nat /\ Len(wire') = Len(wire) + 1
          /\ wire'[Len(wire) + 1].whole = FALSE
          /\ wire'[Len(wire) + 1].frame = hand
          /\ \A i \in 1 .. Len(wire) : wire'[i] = wire[i]
      BY <2>8, <3>1, WireGrows DEF WritePeerGone
    <3>3. \A i \in 1 .. Len(wire) : wire[i].whole
      BY <3>1 DEF TornInv
    <3>4. FramingKept' BY <3>2, <3>3 DEF FramingKept
    <3>5. \A i \in 1 .. Len(wire') :
            ~wire'[i].whole => failed' \/ poisoned' \/ ended'
      BY <2>8, <3>2, <3>3 DEF WritePeerGone
    <3>6. \A u \in Senders : stage'[u] \notin Unwritten
      BY <1>0, <2>8, <3>1 DEF Facts, Turning, Unwritten, WritePeerGone
    <3> QED BY <3>4, <3>5, <3>6 DEF TornInv, Unwritten
  <2>9. CASE WriteFails(s)
    <3>1. stage[s] = "write" /\ hand \in Frame /\ TypeOK
      BY <1>0, <2>9 DEF WriteFails, Inv, TurnInv, Turning
    <3>2. /\ Len(wire) \in Nat /\ Len(wire') = Len(wire) + 1
          /\ wire'[Len(wire) + 1].whole = FALSE
          /\ wire'[Len(wire) + 1].frame = hand
          /\ \A i \in 1 .. Len(wire) : wire'[i] = wire[i]
      BY <2>9, <3>1, WireGrows DEF WriteFails
    <3>3. \A i \in 1 .. Len(wire) : wire[i].whole
      BY <3>1 DEF TornInv
    <3>4. FramingKept' BY <3>2, <3>3 DEF FramingKept
    <3>5. \A i \in 1 .. Len(wire') :
            ~wire'[i].whole => failed' \/ poisoned' \/ ended'
      BY <2>9, <3>2, <3>3 DEF WriteFails, End, AfterEnd
    <3>6. \A u \in Senders : stage'[u] \notin Unwritten
      BY <1>0, <2>9, <3>1
         DEF Facts, Turning, Unwritten, WriteFails, End, AfterEnd
    <3> QED BY <3>4, <3>5, <3>6 DEF TornInv, Unwritten
  <2>10. CASE WritePanics(s)
    <3>1. stage[s] = "write" /\ hand \in Frame /\ TypeOK
      BY <1>0, <2>10 DEF WritePanics, Inv, TurnInv, Turning
    <3>2. /\ Len(wire) \in Nat /\ Len(wire') = Len(wire) + 1
          /\ wire'[Len(wire) + 1].whole = FALSE
          /\ wire'[Len(wire) + 1].frame = hand
          /\ \A i \in 1 .. Len(wire) : wire'[i] = wire[i]
      BY <2>10, <3>1, WireGrows DEF WritePanics
    <3>3. \A i \in 1 .. Len(wire) : wire[i].whole
      BY <3>1 DEF TornInv
    <3>4. FramingKept' BY <3>2, <3>3 DEF FramingKept
    <3>5. \A i \in 1 .. Len(wire') :
            ~wire'[i].whole => failed' \/ poisoned' \/ ended'
      BY <2>10, <3>2, <3>3 DEF WritePanics, Notified
    <3>6. \A u \in Senders : stage'[u] \notin Unwritten
      BY <1>0, <2>10, <3>1 DEF Facts, Turning, Unwritten, WritePanics, Notified
    <3> QED BY <3>4, <3>5, <3>6 DEF TornInv, Unwritten
  <2>11. CASE Finish(s)
    BY <1>0, <2>11 DEF TornInv, Finish
  <2>12. CASE Unlock(s)
    BY <1>0, <2>12 DEF TornInv, Unlock
  <2>13. CASE GiveTurn(s)
    BY <1>0, <2>13 DEF TornInv, GiveTurn, Notified
  <2> QED BY <1>2, <2>1, <2>2, <2>3, <2>4, <2>5, <2>6, <2>7,
             <2>8, <2>9, <2>10, <2>11, <2>12, <2>13 DEF SendStep, SendFault
<1>3. ASSUME NEW t \in Threads, EndStep(t)
      PROVE  TornInv'
  <2>1. CASE Tell(t)
    BY <1>0, <2>1 DEF TornInv, Tell, AfterEnd
  <2>2. CASE ReleaseIfEnded(t)
    BY <1>0, <2>2 DEF TornInv, ReleaseIfEnded, AfterRelease
  <2> QED BY <1>3, <2>1, <2>2 DEF EndStep
<1>4. ASSUME NEW t \in Closers, Close(t)
      PROVE  TornInv'
  BY <1>0, <1>4 DEF TornInv, Close, End, AfterEnd
<1>5. CASE ReadFrame
  BY <1>0, <1>5 DEF TornInv, ReadFrame
<1>6. CASE ReadEnds
  BY <1>0, <1>6 DEF TornInv, ReadEnds, End, AfterEnd
<1>7. CASE Deliver
  BY <1>0, <1>7 DEF TornInv, Deliver
<1>8. CASE Route
  BY <1>0, <1>8 DEF TornInv, Route, End, AfterEnd
<1>9. CASE UNCHANGED vars BY <1>9 DEF TornInv, vars
<1> QED BY <1>1, <1>2, <1>3, <1>4, <1>5, <1>6, <1>7, <1>8, <1>9 DEF Next

\* LateInv is inductive.
LEMMA LateInvStep ==
  ASSUME Inv, LateInv, [Next]_vars
  PROVE  LateInv'
PROOF
<1> USE DEF turnVars, writerVars, Goto, Facts, Turning, Unwritten,
           NothingSentLate
<1>0. Inv /\ Facts BY ThreadFacts
<1>1. ASSUME NEW s \in Senders, NEW k \in Keys, Arrive(s, k)
      PROVE  LateInv'
  <2>1. /\ queue \in Seq(Frame) /\ next \in Nat /\ ended \in BOOLEAN
    BY <1>0 DEF Inv, TypeOK
  <2> DEFINE f == [call |-> k.call, control |-> k.control, target |-> k.target,
                   by |-> s, ticket |-> next, late |-> ended]
  <2>2. f \in Frame /\ f.late = ended /\ queue' = Append(queue, f)
    BY <1>1, <2>1, KeysAssumption DEF Arrive, Frame
  <2> HIDE DEF f
  <2>3. /\ Len(queue') = Len(queue) + 1 /\ Len(queue) \in Nat
        /\ queue'[Len(queue) + 1] = f
        /\ \A i \in 1 .. Len(queue) : queue'[i] = queue[i]
    BY <2>1, <2>2
  <2> QED BY <1>0, <1>1, <2>2, <2>3 DEF LateInv, Arrive
<1>2. ASSUME NEW s \in Senders, SendStep(s) \/ SendFault(s)
      PROVE  LateInv'
  <2>1. CASE TakeTurn(s)
    <3>1. queue \in Seq(Frame) /\ Len(queue) \in Nat BY <1>0 DEF Inv, TypeOK
    <3>2. queue # <<>>
      <4>1. \E i \in 1 .. Len(queue) : queue[i].by = s
        BY <1>0, <2>1 DEF TakeTurn, Inv, TurnInv, Waiting
      <4> QED BY <3>1, <4>1
    <3>3. NextIndex(queue) \in 1 .. Len(queue) BY <3>1, <3>2, NextIndexFacts
    <3>4. hand'.late => ended
      BY <2>1, <3>3 DEF TakeTurn, Peek, LateInv
    <3>5. \A i \in 1 .. Len(queue') : queue'[i].late => ended
      <4>1. /\ Len(queue') = Len(queue) - 1
            /\ \A i \in 1 .. Len(queue) - 1 :
                 queue'[i] = queue[i] \/ queue'[i] = queue[i + 1]
        BY <2>1, <3>1, <3>2, PoppedFacts DEF TakeTurn
      <4> QED BY <3>1, <4>1 DEF LateInv
    <3>6. ended' = ended /\ wire' = wire BY <2>1 DEF TakeTurn
    <3>7. \A u \in Senders : stage'[u] # "write"
      BY <1>0, <2>1 DEF TakeTurn, MyTurn, Inv, TurnInv, Turning
    <3>8. NothingSentLate' BY <3>6 DEF LateInv
    <3> QED BY <3>4, <3>5, <3>6, <3>7, <3>8 DEF LateInv
  <2>2. CASE Sleep(s)
    BY <1>0, <2>2 DEF LateInv, Sleep
  <2>3. CASE LockWriter(s)
    BY <1>0, <2>3 DEF LateInv, LockWriter, End, AfterEnd
  <2>4. CASE Refused(s)
    BY <1>0, <2>4 DEF LateInv, Refused
  <2>5. CASE Invalid(s)
    BY <1>0, <2>5 DEF LateInv, Invalid, End, AfterEnd
  <2>6. CASE StartWrite(s)
    BY <1>0, <2>6 DEF LateInv, StartWrite
  <2>7. CASE WriteDone(s)
    <3>1. stage[s] = "write" /\ hand \in Frame /\ TypeOK
      BY <1>0, <2>7 DEF WriteDone, Inv, TurnInv, Turning
    <3>2. /\ Len(wire) \in Nat /\ Len(wire') = Len(wire) + 1
          /\ wire'[Len(wire) + 1].whole = TRUE
          /\ wire'[Len(wire) + 1].frame = hand
          /\ \A i \in 1 .. Len(wire) : wire'[i] = wire[i]
      BY <2>7, <3>1, WireGrows DEF WriteDone
    <3>3. \A i \in 1 .. Len(wire') : ~wire'[i].frame.late
      BY <3>1, <3>2 DEF LateInv, NothingSentLate
    <3>4. \A i \in 1 .. Len(queue') : queue'[i].late => ended'
      BY <2>7 DEF LateInv, WriteDone
    <3>5. \A u \in Senders : stage'[u] \notin Unwritten
      BY <1>0, <2>7, <3>1 DEF Facts, Turning, Unwritten, WriteDone
    <3> QED BY <3>3, <3>4, <3>5 DEF LateInv, NothingSentLate, Unwritten
  <2>8. CASE WritePeerGone(s)
    <3>1. stage[s] = "write" /\ hand \in Frame /\ TypeOK
      BY <1>0, <2>8 DEF WritePeerGone, Inv, TurnInv, Turning
    <3>2. /\ Len(wire) \in Nat /\ Len(wire') = Len(wire) + 1
          /\ wire'[Len(wire) + 1].whole = FALSE
          /\ wire'[Len(wire) + 1].frame = hand
          /\ \A i \in 1 .. Len(wire) : wire'[i] = wire[i]
      BY <2>8, <3>1, WireGrows DEF WritePeerGone
    <3>3. \A i \in 1 .. Len(wire') : ~wire'[i].frame.late
      BY <3>1, <3>2 DEF LateInv, NothingSentLate
    <3>4. \A i \in 1 .. Len(queue') : queue'[i].late => ended'
      BY <2>8 DEF LateInv, WritePeerGone
    <3>5. \A u \in Senders : stage'[u] \notin Unwritten
      BY <1>0, <2>8, <3>1 DEF Facts, Turning, Unwritten, WritePeerGone
    <3> QED BY <3>3, <3>4, <3>5 DEF LateInv, NothingSentLate, Unwritten
  <2>9. CASE WriteFails(s)
    <3>1. stage[s] = "write" /\ hand \in Frame /\ TypeOK
      BY <1>0, <2>9 DEF WriteFails, Inv, TurnInv, Turning
    <3>2. /\ Len(wire) \in Nat /\ Len(wire') = Len(wire) + 1
          /\ wire'[Len(wire) + 1].whole = FALSE
          /\ wire'[Len(wire) + 1].frame = hand
          /\ \A i \in 1 .. Len(wire) : wire'[i] = wire[i]
      BY <2>9, <3>1, WireGrows DEF WriteFails
    <3>3. \A i \in 1 .. Len(wire') : ~wire'[i].frame.late
      BY <3>1, <3>2 DEF LateInv, NothingSentLate
    <3>4. \A i \in 1 .. Len(queue') : queue'[i].late => ended'
      BY <2>9 DEF LateInv, WriteFails, End, AfterEnd
    <3>5. \A u \in Senders : stage'[u] \notin Unwritten
      BY <1>0, <2>9, <3>1
         DEF Facts, Turning, Unwritten, WriteFails, End, AfterEnd
    <3> QED BY <3>3, <3>4, <3>5 DEF LateInv, NothingSentLate, Unwritten
  <2>10. CASE WritePanics(s)
    <3>1. stage[s] = "write" /\ hand \in Frame /\ TypeOK
      BY <1>0, <2>10 DEF WritePanics, Inv, TurnInv, Turning
    <3>2. /\ Len(wire) \in Nat /\ Len(wire') = Len(wire) + 1
          /\ wire'[Len(wire) + 1].whole = FALSE
          /\ wire'[Len(wire) + 1].frame = hand
          /\ \A i \in 1 .. Len(wire) : wire'[i] = wire[i]
      BY <2>10, <3>1, WireGrows DEF WritePanics
    <3>3. \A i \in 1 .. Len(wire') : ~wire'[i].frame.late
      BY <3>1, <3>2 DEF LateInv, NothingSentLate
    <3>4. \A i \in 1 .. Len(queue') : queue'[i].late => ended'
      BY <2>10 DEF LateInv, WritePanics, Notified
    <3>5. \A u \in Senders : stage'[u] \notin Unwritten
      BY <1>0, <2>10, <3>1 DEF Facts, Turning, Unwritten, WritePanics, Notified
    <3> QED BY <3>3, <3>4, <3>5 DEF LateInv, NothingSentLate, Unwritten
  <2>11. CASE Finish(s)
    BY <1>0, <2>11 DEF LateInv, Finish
  <2>12. CASE Unlock(s)
    BY <1>0, <2>12 DEF LateInv, Unlock
  <2>13. CASE GiveTurn(s)
    BY <1>0, <2>13 DEF LateInv, GiveTurn, Notified
  <2> QED BY <1>2, <2>1, <2>2, <2>3, <2>4, <2>5, <2>6, <2>7,
             <2>8, <2>9, <2>10, <2>11, <2>12, <2>13 DEF SendStep, SendFault
<1>3. ASSUME NEW t \in Threads, EndStep(t)
      PROVE  LateInv'
  <2>1. CASE Tell(t)
    BY <1>0, <2>1 DEF LateInv, Tell, AfterEnd
  <2>2. CASE ReleaseIfEnded(t)
    BY <1>0, <2>2 DEF LateInv, ReleaseIfEnded, AfterRelease
  <2> QED BY <1>3, <2>1, <2>2 DEF EndStep
<1>4. ASSUME NEW t \in Closers, Close(t)
      PROVE  LateInv'
  BY <1>0, <1>4 DEF LateInv, Close, End, AfterEnd
<1>5. CASE ReadFrame
  BY <1>0, <1>5 DEF LateInv, ReadFrame
<1>6. CASE ReadEnds
  BY <1>0, <1>6 DEF LateInv, ReadEnds, End, AfterEnd
<1>7. CASE Deliver
  BY <1>0, <1>7 DEF LateInv, Deliver
<1>8. CASE Route
  BY <1>0, <1>8 DEF LateInv, Route, End, AfterEnd
<1>9. CASE UNCHANGED vars BY <1>9 DEF LateInv, vars
<1> QED BY <1>1, <1>2, <1>3, <1>4, <1>5, <1>6, <1>7, <1>8, <1>9 DEF Next

\* While the writer of an ended session is there, someone has yet to drop it.
LEMMA WriterReleasedStep ==
  ASSUME Inv, LockInv, WriterReleased, [Next]_vars
  PROVE  WriterReleased'
PROOF
<1> USE DEF turnVars, writerVars, Goto, Facts, Turning, SomeoneReleases
<1>0. Inv /\ Facts BY ThreadFacts
<1>1. ASSUME NEW s \in Senders, NEW k \in Keys, Arrive(s, k)
      PROVE  WriterReleased'
  BY <1>0, <1>1 DEF WriterReleased, Arrive
<1>2. ASSUME NEW s \in Senders, SendStep(s) \/ SendFault(s)
      PROVE  WriterReleased'
  <2>1. CASE TakeTurn(s)
    BY <1>0, <2>1 DEF WriterReleased, TakeTurn
  <2>2. CASE Sleep(s)
    BY <1>0, <2>2 DEF WriterReleased, Sleep
  <2>3. CASE LockWriter(s)
    BY <1>0, <2>3 DEF WriterReleased, LockWriter, End, AfterEnd
  <2>4. CASE Refused(s)
    BY <1>0, <2>4 DEF WriterReleased, Refused
  <2>5. CASE Invalid(s)
    BY <1>0, <2>5 DEF WriterReleased, Invalid, End, AfterEnd
  <2>6. CASE StartWrite(s)
    BY <1>0, <2>6 DEF WriterReleased, StartWrite
  <2>7. CASE WriteDone(s)
    BY <1>0, <2>7 DEF WriterReleased, WriteDone
  <2>8. CASE WritePeerGone(s)
    BY <1>0, <2>8 DEF WriterReleased, WritePeerGone
  <2>9. CASE WriteFails(s)
    BY <1>0, <2>9 DEF WriterReleased, WriteFails, End, AfterEnd
  <2>10. CASE WritePanics(s)
    BY <1>0, <2>10 DEF WriterReleased, WritePanics, Notified
  <2>11. CASE Finish(s)
    BY <1>0, <2>11 DEF WriterReleased, Finish
  <2>12. CASE Unlock(s)
    BY <1>0, <2>12 DEF WriterReleased, Unlock
  <2>13. CASE GiveTurn(s)
    BY <1>0, <2>13 DEF WriterReleased, GiveTurn, Notified
  <2> QED BY <1>2, <2>1, <2>2, <2>3, <2>4, <2>5, <2>6, <2>7,
             <2>8, <2>9, <2>10, <2>11, <2>12, <2>13 DEF SendStep, SendFault
<1>3. ASSUME NEW t \in Threads, EndStep(t)
      PROVE  WriterReleased'
  <2>1. CASE Tell(t)
    BY <1>0, <2>1 DEF WriterReleased, Tell, AfterEnd
  <2>2. CASE ReleaseIfEnded(t)
    <3>1. CASE writerLock = Nobody
      BY <1>0, <2>2, <3>1 DEF WriterReleased, ReleaseIfEnded, AfterRelease
    <3>2. CASE writerLock # Nobody
      <4>1. PICK s \in Senders : writerLock = s BY <1>0, <3>2 DEF Inv, TypeOK
      <4>2. /\ stage[s] \in {"decide", "write", "tell", "finish", "unlock"}
            /\ s \in Threads /\ stage[s] # "release"
        BY <1>0, <4>1 DEF LockInv
      <4>3. stage'[s] = stage[s]
        BY <1>0, <2>2, <4>2 DEF ReleaseIfEnded, AfterRelease
      <4>4. SomeoneReleases' BY <4>2, <4>3
      <4> QED BY <2>2, <3>2, <4>4 DEF WriterReleased, ReleaseIfEnded
    <3> QED BY <3>1, <3>2
  <2> QED BY <1>3, <2>1, <2>2 DEF EndStep
<1>4. ASSUME NEW t \in Closers, Close(t)
      PROVE  WriterReleased'
  BY <1>0, <1>4 DEF WriterReleased, Close, End, AfterEnd
<1>5. CASE ReadFrame
  BY <1>0, <1>5 DEF WriterReleased, ReadFrame
<1>6. CASE ReadEnds
  BY <1>0, <1>6 DEF WriterReleased, ReadEnds, End, AfterEnd
<1>7. CASE Deliver
  BY <1>0, <1>7 DEF WriterReleased, Deliver
<1>8. CASE Route
  BY <1>0, <1>8 DEF WriterReleased, Route, End, AfterEnd
<1>9. CASE UNCHANGED vars BY <1>9 DEF WriterReleased, vars
<1> QED BY <1>1, <1>2, <1>3, <1>4, <1>5, <1>6, <1>7, <1>8, <1>9 DEF Next


EndInv == ToldInv /\ LockInv /\ TornInv /\ LateInv /\ WriterReleased

\* The end of the session is told once, a torn frame is the last, a late one is
\* not written and the writer is released, in every reachable state.
THEOREM EndInvariant == Spec => []EndInv
PROOF
<1>1. Init => EndInv
  <2> SUFFICES ASSUME Init PROVE EndInv OBVIOUS
  <2>1. /\ \A t \in Threads : stage[t] \in {"idle", "read"}
        /\ Reader \in Threads /\ Senders \subseteq Threads
    BY DEF Init, Threads
  <2>2. Len(queue) = 0 /\ Len(wire) = 0 BY DEF Init
  <2>3. ToldInv BY <2>1 DEF Init, ToldInv
  <2>4. LockInv BY <2>1, ThreadsAssumption DEF Init, LockInv
  <2>5. TornInv BY <2>1, <2>2 DEF Init, TornInv, FramingKept
  <2>6. LateInv BY <2>1, <2>2 DEF Init, LateInv, NothingSentLate, Unwritten
  <2>7. WriterReleased BY DEF Init, WriterReleased
  <2> QED BY <2>3, <2>4, <2>5, <2>6, <2>7 DEF EndInv
<1>2. Inv /\ EndInv /\ [Next]_vars => EndInv'
  BY ToldInvStep, LockInvStep, TornInvStep, LateInvStep, WriterReleasedStep
     DEF EndInv
<1> QED BY <1>1, <1>2, StreamInvariant, PTL DEF Spec

\* The router is told of the end at most once, and after the last route, however
\* many threads end the session and whatever the reader does meanwhile.
THEOREM RouterToldOnce == Spec => []ToldOnceAfterLastRoute
PROOF
<1>1. EndInv => ToldOnceAfterLastRoute
  BY DEF EndInv, ToldInv, ToldOnceAfterLastRoute
<1> QED BY <1>1, EndInvariant, PTL

\* Whatever goes wrong with a write, nothing follows a frame written in part.
THEOREM FramingNeverLost == Spec => []FramingKept
PROOF
<1>1. EndInv => FramingKept BY DEF EndInv, TornInv
<1> QED BY <1>1, EndInvariant, PTL

\* A frame sent after the session ended here is never on the wire.
THEOREM LateFramesRefused == Spec => []NothingSentLate
PROOF
<1>1. EndInv => NothingSentLate BY DEF EndInv, LateInv
<1> QED BY <1>1, EndInvariant, PTL

\* What is on the wire is sound for every set of senders and keys: the order
\* of the write queue, whole frames, and nothing after the end.
THEOREM WireIsSound == Spec => []WireSound
PROOF
<1>1. WireOrder /\ FramingKept /\ NothingSentLate => WireSound
  BY DEF WireSound
<1> QED BY <1>1, WireKeepsOrder, FramingNeverLost, LateFramesRefused, PTL

\* Unless a write panicked, an ended session's writer is gone or someone has yet
\* to drop it.
THEOREM WriterIsReleased == Spec => []WriterReleased
PROOF
<1>1. EndInv => WriterReleased BY DEF EndInv
<1> QED BY <1>1, EndInvariant, PTL
=============================================================================
