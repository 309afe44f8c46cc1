------------------------ MODULE SessionServiceProofs ------------------------
(***************************************************************************)
(* Theorems about the threads of a session over its table, for every       *)
(* number of calls, every set of workspaces and every value of the limits. *)
(*                                                                         *)
(* The inductive invariant is ServiceInv. Of the table (TableInv): which   *)
(* fields a record has in each phase, that the queues hold calls in the    *)
(* order of their numbers and each live record is where its phase says,    *)
(* that the busy counts are those of the records that run, and who waits   *)
(* at what. Of the threads: that a running record has a worker at work     *)
(* (ThreadInv), what the close has settled at each of its stages           *)
(* (CloseInv), where the reading thread may be (ReaderInv), who holds the  *)
(* table lock (LockInv), whose the pending calls are (PendingInv), what a  *)
(* scan of the queue has passed (ScanInv) and that no call outside the     *)
(* lock is startable (StartInv).                                           *)
(*                                                                         *)
(* The table's operators come first, each with what it changes (...Effect) *)
(* and that it keeps TableInv (...Keeps); TableInv's second parameter is   *)
(* the call that an operation has between two places, or NoCall. Then one  *)
(* lemma per action (...Step): it keeps ServiceInv and satisfies StepOK,   *)
(* which bounds the starts and the outcomes a single step may bring. The   *)
(* theorems of the specification close the module.                         *)
(***************************************************************************)
EXTENDS SessionService, FiniteSetTheorems, SequenceTheorems,
        WellFoundedInduction, TLAPS

RecordType ==
  [phase : Phases, resolved : BOOLEAN, gate : BOOLEAN, accepted : BOOLEAN,
   inTable : BOOLEAN, waiters : SUBSET Calls, outcome : Outcomes,
   views : SUBSET Views]

Says == Outcomes \cup {"refused", "cleanup", "events", "released", "accepted",
                       "report", "spool"}
ReplyType ==
  [to : Calls, what : Says, owner : Calls \cup {NoCall}, view : Views]

TableType ==
  [high : Nat, req : [Calls -> Requests], rec : [Calls -> RecordType],
   closing : BOOLEAN, closeStarted : BOOLEAN, ended : BOOLEAN,
   outstanding : Nat, controls : Nat, running : Nat, directRunning : Nat,
   tableEntries : Nat, unflushed : Nat, detached : Nat,
   busy : [Workspaces -> [Classes -> Nat]],
   requests : [RequestIds -> Calls \cup {NoCall}],
   others : SUBSET Calls, held : SUBSET Calls, closers : SUBSET Calls,
   report : BOOLEAN,
   pending : Seq(Calls), queue : Seq(Calls), directQueue : Seq(Calls),
   retained : Seq(Calls), cancelled : SUBSET Calls, revoked : SUBSET Calls,
   complete : SUBSET Calls, log : [Calls -> Nat], out : SUBSET ReplyType]

\* What the operators on a table leave alone.
SameCalls(s, u) ==
  /\ u.high = s.high /\ u.req = s.req
  /\ u.closing = s.closing /\ u.closeStarted = s.closeStarted
  /\ u.ended = s.ended /\ u.report = s.report /\ u.revoked = s.revoked
SameQueues(s, u) ==
  /\ u.pending = s.pending /\ u.queue = s.queue
  /\ u.directQueue = s.directQueue
SameBusy(s, u) ==
  /\ u.busy = s.busy /\ u.running = s.running
  /\ u.directRunning = s.directRunning
SameWaits(s, u) == u.held = s.held /\ u.closers = s.closers

\* The calls that wait on another one ask for its views or cancel it.
Asks(q) == Control(q) \/ q.type \in {"Result", "Response"}

\* A record is as its phase says, and waited on only while it is live.
RecordInv(s) ==
  \A c \in Calls :
    LET r == s.rec[c] IN
    /\ r.phase # "None" => c <= s.high
    /\ r.gate <=> r.phase \in {"Received", "Queued", "DirectWaiting"}
    /\ r.phase = "Received" => ~r.resolved
    /\ r.phase \in {"Queued", "DirectWaiting"} => r.resolved
    /\ r.phase = "Queued" => IsOperation(s.req[c])
    /\ r.phase = "DirectWaiting" => ~IsOperation(s.req[c])
    /\ r.phase = "Terminal" <=> r.outcome # "None"
    /\ \A w \in r.waiters : /\ r.phase \notin {"None", "Terminal"}
                            /\ w <= s.high /\ Asks(s.req[w])

\* The lines hold what belongs in them, in the order the calls came.
LinesInv(s) ==
  /\ \A i \in 1 .. Len(s.queue) :
       /\ s.queue[i] <= s.high /\ IsOperation(s.req[s.queue[i]])
       /\ Phase(s, s.queue[i]) \in {"None", "Queued", "Terminal"}
  /\ \A i, j \in 1 .. Len(s.queue) : i < j => s.queue[i] < s.queue[j]
  /\ \A i \in 1 .. Len(s.directQueue) :
       /\ s.directQueue[i] <= s.high
       /\ ~IsOperation(s.req[s.directQueue[i]])
  /\ \A i \in 1 .. Len(s.pending) : s.pending[i] <= s.high
  /\ \A i, j \in 1 .. Len(s.pending) : i < j => s.pending[i] < s.pending[j]
  /\ \A i \in 1 .. Len(s.queue), j \in 1 .. Len(s.pending) :
       s.queue[i] < s.pending[j]
  /\ \A i \in 1 .. Len(s.retained) : Phase(s, s.retained[i]) = "Terminal"
  /\ \A i, j \in 1 .. Len(s.retained) : i < j => s.retained[i] # s.retained[j]

\* A record that waits for a worker is in its line; `x` may be on its way.
PlacedInv(s, x) ==
  \A c \in Calls \ {x} :
    /\ Phase(s, c) = "Queued" => InSeq(c, s.queue)
    /\ Phase(s, c) = "DirectWaiting" => InSeq(c, s.directQueue)

\* The classes are counted no lower than what runs.
ClassOps(s, w, k) ==
  {c \in Calls : /\ Phase(s, c) = "Running" /\ IsOperation(s.req[c])
                 /\ s.req[c].ws = w /\ s.req[c].class = k}
BusyInv(s) ==
  \A w \in Workspaces, k \in Classes :
    s.busy[w][k] >= Cardinality(ClassOps(s, w, k))

\* A call that waits for its answer is where the answer will come from.
WaitInv(s) ==
  \A c \in s.others : \/ c \in s.held \cup s.closers
                      \/ \E d \in Calls : c \in s.rec[d].waiters

TableInv(s, x) ==
  /\ RecordInv(s) /\ LinesInv(s) /\ PlacedInv(s, x) /\ BusyInv(s) /\ WaitInv(s)

\* A count that loses some stays a natural number (the code subtracts with saturation).
LEMMA LessNat == ASSUME NEW n \in Nat, NEW m \in Nat PROVE Less(n, m) \in Nat
  BY DEF Less

\* What the parts of a call's request are.
LEMMA AskType ==
  ASSUME NEW s \in TableType, NEW c \in Calls
  PROVE  s.req[c] \in Requests /\ s.req[c].ws \in Workspaces
         /\ s.req[c].class \in Classes /\ s.req[c].rid \in RequestIds
         /\ s.req[c].target \in Calls \cup {NoCall}
         /\ s.req[c].type \in RequestTypes
<1>1. s.req[c] \in Requests
  BY DEF TableType
<1>2. s.req[c] \in Request
  BY <1>1, ServiceAssumption
<1> QED
  BY <1>1, <1>2 DEF Request

\* Giving back a lane's count touches no record and no queue.
LEMMA AnsweredOnEffect ==
  ASSUME NEW s \in TableType, NEW c \in Calls
  PROVE  LET u == AnsweredOn(s, c) IN
         /\ u \in TableType
         /\ SameCalls(s, u) /\ SameQueues(s, u) /\ SameBusy(s, u)
         /\ SameWaits(s, u)
         /\ u.rec = s.rec /\ u.retained = s.retained /\ u.out = s.out
         /\ u.others = s.others \ {c}
  BY ZenonT(60), LessNat DEF AnsweredOn, TableType, SameCalls, SameQueues,
     SameBusy, SameWaits

\* An answer puts one reply in the batch and gives back its lane's count.
LEMMA AnswerEffect ==
  ASSUME NEW s \in TableType, NEW c \in Calls, NEW what \in Says
  PROVE  LET u == Answer(s, c, what) IN
         /\ u \in TableType
         /\ SameCalls(s, u) /\ SameQueues(s, u) /\ SameBusy(s, u)
         /\ SameWaits(s, u)
         /\ u.rec = s.rec /\ u.retained = s.retained
         /\ u.others = s.others \ {c}
<1> DEFINE t == AnsweredOn(s, c)
<1>1. /\ t \in TableType
      /\ SameCalls(s, t) /\ SameQueues(s, t) /\ SameBusy(s, t)
      /\ SameWaits(s, t)
      /\ t.rec = s.rec /\ t.retained = s.retained
      /\ t.others = s.others \ {c}
  BY AnsweredOnEffect
<1>2. Reply(c, what) \in ReplyType
  BY DEF Reply, ReplyType, NoCall, Views
<1> HIDE DEF t
<1> DEFINE u == [t EXCEPT !.out = @ \cup {Reply(c, what)}]
<1>3. u \in TableType
  BY <1>1, <1>2 DEF TableType
<1>4. SameCalls(t, u) /\ SameQueues(t, u) /\ SameBusy(t, u) /\ SameWaits(t, u)
      /\ u.rec = t.rec /\ u.retained = t.retained /\ u.others = t.others
  BY <1>1 DEF TableType, SameCalls, SameQueues, SameBusy, SameWaits
<1> HIDE DEF u
<1>5. SameCalls(s, u) /\ SameQueues(s, u) /\ SameBusy(s, u) /\ SameWaits(s, u)
      /\ u.rec = s.rec /\ u.retained = s.retained /\ u.others = s.others \ {c}
  BY <1>1, <1>4 DEF SameCalls, SameQueues, SameBusy, SameWaits
<1> QED
  BY <1>3, <1>5 DEF Answer, u, t

\* Dropping one place of a queue shifts what follows it.
LEMMA DropType ==
  ASSUME NEW q \in Seq(Calls), NEW i \in 1 .. Len(q)
  PROVE  /\ Drop(q, i) \in Seq(Calls)
         /\ Len(Drop(q, i)) = Len(q) - 1
         /\ \A j \in 1 .. Len(q) - 1 :
              Drop(q, i)[j] = IF j < i THEN q[j] ELSE q[j + 1]
<1>0. Len(q) \in Nat
  OBVIOUS
<1>1. Drop(q, i) = SubSeq(q, 1, i - 1) \o SubSeq(q, i + 1, Len(q))
  BY DEF Drop
<1> DEFINE a == SubSeq(q, 1, i - 1)
           b == SubSeq(q, i + 1, Len(q))
<1>2. /\ a \in Seq(Calls) /\ Len(a) = i - 1
      /\ \A j \in 1 .. i - 1 : a[j] = q[j]
  OBVIOUS
<1>3. /\ b \in Seq(Calls) /\ Len(b) = Len(q) - i
      /\ \A j \in 1 .. Len(q) - i : b[j] = q[j + i]
  OBVIOUS
<1> HIDE DEF a, b
<1>4. /\ a \o b \in Seq(Calls) /\ Len(a \o b) = Len(a) + Len(b)
      /\ \A j \in 1 .. Len(a) + Len(b) :
           (a \o b)[j] = IF j <= Len(a) THEN a[j] ELSE b[j - Len(a)]
  BY <1>2, <1>3, ConcatProperties
<1>5. ASSUME NEW j \in 1 .. Len(q) - 1
      PROVE  (a \o b)[j] = IF j < i THEN q[j] ELSE q[j + 1]
  <2>0. j \in Int /\ i \in Int
    BY <1>0
  <2>1. CASE j < i
    BY <1>0, <1>2, <1>3, <1>4, <2>1
  <2>2. CASE ~(j < i)
    <3>1. j - (i - 1) \in 1 .. Len(q) - i
      BY <1>0, <2>0, <2>2
    <3>2. (a \o b)[j] = b[j - (i - 1)]
      BY <1>0, <1>2, <1>3, <1>4, <2>0, <2>2
    <3> QED
      BY <1>3, <2>2, <3>1, <3>2
  <2> QED
    BY <2>0, <2>1, <2>2
<1>6. Len(a \o b) = Len(q) - 1
  BY <1>0, <1>2, <1>3, <1>4
<1>7. Drop(q, i) = a \o b
  BY <1>1 DEF a, b
<1> QED
  BY <1>4, <1>5, <1>6, <1>7

\* A queue without a call is a queue.
LEMMA WithoutType ==
  ASSUME NEW q \in Seq(Calls), NEW c
  PROVE  Without(q, c) \in Seq(Calls)
<1>1. CASE \E i \in 1 .. Len(q) : q[i] = c
  <2> DEFINE i == CHOOSE i \in 1 .. Len(q) : q[i] = c
  <2>1. i \in 1 .. Len(q)
    BY <1>1
  <2>2. Drop(q, i) \in Seq(Calls)
    BY <2>1, DropType
  <2> QED
    BY <1>1, <2>2 DEF Without
<1> QED
  BY <1>1 DEF Without

\* A discarded call has no record, no place among the retained and no request ID.
LEMMA DiscardEffect ==
  ASSUME NEW s \in TableType, NEW c \in Calls
  PROVE  LET u == Discard(s, c) IN
         /\ u \in TableType
         /\ SameCalls(s, u) /\ SameQueues(s, u) /\ SameBusy(s, u)
         /\ SameWaits(s, u)
         /\ u.rec = [s.rec EXCEPT ![c] = NoRecord]
         /\ u.retained = Without(s.retained, c) /\ u.others = s.others
<1>1. Without(s.retained, c) \in Seq(Calls)
  BY WithoutType DEF TableType
<1>2. NoRecord \in RecordType
  BY DEF NoRecord, RecordType, Phases, Outcomes
<1>3. [s.rec EXCEPT ![c] = NoRecord] \in [Calls -> RecordType]
  BY <1>2 DEF TableType
<1>4. Less(s.tableEntries, 1) \in Nat
  BY LessNat DEF TableType
<1> QED
  BY <1>1, <1>3, <1>4 DEF Discard, TableType, SameCalls, SameQueues, SameBusy, SameWaits

\* Changing one workspace's count for one class leaves the other counts.
LEMMA BusyType ==
  ASSUME NEW b \in [Workspaces -> [Classes -> Nat]], NEW w \in Workspaces,
         NEW k \in Classes, NEW n \in Nat
  PROVE  /\ [b EXCEPT ![w][k] = n] \in [Workspaces -> [Classes -> Nat]]
         /\ [b EXCEPT ![w][k] = n][w][k] = n
         /\ \A v \in Workspaces, l \in Classes :
              <<v, l>> # <<w, k>> => [b EXCEPT ![w][k] = n][v][l] = b[v][l]
  OBVIOUS

\* Starting or ending an operation changes its class's count on its workspace by one.
LEMMA ChangeBusyEffect ==
  ASSUME NEW s \in TableType, NEW c \in Calls, NEW d \in {1, -1}
  PROVE  LET u == ChangeBusy(s, c, d)
             w == s.req[c].ws
             k == s.req[c].class
         IN
         /\ u \in TableType
         /\ SameCalls(s, u) /\ SameQueues(s, u) /\ SameWaits(s, u)
         /\ u.rec = s.rec /\ u.retained = s.retained /\ u.others = s.others
         /\ u.directRunning = s.directRunning
         /\ u.busy[w][k] = IF d = 1 THEN s.busy[w][k] + 1 ELSE Less(s.busy[w][k], 1)
         /\ \A v \in Workspaces, l \in Classes :
              <<v, l>> # <<w, k>> => u.busy[v][l] = s.busy[v][l]
<1> DEFINE w == s.req[c].ws
           k == s.req[c].class
           n == IF d = 1 THEN s.busy[w][k] + 1 ELSE Less(s.busy[w][k], 1)
           m == IF d = 1 THEN s.running + 1 ELSE Less(s.running, 1)
           b == [s.busy EXCEPT ![w][k] = n]
           u == [s EXCEPT !.running = m, !.busy = b]
<1>1. w \in Workspaces /\ k \in Classes
  BY AskType
<1>2. s.busy \in [Workspaces -> [Classes -> Nat]] /\ s.running \in Nat
  BY DEF TableType
<1>3. n \in Nat /\ m \in Nat
  <2>1. s.busy[w][k] \in Nat
    BY <1>1, <1>2
  <2>2. Less(s.busy[w][k], 1) \in Nat /\ Less(s.running, 1) \in Nat
    BY <1>2, <2>1, LessNat
  <2> QED
    BY <1>2, <2>1, <2>2
<1>4. ChangeBusy(s, c, d) = u
  BY <1>1, <1>2 DEF ChangeBusy, TableType
<1> HIDE DEF w, k, n, m
<1>5. /\ b \in [Workspaces -> [Classes -> Nat]]
      /\ b[w][k] = n
      /\ \A v \in Workspaces, l \in Classes :
              <<v, l>> # <<w, k>> => b[v][l] = s.busy[v][l]
  BY <1>1, <1>2, <1>3, BusyType
<1> HIDE DEF b
<1>6. /\ u \in TableType
      /\ SameCalls(s, u) /\ SameQueues(s, u) /\ SameWaits(s, u)
      /\ u.rec = s.rec /\ u.retained = s.retained /\ u.others = s.others
      /\ u.directRunning = s.directRunning /\ u.busy = b
  BY <1>3, <1>5 DEF TableType, SameCalls, SameQueues, SameWaits
<1> QED
  BY <1>4, <1>5, <1>6 DEF w, k, n

\* The calls of a run are finitely many,
LEMMA CallsFinite == IsFiniteSet(Calls)
  BY FS_Interval, LimitsAssumption DEF Calls

\* so any set of them has a cardinality.
LEMMA CountNat ==
  ASSUME NEW S, S \subseteq Calls
  PROVE  IsFiniteSet(S) /\ Cardinality(S) \in Nat
  BY CallsFinite, FS_Subset, FS_CardinalityType

\* What a waiting request is told at a settlement is a reply.
LEMMA WaiterReplyType ==
  ASSUME NEW s \in TableType, NEW w \in Calls, NEW c \in Calls,
         NEW outcome \in Outcomes, Asks(s.req[w])
  PROVE  WaiterReply(s, w, c, outcome) \in ReplyType
<1>1. outcome \in Says /\ "cleanup" \in Says
  BY DEF Says
<1>2. /\ Reply(w, "cleanup") \in ReplyType
      /\ \A v \in Views : ViewReply(w, c, v, outcome) \in ReplyType
  BY <1>1 DEF Reply, ViewReply, ReplyType, NoCall, Views
<1>3. "Result" \in Views /\ "Response" \in Views
  BY DEF Views
<1>4. CASE Control(s.req[w])
  BY <1>2, <1>4 DEF WaiterReply, Control
<1>5. CASE ~Control(s.req[w]) /\ s.req[w].type = "Result"
  BY <1>2, <1>3, <1>5 DEF WaiterReply
<1>6. CASE ~Control(s.req[w]) /\ s.req[w].type = "Response"
  BY <1>2, <1>3, <1>6 DEF WaiterReply
<1> QED
  BY <1>4, <1>5, <1>6 DEF Asks

\* What the classes count once a running operation is settled.
Freed(s, u, c) ==
  LET w == s.req[c].ws
      k == s.req[c].class
  IN  IF Phase(s, c) = "Running" /\ IsOperation(s.req[c])
      THEN /\ u.busy[w][k] = Less(s.busy[w][k], 1)
           /\ \A v \in Workspaces, l \in Classes :
                <<v, l>> # <<w, k>> => u.busy[v][l] = s.busy[v][l]
      ELSE u.busy = s.busy /\ u.running = s.running

\* What a settlement does to a table: the record is terminal, its waiters are answered
\* and forgotten, its class's count is given back, and all else stays.
LEMMA SettleEffect ==
  ASSUME NEW s \in TableType, NEW c \in Calls, NEW outcome \in Outcomes,
         ~Settled(s, c),
         \A w \in s.rec[c].waiters : Asks(s.req[w])
  PROVE  LET u == Settle(s, c, outcome)
             asking == s.rec[c].waiters
         IN
         /\ u \in TableType
         /\ SameCalls(s, u) /\ SameQueues(s, u) /\ SameWaits(s, u)
         /\ u.directRunning = s.directRunning
         /\ u.rec = [s.rec EXCEPT ![c] = IF Keeps(s, c)
                       THEN TerminalRecord(s.rec[c], outcome) ELSE NoRecord]
         /\ u.retained = IF Keeps(s, c) THEN Append(s.retained, c)
                         ELSE Without(s.retained, c)
         /\ u.others = IF Keeps(s, c) THEN s.others \ asking
                       ELSE (s.others \ asking) \ {c}
         /\ Freed(s, u, c)
<1> DEFINE r == s.rec[c]
           cancels == {w \in r.waiters : Control(s.req[w])}
           told == {WaiterReply(s, w, c, outcome) : w \in r.waiters}
           ids == FreeIds(s, c)
           lessC == Less(s.controls, Cardinality(cancels))
           lessO == Less(s.outstanding, Cardinality(r.waiters \ cancels))
           done == TerminalRecord(r, outcome)
           settled ==
             [s EXCEPT !.rec[c] = done,
                       !.complete = @ \cup {c},
                       !.out = @ \cup told,
                       !.others = @ \ r.waiters,
                       !.controls = lessC,
                       !.outstanding = lessO,
                       !.requests = ids]
           freed == IF r.phase = "Running" /\ IsOperation(s.req[c])
                    THEN ChangeBusy(settled, c, -1) ELSE settled
<1>1. r \in RecordType /\ r.waiters \subseteq Calls
  BY DEF TableType, RecordType
<1>2. done \in RecordType
  BY <1>1 DEF TerminalRecord, RecordType, Phases
<1>3. told \subseteq ReplyType
  BY <1>1, WaiterReplyType
<1>4. lessC \in Nat /\ lessO \in Nat
  <2>1. Cardinality(cancels) \in Nat /\ Cardinality(r.waiters \ cancels) \in Nat
    BY <1>1, CountNat
  <2>2. s.controls \in Nat /\ s.outstanding \in Nat
    BY DEF TableType
  <2> QED
    BY <2>1, <2>2, LessNat
<1>5. ids \in [RequestIds -> Calls \cup {NoCall}]
  BY DEF FreeIds, TableType
<1>6. /\ Settle(s, c, outcome) = IF Keeps(s, c)
           THEN [freed EXCEPT !.retained = Append(@, c)]
           ELSE Discard(Answer(freed, c, outcome), c)
  BY DEF Settle
<1> HIDE DEF told, ids, lessC, lessO, done
<1>7. [s.rec EXCEPT ![c] = done] \in [Calls -> RecordType]
  BY <1>2 DEF TableType
<1>8. /\ settled \in TableType
      /\ SameCalls(s, settled) /\ SameQueues(s, settled)
      /\ SameWaits(s, settled) /\ SameBusy(s, settled)
      /\ settled.rec = [s.rec EXCEPT ![c] = done]
      /\ settled.others = s.others \ r.waiters
      /\ settled.retained = s.retained
  BY ZenonT(60), <1>1, <1>3, <1>4, <1>5, <1>7 DEF TableType, SameCalls, SameQueues,
     SameWaits, SameBusy
<1> HIDE DEF settled
<1>9. /\ freed \in TableType
      /\ SameCalls(s, freed) /\ SameQueues(s, freed)
      /\ SameWaits(s, freed) /\ freed.directRunning = s.directRunning
      /\ freed.rec = [s.rec EXCEPT ![c] = done]
      /\ freed.others = s.others \ r.waiters
      /\ freed.retained = s.retained
      /\ Freed(s, freed, c)
  <2>1. settled.req = s.req /\ settled.busy = s.busy
    BY <1>8 DEF SameCalls, SameBusy
  <2>2. CASE r.phase = "Running" /\ IsOperation(s.req[c])
    <3>1. freed = ChangeBusy(settled, c, -1)
      BY <2>2
    <3> HIDE DEF freed
    <3>0. -1 \in {1, -1} /\ ~(-1 = 1) /\ settled \in TableType
      BY <1>8
    <3>a. LET w == settled.req[c].ws
              k == settled.req[c].class
          IN
          /\ freed \in TableType
          /\ SameCalls(settled, freed) /\ SameQueues(settled, freed)
          /\ SameWaits(settled, freed)
          /\ freed.rec = settled.rec /\ freed.retained = settled.retained
          /\ freed.others = settled.others
          /\ freed.directRunning = settled.directRunning
          /\ freed.busy[w][k] = IF -1 = 1 THEN settled.busy[w][k] + 1
                                ELSE Less(settled.busy[w][k], 1)
          /\ \A v \in Workspaces, l \in Classes :
               <<v, l>> # <<w, k>> => freed.busy[v][l] = settled.busy[v][l]
      BY <3>0, <3>1, ChangeBusyEffect
    <3>2. LET w == s.req[c].ws
              k == s.req[c].class
          IN
          /\ freed \in TableType
          /\ SameCalls(settled, freed) /\ SameQueues(settled, freed)
          /\ SameWaits(settled, freed)
          /\ freed.rec = settled.rec /\ freed.retained = settled.retained
          /\ freed.others = settled.others
          /\ freed.directRunning = settled.directRunning
          /\ freed.busy[w][k] = Less(s.busy[w][k], 1)
          /\ \A v \in Workspaces, l \in Classes :
               <<v, l>> # <<w, k>> => freed.busy[v][l] = s.busy[v][l]
      BY <2>1, <3>0, <3>a
    <3>3. Freed(s, freed, c)
      BY <2>2, <3>2 DEF Freed, Phase
    <3> QED
      BY <1>8, <3>2, <3>3 DEF SameCalls, SameQueues, SameWaits, SameBusy
  <2>3. CASE ~(r.phase = "Running" /\ IsOperation(s.req[c]))
    <3>1. freed = settled
      BY <2>3
    <3> QED
      BY <1>8, <2>3, <3>1 DEF SameBusy, Freed, Phase
  <2> QED
    BY <2>2, <2>3
<1> HIDE DEF freed
<1> DEFINE u == Settle(s, c, outcome)
<1>10. CASE Keeps(s, c)
  <2> DEFINE k == [freed EXCEPT !.retained = Append(@, c)]
  <2>1. u = k
    BY <1>6, <1>10
  <2>2. Append(freed.retained, c) \in Seq(Calls)
    BY <1>9 DEF TableType
  <2>3. /\ k \in TableType /\ SameCalls(freed, k) /\ SameQueues(freed, k)
        /\ SameWaits(freed, k) /\ SameBusy(freed, k) /\ k.rec = freed.rec
        /\ k.others = freed.others /\ k.retained = Append(freed.retained, c)
    BY <1>9, <2>2 DEF TableType, SameCalls, SameQueues, SameWaits, SameBusy
  <2> HIDE DEF k, u
  <2> QED
    BY <1>9, <1>10, <2>1, <2>3 DEF SameCalls, SameQueues, SameWaits, SameBusy,
       Freed, done, r, u
<1>11. CASE ~Keeps(s, c)
  <2> DEFINE a == Answer(freed, c, outcome)
             k == Discard(a, c)
  <2>1. u = k
    BY <1>6, <1>11
  <2>2. outcome \in Says
    BY DEF Says
  <2>3. /\ a \in TableType /\ SameCalls(freed, a) /\ SameQueues(freed, a)
        /\ SameWaits(freed, a) /\ SameBusy(freed, a) /\ a.rec = freed.rec
        /\ a.others = freed.others \ {c} /\ a.retained = freed.retained
    BY <1>9, <2>2, AnswerEffect
  <2> HIDE DEF a
  <2>4. /\ k \in TableType /\ SameCalls(a, k) /\ SameQueues(a, k)
        /\ SameWaits(a, k) /\ SameBusy(a, k)
        /\ k.rec = [a.rec EXCEPT ![c] = NoRecord]
        /\ k.others = a.others /\ k.retained = Without(a.retained, c)
    BY <2>3, DiscardEffect
  <2>5. k.rec = [s.rec EXCEPT ![c] = NoRecord]
    <3>1. s.rec \in [Calls -> RecordType]
      BY DEF TableType
    <3>2. [[s.rec EXCEPT ![c] = done] EXCEPT ![c] = NoRecord]
            = [s.rec EXCEPT ![c] = NoRecord]
      BY <3>1
    <3> QED
      BY <1>9, <2>3, <2>4, <3>2
  <2> HIDE DEF k, u
  <2> QED
    BY <1>9, <1>11, <2>1, <2>3, <2>4, <2>5 DEF SameCalls, SameQueues,
       SameWaits, SameBusy, Freed, r, u
<1> QED
  BY <1>10, <1>11
\* The two tables have the same records, but for the views marked delivered.
SameRecords(s, u) ==
  \A c \in Calls :
    /\ u.rec[c].phase = s.rec[c].phase /\ u.rec[c].gate = s.rec[c].gate
    /\ u.rec[c].resolved = s.rec[c].resolved
    /\ u.rec[c].outcome = s.rec[c].outcome
    /\ u.rec[c].waiters = s.rec[c].waiters

\* A table whose records, queues and counts stay keeps its invariant, whatever happens
\* to its lanes' counters and to its batch.
LEMMA QuietKeeps ==
  ASSUME NEW s \in TableType, NEW u \in TableType, NEW x, TableInv(s, x),
         SameRecords(s, u), SameQueues(s, u),
         u.high = s.high, u.req = s.req,
         u.busy = s.busy, u.retained = s.retained,
         \A c \in u.others :
           \/ c \in u.held \cup u.closers
           \/ c \in s.others /\ c \notin s.held \cup s.closers
  PROVE  TableInv(u, x)
<1>0. /\ s.queue \in Seq(Calls) /\ s.directQueue \in Seq(Calls)
      /\ s.pending \in Seq(Calls) /\ s.retained \in Seq(Calls)
  BY DEF TableType
<1>1. RecordInv(u)
  BY DEF TableInv, RecordInv, SameRecords
<1>2. LinesInv(u)
  <2>1. /\ \A i \in 1 .. Len(s.queue) : s.queue[i] \in Calls
        /\ \A i \in 1 .. Len(s.retained) : s.retained[i] \in Calls
    BY <1>0
  <2>2. \A c \in Calls : Phase(u, c) = Phase(s, c)
    BY DEF SameRecords, Phase
  <2> QED
    BY <2>1, <2>2 DEF TableInv, LinesInv, SameQueues
<1>3. PlacedInv(u, x)
  BY <1>0 DEF TableInv, PlacedInv, SameRecords, SameQueues, Phase
<1>4. BusyInv(u)
  <2>1. ASSUME NEW w, NEW k PROVE ClassOps(u, w, k) = ClassOps(s, w, k)
    BY DEF ClassOps, SameRecords, Phase
  <2> QED
    BY <2>1 DEF TableInv, BusyInv
<1>5. WaitInv(u)
  BY DEF TableInv, WaitInv, SameRecords
<1> QED
  BY <1>1, <1>2, <1>3, <1>4, <1>5 DEF TableInv

\* The end of a longer queue.
LEMMA AppendFacts ==
  ASSUME NEW q \in Seq(Calls), NEW c \in Calls
  PROVE  /\ Append(q, c) \in Seq(Calls) /\ Len(Append(q, c)) = Len(q) + 1
         /\ Append(q, c)[Len(q) + 1] = c
         /\ \A i \in 1 .. Len(q) : Append(q, c)[i] = q[i]
         /\ \A i \in 1 .. Len(q) + 1 : i \in 1 .. Len(q) \/ i = Len(q) + 1
  OBVIOUS

\* What stays of a line without one of its calls.
LEMMA WithoutFacts ==
  ASSUME NEW q \in Seq(Calls), NEW c \in Calls
  PROVE  LET p == Without(q, c) IN
         /\ p \in Seq(Calls)
         /\ \A j \in 1 .. Len(p) : InSeq(p[j], q)
         /\ \A d \in Calls \ {c} : InSeq(d, q) => InSeq(d, p)
         /\ (\A i, j \in 1 .. Len(q) : i < j => q[i] < q[j])
            => \A i, j \in 1 .. Len(p) : i < j => p[i] < p[j]
         /\ (\A i, j \in 1 .. Len(q) : i < j => q[i] # q[j])
            => /\ ~InSeq(c, p)
               /\ \A i, j \in 1 .. Len(p) : i < j => p[i] # p[j]
<1>1. CASE \E i \in 1 .. Len(q) : q[i] = c
  <2> DEFINE n == CHOOSE i \in 1 .. Len(q) : q[i] = c
             p == Drop(q, n)
  <2>1. n \in 1 .. Len(q) /\ q[n] = c
    BY <1>1
  <2>2. Without(q, c) = p
    BY <1>1 DEF Without
  <2> HIDE DEF n
  <2>3. /\ p \in Seq(Calls) /\ Len(p) = Len(q) - 1
        /\ \A j \in 1 .. Len(q) - 1 : p[j] = IF j < n THEN q[j] ELSE q[j + 1]
        /\ Len(q) \in Nat
    BY <2>1, DropType
  <2> HIDE DEF p
  <2>4. \A j \in 1 .. Len(p) : InSeq(p[j], q)
    BY <2>1, <2>3 DEF InSeq
  <2>5. ASSUME NEW d \in Calls \ {c}, InSeq(d, q) PROVE InSeq(d, p)
    <3>1. PICK i \in 1 .. Len(q) : q[i] = d
      BY <2>5 DEF InSeq
    <3>2. CASE i < n
      <4>1. i \in 1 .. Len(p) /\ p[i] = d
        BY <2>1, <2>3, <3>1, <3>2
      <4> QED
        BY <4>1 DEF InSeq
    <3>3. CASE ~(i < n)
      <4>1. i > n
        BY <2>1, <2>3, <3>1, <3>3
      <4>2. i - 1 \in 1 .. Len(p) /\ ~(i - 1 < n) /\ (i - 1) + 1 = i
        BY <2>1, <2>3, <4>1
      <4>3. p[i - 1] = d
        BY <2>3, <3>1, <4>2
      <4> QED
        BY <4>2, <4>3 DEF InSeq
    <3> QED
      BY <3>2, <3>3
  <2>6. ASSUME \A i, j \in 1 .. Len(q) : i < j => q[i] < q[j],
               NEW i \in 1 .. Len(p), NEW j \in 1 .. Len(p), i < j
        PROVE  p[i] < p[j]
    BY <2>1, <2>3, <2>6
  <2>7. ASSUME \A i, j \in 1 .. Len(q) : i < j => q[i] # q[j] PROVE ~InSeq(c, p)
    <3> SUFFICES ASSUME NEW i \in 1 .. Len(p), p[i] = c PROVE FALSE
      BY DEF InSeq
    <3>1. CASE i < n
      BY <2>1, <2>3, <2>7, <3>1
    <3>2. CASE ~(i < n)
      BY <2>1, <2>3, <2>7, <3>2
    <3> QED
      BY <3>1, <3>2
  <2>8. ASSUME \A i, j \in 1 .. Len(q) : i < j => q[i] # q[j],
               NEW i \in 1 .. Len(p), NEW j \in 1 .. Len(p), i < j
        PROVE  p[i] # p[j]
    BY <2>1, <2>3, <2>8
  <2> QED
    BY <2>2, <2>3, <2>4, <2>5, <2>6, <2>7, <2>8
<1>2. CASE ~(\E i \in 1 .. Len(q) : q[i] = c)
  <2>1. Without(q, c) = q
    BY <1>2 DEF Without
  <2> QED
    BY <1>2, <2>1 DEF InSeq
<1> QED
  BY <1>1, <1>2

\* Settling keeps the table's invariant, and puts the call's record away.
LEMMA SettleKeeps ==
  ASSUME NEW s \in TableType, NEW c \in Calls,
         NEW outcome \in Outcomes \ {"None"}, TableInv(s, c)
  PROVE  /\ Settle(s, c, outcome) \in TableType
         /\ TableInv(Settle(s, c, outcome), NoCall)
<1> DEFINE u == Settle(s, c, outcome)
<1>1. CASE Settled(s, c)
  <2>1. u = s
    BY <1>1 DEF Settle
  <2>2. Phase(s, c) \in {"None", "Terminal"}
    BY <1>1 DEF Settled
  <2>3. PlacedInv(s, NoCall)
    BY <2>2 DEF TableInv, PlacedInv
  <2> QED
    BY <2>1, <2>3 DEF TableInv
<1>2. CASE ~Settled(s, c)
  <2>1. \A w \in s.rec[c].waiters : Asks(s.req[w])
    BY DEF TableInv, RecordInv
  <2>2. outcome \in Outcomes
    OBVIOUS
  <2>3. LET asking == s.rec[c].waiters IN
        /\ u \in TableType
        /\ SameCalls(s, u) /\ SameQueues(s, u) /\ SameWaits(s, u)
        /\ u.directRunning = s.directRunning
        /\ u.rec = [s.rec EXCEPT ![c] = IF Keeps(s, c)
                      THEN TerminalRecord(s.rec[c], outcome) ELSE NoRecord]
        /\ u.retained = IF Keeps(s, c) THEN Append(s.retained, c)
                        ELSE Without(s.retained, c)
        /\ u.others = IF Keeps(s, c) THEN s.others \ asking
                      ELSE (s.others \ asking) \ {c}
        /\ Freed(s, u, c)
    BY <1>2, <2>1, <2>2, SettleEffect
  <2> HIDE DEF u
  <2>4. /\ s.rec \in [Calls -> RecordType] /\ u.rec \in [Calls -> RecordType]
        /\ s.queue \in Seq(Calls) /\ s.retained \in Seq(Calls)
        /\ s.busy \in [Workspaces -> [Classes -> Nat]]
    BY <2>3 DEF TableType
  <2>5. Phase(s, c) \notin {"None", "Terminal"}
    BY <1>2 DEF Settled
  <2>6. /\ \A d \in Calls \ {c} : u.rec[d] = s.rec[d]
        /\ u.rec[c] = IF Keeps(s, c) THEN TerminalRecord(s.rec[c], outcome)
                      ELSE NoRecord
    BY <2>3, <2>4
  <2>7. /\ u.rec[c].phase \in {"None", "Terminal"} /\ ~u.rec[c].gate
        /\ u.rec[c].waiters = {}
        /\ u.rec[c].phase = "Terminal" => u.rec[c].outcome = outcome
        /\ u.rec[c].phase = "None" => u.rec[c].outcome = "None"
        /\ Keeps(s, c) => u.rec[c].phase = "Terminal"
    BY <2>4, <2>6 DEF TerminalRecord, NoRecord, RecordType
  <2>8. u.high = s.high /\ u.req = s.req /\ u.revoked = s.revoked
    BY <2>3 DEF SameCalls
  <2>9. RecordInv(u)
    <3> SUFFICES ASSUME NEW d \in Calls
                 PROVE  RecordInv(u)!(d)
      BY DEF RecordInv
    <3>1. CASE d = c
      BY <2>5, <2>7, <2>8, <3>1 DEF TableInv, RecordInv, Phase
    <3>2. CASE d # c
      BY <2>6, <2>8, <3>2 DEF TableInv, RecordInv
    <3> QED
      BY <3>1, <3>2
  <2>10. /\ \A d \in Calls \ {c} : Phase(u, d) = Phase(s, d)
         /\ Phase(u, c) \in {"None", "Terminal"}
    BY <2>6, <2>7 DEF Phase
  <2>11. /\ \A i \in 1 .. Len(u.retained) : Phase(u, u.retained[i]) = "Terminal"
         /\ \A i, j \in 1 .. Len(u.retained) :
              i < j => u.retained[i] # u.retained[j]
    <3>1. \A i \in 1 .. Len(s.retained) : s.retained[i] \in Calls \ {c}
      BY <2>4, <2>5 DEF TableInv, LinesInv
    <3>2. \A i \in 1 .. Len(s.retained) : Phase(u, s.retained[i]) = "Terminal"
      BY <2>10, <3>1 DEF TableInv, LinesInv
    <3>3. CASE Keeps(s, c)
      <4>1. u.retained = Append(s.retained, c)
        BY <2>3, <3>3
      <4>2. Phase(u, c) = "Terminal"
        BY <2>7, <3>3 DEF Phase
      <4>3. /\ Len(u.retained) = Len(s.retained) + 1
            /\ u.retained[Len(s.retained) + 1] = c
            /\ \A i \in 1 .. Len(s.retained) : u.retained[i] = s.retained[i]
            /\ Len(s.retained) \in Nat
        BY <2>4, <4>1, AppendFacts
      <4>4. \A i \in 1 .. Len(u.retained) : Phase(u, u.retained[i]) = "Terminal"
        BY <3>2, <4>2, <4>3
      <4>5. ASSUME NEW i \in 1 .. Len(u.retained), NEW j \in 1 .. Len(u.retained), i < j
            PROVE  u.retained[i] # u.retained[j]
        <5>1. i \in 1 .. Len(s.retained)
          BY <4>3, <4>5
        <5>2. CASE j = Len(s.retained) + 1
          BY <3>1, <4>3, <5>1, <5>2
        <5>3. CASE j \in 1 .. Len(s.retained)
          BY <4>3, <4>5, <5>1, <5>3 DEF TableInv, LinesInv
        <5> QED
          BY <4>3, <5>2, <5>3
      <4> QED
        BY <4>4, <4>5
    <3>4. CASE ~Keeps(s, c)
      <4>1. Without(s.retained, c) = s.retained
        BY <3>1 DEF Without
      <4> QED
        BY <2>3, <3>2, <3>4, <4>1 DEF TableInv, LinesInv
    <3> QED
      BY <3>3, <3>4
  <2>12. LinesInv(u)
    <3>1. \A i \in 1 .. Len(s.queue) : s.queue[i] \in Calls
      BY <2>4
    <3>2. \A i \in 1 .. Len(s.queue) : Phase(u, s.queue[i]) \in {"None", "Queued", "Terminal"}
      BY <2>10, <3>1 DEF TableInv, LinesInv
    <3> QED
      BY <2>3, <2>8, <2>11, <3>2 DEF TableInv, LinesInv, SameQueues
  <2>13. PlacedInv(u, NoCall)
    BY <2>3, <2>10 DEF TableInv, PlacedInv, SameQueues
  <2>14. BusyInv(u)
    <3> SUFFICES ASSUME NEW w \in Workspaces, NEW k \in Classes
                 PROVE  u.busy[w][k] >= Cardinality(ClassOps(u, w, k))
      BY DEF BusyInv
    <3>1. /\ IsFiniteSet(ClassOps(s, w, k))
          /\ Cardinality(ClassOps(s, w, k)) \in Nat
      BY CountNat DEF ClassOps
    <3>2. s.busy[w][k] \in Nat /\ s.busy[w][k] >= Cardinality(ClassOps(s, w, k))
      BY <2>4 DEF TableInv, BusyInv
    <3>3. ClassOps(u, w, k) = ClassOps(s, w, k) \ {c}
      BY <2>8, <2>10 DEF ClassOps
    <3>4. CASE c \in ClassOps(s, w, k)
      <4>1. Cardinality(ClassOps(u, w, k)) = Cardinality(ClassOps(s, w, k)) - 1
        BY ZenonT(60), <3>1, <3>3, <3>4, FS_RemoveElement
      <4>2. u.busy[w][k] = Less(s.busy[w][k], 1)
        BY <2>3, <3>4 DEF Freed, ClassOps
      <4> QED
        BY <3>1, <3>2, <4>1, <4>2 DEF Less
    <3>5. CASE c \notin ClassOps(s, w, k)
      <4>1. ClassOps(u, w, k) = ClassOps(s, w, k)
        BY <3>3, <3>5
      <4>2. u.busy[w][k] = s.busy[w][k]
        BY <2>3, <3>5 DEF Freed, ClassOps
      <4> QED
        BY <3>2, <4>1, <4>2
    <3> QED
      BY <3>4, <3>5
  <2>15. WaitInv(u)
    <3> SUFFICES ASSUME NEW e \in u.others
                 PROVE  \/ e \in u.held \cup u.closers
                        \/ \E d \in Calls : e \in u.rec[d].waiters
      BY DEF WaitInv
    <3>1. e \in s.others /\ e \notin s.rec[c].waiters
      BY <2>3
    <3>2. CASE e \in s.held \cup s.closers
      BY <2>3, <3>2 DEF SameWaits
    <3>3. CASE \E d \in Calls : e \in s.rec[d].waiters
      BY <2>6, <3>1, <3>3
    <3> QED
      BY <3>1, <3>2, <3>3 DEF TableInv, WaitInv
  <2> QED
    BY <2>3, <2>9, <2>12, <2>13, <2>14, <2>15 DEF TableInv, u
<1> QED
  BY <1>1, <1>2

\* What settling a call leaves alone.
LEMMA SettleLeaves ==
  ASSUME NEW s \in TableType, NEW c \in Calls,
         NEW outcome \in Outcomes \ {"None"}, TableInv(s, c)
  PROVE  LET u == Settle(s, c, outcome) IN
         /\ u \in TableType /\ TableInv(u, NoCall)
         /\ SameCalls(s, u) /\ SameQueues(s, u) /\ SameWaits(s, u)
         /\ u.directRunning = s.directRunning
         /\ \A d \in Calls \ {c} : u.rec[d] = s.rec[d]
         /\ Phase(u, c) \in {"None", "Terminal"}
         /\ Settled(s, c) => u = s
         /\ ~Settled(s, c) => Freed(s, u, c)
<1> DEFINE u == Settle(s, c, outcome)
<1>1. u \in TableType /\ TableInv(u, NoCall)
  BY SettleKeeps
<1>2. CASE Settled(s, c)
  <2>1. u = s
    BY <1>2 DEF Settle
  <2> HIDE DEF u
  <2> QED
    BY <1>1, <1>2, <2>1 DEF u, Settled, SameCalls, SameQueues, SameWaits
<1>3. CASE ~Settled(s, c)
  <2>1. \A w \in s.rec[c].waiters : Asks(s.req[w])
    BY DEF TableInv, RecordInv
  <2>2. outcome \in Outcomes
    OBVIOUS
  <2>3. LET asking == s.rec[c].waiters IN
        /\ u \in TableType
        /\ SameCalls(s, u) /\ SameQueues(s, u) /\ SameWaits(s, u)
        /\ u.directRunning = s.directRunning
        /\ u.rec = [s.rec EXCEPT ![c] = IF Keeps(s, c)
                      THEN TerminalRecord(s.rec[c], outcome) ELSE NoRecord]
        /\ u.retained = IF Keeps(s, c) THEN Append(s.retained, c)
                        ELSE Without(s.retained, c)
        /\ u.others = IF Keeps(s, c) THEN s.others \ asking
                      ELSE (s.others \ asking) \ {c}
        /\ Freed(s, u, c)
    BY <1>3, <2>1, <2>2, SettleEffect
  <2> HIDE DEF u
  <2>4. s.rec \in [Calls -> RecordType] /\ s.rec[c] \in RecordType
    BY DEF TableType
  <2>5. /\ \A d \in Calls \ {c} : u.rec[d] = s.rec[d]
        /\ u.rec[c] = IF Keeps(s, c) THEN TerminalRecord(s.rec[c], outcome)
                      ELSE NoRecord
    BY <2>3, <2>4
  <2>6. Phase(u, c) \in {"None", "Terminal"}
    BY <2>4, <2>5 DEF Phase, TerminalRecord, NoRecord, RecordType
  <2> QED
    BY <1>1, <1>3, <2>3, <2>5, <2>6 DEF u
<1> QED
  BY <1>2, <1>3

\* Discarding a terminal record keeps the table's invariant.
LEMMA DiscardKeeps ==
  ASSUME NEW s \in TableType, NEW c \in Calls, NEW x, TableInv(s, x),
         Phase(s, c) \in {"None", "Terminal"}
  PROVE  TableInv(Discard(s, c), x)
<1> DEFINE u == Discard(s, c)
<1>1. /\ u \in TableType
      /\ SameCalls(s, u) /\ SameQueues(s, u) /\ SameBusy(s, u)
      /\ SameWaits(s, u)
      /\ u.rec = [s.rec EXCEPT ![c] = NoRecord]
      /\ u.retained = Without(s.retained, c) /\ u.others = s.others
  BY DiscardEffect
<1> HIDE DEF u
<1>2. /\ s.rec \in [Calls -> RecordType]
      /\ s.queue \in Seq(Calls) /\ s.retained \in Seq(Calls)
  BY DEF TableType
<1>3. /\ \A d \in Calls \ {c} : u.rec[d] = s.rec[d]
      /\ u.rec[c] = NoRecord
  BY <1>1, <1>2
<1>4. u.high = s.high /\ u.req = s.req /\ u.busy = s.busy
  BY <1>1 DEF SameCalls, SameBusy
<1>5. RecordInv(u)
  <2> SUFFICES ASSUME NEW d \in Calls PROVE RecordInv(u)!(d)
    BY DEF RecordInv
  <2>1. CASE d = c
    BY <1>3, <2>1 DEF NoRecord
  <2>2. CASE d # c
    BY <1>3, <1>4, <2>2 DEF TableInv, RecordInv
  <2> QED
    BY <2>1, <2>2
<1>6. /\ \A d \in Calls \ {c} : Phase(u, d) = Phase(s, d)
      /\ Phase(u, c) = "None"
  BY <1>3 DEF Phase, NoRecord
<1>7. LinesInv(u)
  <2>1. \A i \in 1 .. Len(s.queue) : s.queue[i] \in Calls
    BY <1>2
  <2>2. \A i \in 1 .. Len(s.queue) : Phase(u, s.queue[i]) \in {"None", "Queued", "Terminal"}
    BY <1>6, <2>1 DEF TableInv, LinesInv
  <2> DEFINE p == Without(s.retained, c)
  <2>3. /\ p \in Seq(Calls) /\ \A j \in 1 .. Len(p) : InSeq(p[j], s.retained)
        /\ ~InSeq(c, p)
        /\ \A i, j \in 1 .. Len(p) : i < j => p[i] # p[j]
    <3>1. \A i, j \in 1 .. Len(s.retained) : i < j => s.retained[i] # s.retained[j]
      BY DEF TableInv, LinesInv
    <3> QED
      BY <1>2, <3>1, WithoutFacts
  <2> HIDE DEF p
  <2>4. ASSUME NEW j \in 1 .. Len(p) PROVE Phase(u, p[j]) = "Terminal"
    <3>1. p[j] \in Calls \ {c}
      BY <2>3 DEF InSeq
    <3>2. PICK i \in 1 .. Len(s.retained) : s.retained[i] = p[j]
      BY <2>3 DEF InSeq
    <3>3. Phase(s, p[j]) = "Terminal"
      BY <3>2 DEF TableInv, LinesInv
    <3> QED
      BY <1>6, <3>1, <3>3
  <2>5. u.retained = p
    BY <1>1 DEF p
  <2> QED
    BY <1>1, <1>4, <2>2, <2>3, <2>4, <2>5 DEF TableInv, LinesInv, SameQueues
<1>8. PlacedInv(u, x)
  BY <1>1, <1>6 DEF TableInv, PlacedInv, SameQueues
<1>9. BusyInv(u)
  <2>1. ASSUME NEW w, NEW k PROVE ClassOps(u, w, k) = ClassOps(s, w, k)
    BY <1>4, <1>6 DEF ClassOps
  <2> QED
    BY <1>4, <2>1 DEF TableInv, BusyInv
<1>10. WaitInv(u)
  <2>1. s.rec[c].waiters = {}
    BY DEF TableInv, RecordInv, Phase
  <2> QED
    BY <1>1, <1>3, <2>1 DEF TableInv, WaitInv, SameWaits
<1> QED
  BY <1>5, <1>7, <1>8, <1>9, <1>10 DEF TableInv, u

\* A queue in order stays in order when a place is dropped, and loses that call only.
LEMMA DropFacts ==
  ASSUME NEW q \in Seq(Calls), NEW n \in 1 .. Len(q),
         \A i, j \in 1 .. Len(q) : i < j => q[i] < q[j]
  PROVE  LET p == Drop(q, n) IN
         /\ p \in Seq(Calls)
         /\ \A j \in 1 .. Len(p) : InSeq(p[j], q)
         /\ \A d \in Calls \ {q[n]} : InSeq(d, q) => InSeq(d, p)
         /\ \A i, j \in 1 .. Len(p) : i < j => p[i] < p[j]
         /\ ~InSeq(q[n], p)
<1> DEFINE c == q[n]
           p == Drop(q, n)
<1>0. c \in Calls /\ Len(q) \in Nat /\ \A i \in 1 .. Len(q) : q[i] \in Int
  BY LimitsAssumption DEF Calls
<1>1. Without(q, c) = p
  <2>1. \A i \in 1 .. Len(q) : q[i] = c => i = n
    <3> SUFFICES ASSUME NEW i \in 1 .. Len(q), q[i] = q[n], i # n PROVE FALSE
      OBVIOUS
    <3>1. CASE i < n
      BY <1>0, <3>1
    <3>2. CASE n < i
      BY <1>0, <3>2
    <3> QED
      BY <1>0, <3>1, <3>2
  <2>2. (CHOOSE i \in 1 .. Len(q) : q[i] = c) = n
    BY <2>1
  <2>3. \E i \in 1 .. Len(q) : q[i] = c
    OBVIOUS
  <2> QED
    BY <2>2, <2>3 DEF Without
<1>2. \A i, j \in 1 .. Len(q) : i < j => q[i] # q[j]
  BY <1>0
<1>3. /\ p \in Seq(Calls)
      /\ \A j \in 1 .. Len(p) : InSeq(p[j], q)
      /\ \A d \in Calls \ {c} : InSeq(d, q) => InSeq(d, p)
      /\ \A i, j \in 1 .. Len(p) : i < j => p[i] < p[j]
      /\ ~InSeq(c, p)
  <2> HIDE DEF p
  <2> QED
    BY <1>0, <1>1, <1>2, WithoutFacts
<1> QED
  BY <1>3

\* An entry leaves the queue; its record is on its way.
LEMMA UnqueuedKeeps ==
  ASSUME NEW s \in TableType, TableInv(s, NoCall), NEW i \in 1 .. Len(s.queue)
  PROVE  LET u == [s EXCEPT !.queue = Drop(@, i)] IN
         /\ u \in TableType /\ TableInv(u, s.queue[i])
         /\ u.rec = s.rec /\ u.others = s.others /\ u.retained = s.retained
         /\ u.queue = Drop(s.queue, i)
         /\ SameCalls(s, u) /\ SameBusy(s, u) /\ SameWaits(s, u)
         /\ u.directQueue = s.directQueue /\ u.pending = s.pending
         /\ s.queue[i] \in Calls /\ ~InSeq(s.queue[i], u.queue)
<1> DEFINE c == s.queue[i]
           p == Drop(s.queue, i)
           u == [s EXCEPT !.queue = p]
<1>1. s.queue \in Seq(Calls) /\ c \in Calls
  BY DEF TableType
<1>2. /\ p \in Seq(Calls)
      /\ \A j \in 1 .. Len(p) : InSeq(p[j], s.queue)
      /\ \A d \in Calls \ {c} : InSeq(d, s.queue) => InSeq(d, p)
      /\ \A k, j \in 1 .. Len(p) : k < j => p[k] < p[j]
      /\ ~InSeq(c, p)
  <2>1. \A k, j \in 1 .. Len(s.queue) : k < j => s.queue[k] < s.queue[j]
    BY DEF TableInv, LinesInv
  <2> HIDE DEF p
  <2> QED
    BY <1>1, <2>1, DropFacts DEF p
<1> HIDE DEF p
<1>3. /\ u \in TableType
      /\ u.rec = s.rec /\ u.others = s.others /\ u.retained = s.retained
      /\ u.queue = p /\ SameCalls(s, u) /\ SameBusy(s, u) /\ SameWaits(s, u)
      /\ u.directQueue = s.directQueue /\ u.pending = s.pending
  BY <1>2 DEF TableType, SameCalls, SameBusy, SameWaits
<1> HIDE DEF u
<1>4. u.high = s.high /\ u.req = s.req /\ u.busy = s.busy
  BY <1>3 DEF SameCalls, SameBusy
<1>5. RecordInv(u)
  BY <1>3, <1>4 DEF TableInv, RecordInv
<1>6. LinesInv(u)
  <2>1. ASSUME NEW j \in 1 .. Len(p)
        PROVE  /\ p[j] <= s.high /\ IsOperation(s.req[p[j]])
               /\ Phase(s, p[j]) \in {"None", "Queued", "Terminal"}
               /\ \A k \in 1 .. Len(s.pending) : p[j] < s.pending[k]
    <3>1. PICK k \in 1 .. Len(s.queue) : s.queue[k] = p[j]
      BY <1>2 DEF InSeq
    <3> QED
      BY <3>1 DEF TableInv, LinesInv
  <2>2. \A d \in Calls : Phase(u, d) = Phase(s, d)
    BY <1>3 DEF Phase
  <2>3. \A j \in 1 .. Len(s.retained) : Phase(u, s.retained[j]) = "Terminal"
    BY <1>3 DEF Phase, TableInv, LinesInv
  <2>4. \A j \in 1 .. Len(p) : Phase(u, p[j]) \in {"None", "Queued", "Terminal"}
    BY <1>3, <2>1 DEF Phase
  <2> QED
    BY <1>2, <1>3, <1>4, <2>1, <2>3, <2>4 DEF TableInv, LinesInv
<1>7. PlacedInv(u, c)
  BY <1>2, <1>3 DEF TableInv, PlacedInv, Phase, NoCall, Calls
<1>8. BusyInv(u)
  <2>1. ASSUME NEW w, NEW k PROVE ClassOps(u, w, k) = ClassOps(s, w, k)
    BY <1>3, <1>4 DEF ClassOps, Phase
  <2> QED
    BY <1>4, <2>1 DEF TableInv, BusyInv
<1>9. WaitInv(u)
  BY <1>3 DEF TableInv, WaitInv, SameWaits
<1> QED
  BY <1>1, <1>2, <1>3, <1>5, <1>6, <1>7, <1>8, <1>9 DEF TableInv, u, p, c

\* Taking a record makes it running and leaves the queues.
LEMMA TakeEffect ==
  ASSUME NEW s \in TableType, NEW c \in Calls
  PROVE  LET u == Take(s, c) IN
         /\ u \in TableType
         /\ SameCalls(s, u) /\ SameQueues(s, u) /\ SameWaits(s, u)
         /\ SameBusy(s, u)
         /\ u.retained = s.retained /\ u.others = s.others
         /\ \A d \in Calls \ {c} : u.rec[d] = s.rec[d]
         /\ u.rec[c].waiters = s.rec[c].waiters
         /\ u.rec[c].outcome = s.rec[c].outcome
         /\ u.rec[c].resolved = s.rec[c].resolved
         /\ u.rec[c].gate = (s.rec[c].gate /\ ~CanTake(s, c))
         /\ u.rec[c].phase = IF CanTake(s, c) THEN "Running" ELSE s.rec[c].phase
<1> DEFINE r == [s.rec[c] EXCEPT !.gate = FALSE, !.phase = "Running"]
           u == Take(s, c)
<1>1. s.rec \in [Calls -> RecordType] /\ s.rec[c] \in RecordType
  BY DEF TableType
<1>2. /\ r \in RecordType /\ r.waiters = s.rec[c].waiters
      /\ r.outcome = s.rec[c].outcome /\ r.resolved = s.rec[c].resolved
      /\ r.gate = FALSE /\ r.phase = "Running"
  BY <1>1 DEF RecordType, Phases
<1>3. CASE CanTake(s, c)
  <2>1. u = [s EXCEPT !.rec[c] = r]
    BY <1>3 DEF Take
  <2> HIDE DEF r, u
  <2>2. [s.rec EXCEPT ![c] = r] \in [Calls -> RecordType]
    BY <1>1, <1>2
  <2>3. /\ u \in TableType
        /\ SameCalls(s, u) /\ SameQueues(s, u) /\ SameWaits(s, u)
        /\ SameBusy(s, u)
        /\ u.retained = s.retained /\ u.others = s.others
        /\ u.rec = [s.rec EXCEPT ![c] = r]
    BY <2>1, <2>2 DEF TableType, SameCalls, SameQueues, SameWaits, SameBusy
  <2>4. u.rec[c] = r /\ \A d \in Calls \ {c} : u.rec[d] = s.rec[d]
    BY <1>1, <2>3
  <2> QED
    BY <1>2, <1>3, <2>3, <2>4 DEF u
<1>4. CASE ~CanTake(s, c)
  <2>1. u = s
    BY <1>4 DEF Take
  <2>2. s.rec[c].gate \in BOOLEAN
    BY <1>1 DEF RecordType
  <2> QED
    BY <1>4, <2>1, <2>2 DEF SameCalls, SameQueues, SameWaits, SameBusy
<1> QED
  BY <1>3, <1>4

\* A record that can be taken waits; one that waits in a line can be taken.
LEMMA CanTakeFacts ==
  ASSUME NEW s \in TableType, NEW c \in Calls, NEW x, TableInv(s, x)
  PROVE  CanTake(s, c) <=> Phase(s, c) \in {"Queued", "DirectWaiting"}
  BY DEF CanTake, TableInv, RecordInv, Phase

\* An operation that left the queue is counted, and its record is taken.
LEMMA StartKeeps ==
  ASSUME NEW s \in TableType, NEW c \in Calls, TableInv(s, c),
         ~InSeq(c, s.queue), IsOperation(s.req[c])
  PROVE  LET b == ChangeBusy(s, c, 1)
             u == Take(b, c)
         IN  /\ b \in TableType /\ u \in TableType /\ TableInv(u, NoCall)
             /\ SameCalls(s, u) /\ SameQueues(s, u) /\ SameWaits(s, u)
             /\ u.directRunning = s.directRunning
             /\ CanTake(b, c) <=> CanTake(s, c)
             /\ \A d \in Calls \ {c} : u.rec[d] = s.rec[d]
             /\ Phase(u, c) = IF CanTake(s, c) THEN "Running" ELSE Phase(s, c)
             /\ u.rec[c].outcome = s.rec[c].outcome
             /\ \A v \in Workspaces, l \in Classes : u.busy[v][l] >= s.busy[v][l]
             /\ \A v \in Workspaces, l \in Classes :
                  <<v, l>> # <<s.req[c].ws, s.req[c].class>> =>
                    u.busy[v][l] = s.busy[v][l]
             /\ u.busy[s.req[c].ws][s.req[c].class]
                  = s.busy[s.req[c].ws][s.req[c].class] + 1
<1> DEFINE b == ChangeBusy(s, c, 1)
           u == Take(b, c)
           w == s.req[c].ws
           k == s.req[c].class
<1>0. w \in Workspaces /\ k \in Classes /\ 1 \in {1, -1}
  BY AskType
<1>1. /\ b \in TableType
      /\ SameCalls(s, b) /\ SameQueues(s, b) /\ SameWaits(s, b)
      /\ b.rec = s.rec /\ b.retained = s.retained /\ b.others = s.others
      /\ b.directRunning = s.directRunning
      /\ b.busy[w][k] = IF 1 = 1 THEN s.busy[w][k] + 1 ELSE Less(s.busy[w][k], 1)
      /\ \A v \in Workspaces, l \in Classes :
           <<v, l>> # <<w, k>> => b.busy[v][l] = s.busy[v][l]
  BY <1>0, ChangeBusyEffect
<1> HIDE DEF b
<1>2. /\ u \in TableType
      /\ SameCalls(b, u) /\ SameQueues(b, u) /\ SameWaits(b, u)
      /\ SameBusy(b, u)
      /\ u.retained = b.retained /\ u.others = b.others
      /\ \A d \in Calls \ {c} : u.rec[d] = b.rec[d]
      /\ u.rec[c].waiters = b.rec[c].waiters
      /\ u.rec[c].outcome = b.rec[c].outcome
      /\ u.rec[c].resolved = b.rec[c].resolved
      /\ u.rec[c].gate = (b.rec[c].gate /\ ~CanTake(b, c))
      /\ u.rec[c].phase = IF CanTake(b, c) THEN "Running" ELSE b.rec[c].phase
  BY <1>1, TakeEffect
<1> HIDE DEF u
<1>3. /\ SameCalls(s, u) /\ SameQueues(s, u) /\ SameWaits(s, u)
      /\ u.directRunning = s.directRunning
      /\ u.retained = s.retained /\ u.others = s.others
      /\ u.high = s.high /\ u.req = s.req
  BY <1>1, <1>2 DEF SameCalls, SameQueues, SameWaits, SameBusy
<1>4. CanTake(b, c) <=> CanTake(s, c)
  BY <1>1 DEF CanTake
<1>5. /\ \A d \in Calls \ {c} : u.rec[d] = s.rec[d]
      /\ u.rec[c].waiters = s.rec[c].waiters
      /\ u.rec[c].outcome = s.rec[c].outcome
      /\ u.rec[c].resolved = s.rec[c].resolved
      /\ u.rec[c].gate = (s.rec[c].gate /\ ~CanTake(s, c))
      /\ u.rec[c].phase = IF CanTake(s, c) THEN "Running" ELSE s.rec[c].phase
  BY <1>1, <1>2, <1>4
<1>6. s.busy \in [Workspaces -> [Classes -> Nat]]
  BY DEF TableType
<1>7. /\ u.busy[w][k] = s.busy[w][k] + 1 /\ s.busy[w][k] \in Nat
      /\ \A v \in Workspaces, l \in Classes :
           <<v, l>> # <<w, k>> => u.busy[v][l] = s.busy[v][l]
      /\ \A v \in Workspaces, l \in Classes : s.busy[v][l] \in Nat
  BY <1>0, <1>1, <1>2, <1>6 DEF SameBusy
<1>8. CanTake(s, c) <=> Phase(s, c) = "Queued"
  BY CanTakeFacts DEF TableInv, RecordInv, Phase
<1>9. /\ \A d \in Calls \ {c} : Phase(u, d) = Phase(s, d)
      /\ Phase(u, c) = IF CanTake(s, c) THEN "Running" ELSE Phase(s, c)
  BY <1>5 DEF Phase
<1>10. RecordInv(u)
  <2> SUFFICES ASSUME NEW d \in Calls PROVE RecordInv(u)!(d)
    BY DEF RecordInv
  <2>1. CASE d = c /\ CanTake(s, c)
    BY <1>3, <1>5, <1>8, <2>1 DEF TableInv, RecordInv, Phase
  <2>2. CASE d = c /\ ~CanTake(s, c)
    BY ZenonT(60), <1>3, <1>5, <1>8, <2>2 DEF TableInv, RecordInv, Phase
  <2>3. CASE d # c
    BY <1>3, <1>5, <2>3 DEF TableInv, RecordInv
  <2> QED
    BY <2>1, <2>2, <2>3
<1>11. LinesInv(u)
  <2>0. s.queue \in Seq(Calls) /\ s.retained \in Seq(Calls)
    BY DEF TableType
  <2>1. \A i \in 1 .. Len(s.queue) : s.queue[i] \in Calls \ {c}
    BY <2>0 DEF InSeq
  <2>2. \A i \in 1 .. Len(s.queue) : Phase(u, s.queue[i]) = Phase(s, s.queue[i])
    BY <1>9, <2>1
  <2>3. \A i \in 1 .. Len(s.retained) : Phase(u, s.retained[i]) = Phase(s, s.retained[i])
    <3> SUFFICES ASSUME NEW i \in 1 .. Len(s.retained)
                 PROVE  Phase(u, s.retained[i]) = Phase(s, s.retained[i])
      OBVIOUS
    <3>1. s.retained[i] \in Calls /\ Phase(s, s.retained[i]) = "Terminal"
      BY <2>0 DEF TableInv, LinesInv
    <3> QED
      BY <1>8, <1>9, <3>1
  <2> QED
    BY <1>3, <2>2, <2>3 DEF TableInv, LinesInv, SameQueues
<1>12. PlacedInv(u, NoCall)
  <2> SUFFICES ASSUME NEW d \in Calls
               PROVE  /\ Phase(u, d) = "Queued" => InSeq(d, u.queue)
                      /\ Phase(u, d) = "DirectWaiting" => InSeq(d, u.directQueue)
    BY DEF PlacedInv
  <2>1. CASE d = c
    BY <1>8, <1>9, <2>1, CanTakeFacts
  <2>2. CASE d # c
    BY <1>3, <1>9, <2>2 DEF TableInv, PlacedInv, SameQueues
  <2> QED
    BY <2>1, <2>2
<1>13. BusyInv(u)
  <2> SUFFICES ASSUME NEW v \in Workspaces, NEW l \in Classes
               PROVE  u.busy[v][l] >= Cardinality(ClassOps(u, v, l))
    BY DEF BusyInv
  <2>1. /\ IsFiniteSet(ClassOps(s, v, l))
        /\ Cardinality(ClassOps(s, v, l)) \in Nat
    BY CountNat DEF ClassOps
  <2>2. s.busy[v][l] \in Nat /\ s.busy[v][l] >= Cardinality(ClassOps(s, v, l))
    BY <1>6 DEF TableInv, BusyInv
  <2>3. CASE v = w /\ l = k
    <3>1. ClassOps(u, v, l) \subseteq ClassOps(s, v, l) \cup {c}
      BY <1>3, <1>9 DEF ClassOps
    <3>2. /\ IsFiniteSet(ClassOps(s, v, l) \cup {c})
          /\ Cardinality(ClassOps(s, v, l) \cup {c}) <= Cardinality(ClassOps(s, v, l)) + 1
      BY SMTT(30), <2>1, FS_AddElement
    <3>3. /\ Cardinality(ClassOps(u, v, l)) \in Nat
          /\ Cardinality(ClassOps(u, v, l)) <= Cardinality(ClassOps(s, v, l) \cup {c})
      BY <3>1, <3>2, FS_Subset, FS_CardinalityType
    <3>4. Cardinality(ClassOps(s, v, l) \cup {c}) \in Nat
      BY <3>2, FS_CardinalityType
    <3> QED
      BY <1>7, <2>1, <2>2, <2>3, <3>2, <3>3, <3>4
  <2>4. CASE ~(v = w /\ l = k)
    <3>1. ClassOps(u, v, l) = ClassOps(s, v, l)
      BY <1>3, <1>8, <1>9, <2>4 DEF ClassOps
    <3> QED
      BY <1>7, <2>2, <2>4, <3>1
  <2> QED
    BY <2>3, <2>4
<1>14. WaitInv(u)
  <2>1. \A d \in Calls : u.rec[d].waiters = s.rec[d].waiters
    BY <1>5
  <2> QED
    BY <1>3, <2>1 DEF TableInv, WaitInv, SameWaits
<1>15. \A v \in Workspaces, l \in Classes : u.busy[v][l] >= s.busy[v][l]
  <2> SUFFICES ASSUME NEW v \in Workspaces, NEW l \in Classes
               PROVE  u.busy[v][l] >= s.busy[v][l]
    OBVIOUS
  <2>1. CASE v = w /\ l = k
    BY <1>7, <2>1
  <2>2. CASE ~(v = w /\ l = k)
    BY <1>7, <2>2
  <2> QED
    BY <2>1, <2>2
<1>16. TableInv(u, NoCall)
  BY <1>10, <1>11, <1>12, <1>13, <1>14 DEF TableInv
<1> QED
  BY <1>1, <1>2, <1>3, <1>4, <1>5, <1>7, <1>9, <1>15, <1>16 DEF u, b, w, k

\* A set of natural numbers that is not empty has a least member.
LEMMA LeastExists ==
  ASSUME NEW T, T \subseteq Nat, T # {}
  PROVE  \E i \in T : \A j \in T : i <= j
<1> DEFINE R == {p \in Nat \X Nat : p[1] < p[2]}
<1>1. IsWellFoundedOn(R, Nat)
  BY NatLessThanWellFounded, Zenon DEF OpToRel
<1>2. \E x \in T : \A y \in T : ~ (<<y, x>> \in R)
  <2> HIDE DEF R
  <2> QED
    BY <1>1, WFMin
<1>3. PICK i \in T : \A y \in T : ~ (<<y, i>> \in R)
  BY <1>2
<1>4. \A y \in T : ~ (y < i)
  BY <1>3
<1> QED
  BY <1>4

\* The direct calls before the first that can be taken do not wait any more.
LEMMA TakeDirectKeeps ==
  ASSUME NEW s \in TableType, TableInv(s, NoCall)
  PROVE  LET u == TakeDirect(s)
             c == NextDirect(s)
         IN  /\ u \in TableType /\ TableInv(u, NoCall)
             /\ SameCalls(s, u) /\ SameBusy(s, u) /\ SameWaits(s, u)
             /\ u.queue = s.queue /\ u.pending = s.pending
             /\ c = NoCall => u.rec = s.rec /\ u.directQueue = <<>>
             /\ c # NoCall =>
                  /\ c \in Calls /\ Phase(s, c) = "DirectWaiting"
                  /\ ~IsOperation(s.req[c]) /\ CanTake(s, c)
                  /\ Phase(u, c) = "Running"
                  /\ u.rec[c].outcome = s.rec[c].outcome
                  /\ \A d \in Calls \ {c} : u.rec[d] = s.rec[d]
                  /\ s.directQueue # <<>>
<1> DEFINE u == TakeDirect(s)
           c == NextDirect(s)
           q == s.directQueue
<1>0. /\ q \in Seq(Calls) /\ Len(q) \in Nat /\ NoCall \notin Calls
      /\ s.queue \in Seq(Calls) /\ s.retained \in Seq(Calls)
      /\ s.rec \in [Calls -> RecordType]
  BY DEF TableType, NoCall, Calls
<1>1. CASE Takeable(s) = {}
  <2>1. c = NoCall /\ u = [s EXCEPT !.directQueue = <<>>]
    BY <1>1 DEF NextDirect, TakeDirect
  <2> HIDE DEF u, c
  <2>2. /\ u \in TableType /\ SameCalls(s, u) /\ SameBusy(s, u)
        /\ SameWaits(s, u) /\ u.queue = s.queue /\ u.pending = s.pending
        /\ u.rec = s.rec /\ u.directQueue = <<>> /\ u.others = s.others
        /\ u.retained = s.retained /\ u.high = s.high /\ u.req = s.req
        /\ u.busy = s.busy
    <3>1. <<>> \in Seq(Calls)
      OBVIOUS
    <3> QED
      BY <2>1, <3>1 DEF TableType, SameCalls, SameBusy, SameWaits
  <2>3. \A d \in Calls : Phase(s, d) # "DirectWaiting"
    <3> SUFFICES ASSUME NEW d \in Calls, Phase(s, d) = "DirectWaiting"
                 PROVE  FALSE
      OBVIOUS
    <3>1. CanTake(s, d)
      BY CanTakeFacts
    <3>2. InSeq(d, q)
      BY <1>0 DEF TableInv, PlacedInv
    <3> QED
      BY <1>1, <3>1, <3>2 DEF Takeable, InSeq
  <2>4. RecordInv(u)
    BY <2>2 DEF TableInv, RecordInv
  <2>5. LinesInv(u)
    BY <2>2 DEF TableInv, LinesInv, Phase
  <2>6. PlacedInv(u, NoCall)
    BY <2>2, <2>3 DEF TableInv, PlacedInv, Phase
  <2>7. BusyInv(u)
    <3>1. ASSUME NEW w, NEW k PROVE ClassOps(u, w, k) = ClassOps(s, w, k)
      BY <2>2 DEF ClassOps, Phase
    <3> QED
      BY <2>2, <3>1 DEF TableInv, BusyInv
  <2>8. WaitInv(u)
    BY <2>2 DEF TableInv, WaitInv, SameWaits
  <2> QED
    BY <2>1, <2>2, <2>4, <2>5, <2>6, <2>7, <2>8 DEF TableInv, u, c
<1>2. CASE Takeable(s) # {}
  <2> DEFINE n == CHOOSE i \in Takeable(s) : \A j \in Takeable(s) : i <= j
             p == SubSeq(q, n + 1, Len(q))
             t == Take(s, c)
  <2>1. n \in Takeable(s) /\ \A j \in Takeable(s) : n <= j
    <3>1. Takeable(s) \subseteq Nat
      BY <1>0 DEF Takeable
    <3>2. \E i \in Takeable(s) : \A j \in Takeable(s) : i <= j
      BY <1>2, <3>1, LeastExists
    <3> QED
      BY <3>2
  <2>2. c = q[n] /\ u = [t EXCEPT !.directQueue = SubSeq(@, n + 1, Len(@))]
    <3>1. c = q[n]
      BY <1>2 DEF NextDirect
    <3>2. u = [Take(s, q[n]) EXCEPT !.directQueue = SubSeq(@, n + 1, Len(@))]
      BY <1>2 DEF TakeDirect
    <3> HIDE DEF c
    <3> QED
      BY <3>1, <3>2
  <2> HIDE DEF n
  <2>3. /\ n \in 1 .. Len(q) /\ c \in Calls /\ CanTake(s, c)
        /\ \A j \in 1 .. Len(q) : CanTake(s, q[j]) => n <= j
    BY <1>0, <2>1, <2>2 DEF Takeable
  <2>4. ~IsOperation(s.req[c]) /\ Phase(s, c) = "DirectWaiting"
    <3>1. ~IsOperation(s.req[c])
      BY <2>2, <2>3 DEF TableInv, LinesInv
    <3>2. Phase(s, c) \in {"Queued", "DirectWaiting"}
      BY <2>3, CanTakeFacts
    <3> QED
      BY <2>3, <3>1, <3>2 DEF TableInv, RecordInv, Phase
  <2> HIDE DEF c
  <2>5. /\ t \in TableType
        /\ SameCalls(s, t) /\ SameQueues(s, t) /\ SameWaits(s, t)
        /\ SameBusy(s, t)
        /\ t.retained = s.retained /\ t.others = s.others
        /\ \A d \in Calls \ {c} : t.rec[d] = s.rec[d]
        /\ t.rec[c].waiters = s.rec[c].waiters
        /\ t.rec[c].outcome = s.rec[c].outcome
        /\ t.rec[c].resolved = s.rec[c].resolved
        /\ t.rec[c].gate = (s.rec[c].gate /\ ~CanTake(s, c))
        /\ t.rec[c].phase = IF CanTake(s, c) THEN "Running" ELSE s.rec[c].phase
    BY <2>3, TakeEffect
  <2>6. /\ p \in Seq(Calls) /\ Len(p) = Len(q) - n
        /\ \A i \in 1 .. Len(p) : p[i] = q[i + n]
    BY SMTT(30), <1>0, <2>3
  <2>7. t.directQueue = q
    BY <2>5 DEF SameQueues
  <2> HIDE DEF t, u, p
  <2>8. u = [t EXCEPT !.directQueue = p]
    BY <2>2, <2>7 DEF p
  <2>9. /\ u \in TableType
        /\ SameCalls(t, u) /\ SameBusy(t, u) /\ SameWaits(t, u)
        /\ u.queue = t.queue /\ u.pending = t.pending /\ u.directQueue = p
        /\ u.retained = t.retained /\ u.others = t.others /\ u.rec = t.rec
    BY ZenonT(60), <2>5, <2>6, <2>8 DEF TableType, SameCalls, SameBusy, SameWaits
  <2>10. /\ SameCalls(s, u) /\ SameBusy(s, u) /\ SameWaits(s, u)
         /\ u.queue = s.queue /\ u.pending = s.pending
         /\ u.retained = s.retained /\ u.others = s.others
         /\ u.high = s.high /\ u.req = s.req /\ u.busy = s.busy
    BY <2>5, <2>9 DEF SameCalls, SameBusy, SameWaits, SameQueues
  <2>11. /\ \A d \in Calls \ {c} : u.rec[d] = s.rec[d]
         /\ u.rec[c].waiters = s.rec[c].waiters
         /\ u.rec[c].outcome = s.rec[c].outcome
         /\ ~u.rec[c].gate /\ u.rec[c].phase = "Running"
    BY <2>3, <2>5, <2>9
  <2>12. /\ \A d \in Calls \ {c} : Phase(u, d) = Phase(s, d)
         /\ Phase(u, c) = "Running"
    BY <2>11 DEF Phase
  <2>13. RecordInv(u)
    <3> SUFFICES ASSUME NEW d \in Calls PROVE RecordInv(u)!(d)
      BY DEF RecordInv
    <3>1. CASE d = c
      BY <2>4, <2>10, <2>11, <3>1 DEF TableInv, RecordInv, Phase
    <3>2. CASE d # c
      BY <2>10, <2>11, <3>2 DEF TableInv, RecordInv
    <3> QED
      BY <3>1, <3>2
  <2>14. LinesInv(u)
    <3>1. \A i \in 1 .. Len(s.queue) : s.queue[i] \in Calls \ {c}
      BY <1>0, <2>4 DEF TableInv, LinesInv
    <3>2. \A i \in 1 .. Len(s.retained) : s.retained[i] \in Calls \ {c}
      BY <1>0, <2>4 DEF TableInv, LinesInv
    <3>3. ASSUME NEW i \in 1 .. Len(p)
          PROVE  p[i] <= s.high /\ ~IsOperation(s.req[p[i]])
      <4>1. i + n \in 1 .. Len(q) /\ p[i] = q[i + n]
        BY <1>0, <2>3, <2>6
      <4> QED
        BY <4>1 DEF TableInv, LinesInv
    <3>4. /\ \A i \in 1 .. Len(s.queue) : Phase(u, s.queue[i]) = Phase(s, s.queue[i])
          /\ \A i \in 1 .. Len(s.retained) : Phase(u, s.retained[i]) = Phase(s, s.retained[i])
      BY <2>12, <3>1, <3>2
    <3> QED
      BY <2>9, <2>10, <3>3, <3>4 DEF TableInv, LinesInv
  <2>15. PlacedInv(u, NoCall)
    <3> SUFFICES ASSUME NEW d \in Calls
                 PROVE  /\ Phase(u, d) = "Queued" => InSeq(d, u.queue)
                        /\ Phase(u, d) = "DirectWaiting" => InSeq(d, p)
      BY <2>9 DEF PlacedInv
    <3>1. CASE d = c
      BY <2>12, <3>1
    <3>2. CASE d # c
      <4>1. Phase(u, d) = Phase(s, d)
        BY <2>12, <3>2
      <4>2. ASSUME Phase(s, d) = "DirectWaiting" PROVE InSeq(d, p)
        <5>1. InSeq(d, q)
          BY <1>0, <4>2 DEF TableInv, PlacedInv
        <5>2. PICK i \in 1 .. Len(q) : q[i] = d
          BY <5>1 DEF InSeq
        <5>3. CanTake(s, d)
          BY <4>2, CanTakeFacts
        <5>4. n < i
          BY <1>0, <2>2, <2>3, <3>2, <5>2, <5>3
        <5>5. i - n \in 1 .. Len(p) /\ (i - n) + n = i
          BY <1>0, <2>3, <2>6, <5>4
        <5>6. p[i - n] = d
          BY <2>6, <5>2, <5>5
        <5> QED
          BY <5>5, <5>6 DEF InSeq
      <4> QED
        BY <1>0, <2>10, <4>1, <4>2 DEF TableInv, PlacedInv
    <3> QED
      BY <3>1, <3>2
  <2>16. BusyInv(u)
    <3>1. ASSUME NEW w, NEW k PROVE ClassOps(u, w, k) = ClassOps(s, w, k)
      BY <2>4, <2>10, <2>12 DEF ClassOps
    <3> QED
      BY <2>10, <3>1 DEF TableInv, BusyInv
  <2>17. WaitInv(u)
    <3>1. \A d \in Calls : u.rec[d].waiters = s.rec[d].waiters
      BY <2>11
    <3> QED
      BY <2>10, <3>1 DEF TableInv, WaitInv, SameWaits
  <2>18. q # <<>> /\ c # NoCall
    BY <1>0, <2>3
  <2> QED
    BY <2>3, <2>4, <2>9, <2>10, <2>11, <2>12, <2>13, <2>14, <2>15, <2>16,
       <2>17, <2>18 DEF TableInv, u, c, q
<1> QED
  BY <1>1, <1>2

\* A direct call joins the direct queue.
LEMMA AdmitDirectKeeps ==
  ASSUME NEW s \in TableType, TableInv(s, NoCall), NEW c \in Calls,
         Phase(s, c) = "Received", ~IsOperation(s.req[c])
  PROVE  LET u == AdmitDirect(s, c) IN
         /\ u \in TableType /\ TableInv(u, NoCall)
         /\ SameCalls(s, u) /\ SameBusy(s, u) /\ SameWaits(s, u)
         /\ u.queue = s.queue /\ u.pending = s.pending
         /\ Phase(u, c) = "DirectWaiting"
         /\ u.rec[c].outcome = s.rec[c].outcome
         /\ \A d \in Calls \ {c} : u.rec[d] = s.rec[d]
<1> DEFINE u == AdmitDirect(s, c)
           r == [s.rec[c] EXCEPT !.resolved = TRUE, !.phase = "DirectWaiting"]
           q == s.directQueue
           p == Append(q, c)
<1>1. /\ s.rec \in [Calls -> RecordType] /\ s.rec[c] \in RecordType
      /\ q \in Seq(Calls) /\ s.queue \in Seq(Calls)
      /\ s.retained \in Seq(Calls) /\ Len(q) \in Nat
  BY DEF TableType
<1>2. /\ r \in RecordType /\ r.waiters = s.rec[c].waiters
      /\ r.outcome = s.rec[c].outcome /\ r.resolved
      /\ r.gate = s.rec[c].gate /\ r.phase = "DirectWaiting"
  BY <1>1 DEF RecordType, Phases
<1>3. /\ p \in Seq(Calls) /\ Len(p) = Len(q) + 1 /\ p[Len(q) + 1] = c
      /\ \A i \in 1 .. Len(q) : p[i] = q[i]
  BY <1>1, AppendFacts
<1>4. u = [s EXCEPT !.rec[c] = r, !.directQueue = p]
  BY DEF AdmitDirect, TableType
<1> HIDE DEF r, p, u
<1>5. [s.rec EXCEPT ![c] = r] \in [Calls -> RecordType]
  BY <1>1, <1>2
<1>6. /\ u \in TableType
      /\ SameCalls(s, u) /\ SameBusy(s, u) /\ SameWaits(s, u)
      /\ u.queue = s.queue /\ u.pending = s.pending /\ u.directQueue = p
      /\ u.retained = s.retained /\ u.others = s.others
      /\ u.rec = [s.rec EXCEPT ![c] = r]
  BY ZenonT(60), <1>3, <1>4, <1>5 DEF TableType, SameCalls, SameBusy, SameWaits
<1>7. u.high = s.high /\ u.req = s.req /\ u.busy = s.busy
  BY <1>6 DEF SameCalls, SameBusy
<1>8. u.rec[c] = r /\ \A d \in Calls \ {c} : u.rec[d] = s.rec[d]
  BY <1>1, <1>6
<1>9. /\ \A d \in Calls \ {c} : Phase(u, d) = Phase(s, d)
      /\ Phase(u, c) = "DirectWaiting"
  BY <1>2, <1>8 DEF Phase
<1>10. RecordInv(u)
  <2> SUFFICES ASSUME NEW d \in Calls PROVE RecordInv(u)!(d)
    BY DEF RecordInv
  <2>1. CASE d = c
    BY <1>2, <1>7, <1>8, <2>1 DEF TableInv, RecordInv, Phase
  <2>2. CASE d # c
    BY <1>7, <1>8, <2>2 DEF TableInv, RecordInv
  <2> QED
    BY <2>1, <2>2
<1>11. LinesInv(u)
  <2>1. \A i \in 1 .. Len(s.queue) : s.queue[i] \in Calls \ {c}
    BY <1>1 DEF TableInv, LinesInv
  <2>2. \A i \in 1 .. Len(s.retained) : s.retained[i] \in Calls \ {c}
    BY <1>1 DEF TableInv, LinesInv
  <2>3. ASSUME NEW i \in 1 .. Len(p)
        PROVE  p[i] <= s.high /\ ~IsOperation(s.req[p[i]])
    <3>1. CASE i = Len(q) + 1
      BY <1>3, <3>1 DEF TableInv, RecordInv, Phase
    <3>2. CASE i \in 1 .. Len(q)
      BY <1>3, <3>2 DEF TableInv, LinesInv
    <3> QED
      BY <1>1, <1>3, <3>1, <3>2
  <2>4. /\ \A i \in 1 .. Len(s.queue) : Phase(u, s.queue[i]) = Phase(s, s.queue[i])
        /\ \A i \in 1 .. Len(s.retained) : Phase(u, s.retained[i]) = Phase(s, s.retained[i])
    BY <1>9, <2>1, <2>2
  <2> QED
    BY <1>6, <1>7, <2>3, <2>4 DEF TableInv, LinesInv
<1>12. PlacedInv(u, NoCall)
  <2> SUFFICES ASSUME NEW d \in Calls
               PROVE  /\ Phase(u, d) = "Queued" => InSeq(d, u.queue)
                      /\ Phase(u, d) = "DirectWaiting" => InSeq(d, p)
    BY <1>6 DEF PlacedInv
  <2>1. CASE d = c
    BY <1>1, <1>3, <1>9, <2>1 DEF InSeq
  <2>2. CASE d # c
    <3>1. InSeq(d, q) => InSeq(d, p)
      BY <1>1, <1>3 DEF InSeq
    <3> QED
      BY <1>6, <1>9, <2>2, <3>1 DEF TableInv, PlacedInv, NoCall, Calls
  <2> QED
    BY <2>1, <2>2
<1>13. BusyInv(u)
  <2>1. ASSUME NEW w, NEW k PROVE ClassOps(u, w, k) = ClassOps(s, w, k)
    BY <1>7, <1>9 DEF ClassOps
  <2> QED
    BY <1>7, <2>1 DEF TableInv, BusyInv
<1>14. WaitInv(u)
  <2>1. \A d \in Calls : u.rec[d].waiters = s.rec[d].waiters
    BY <1>2, <1>8
  <2> QED
    BY <1>6, <2>1 DEF TableInv, WaitInv, SameWaits
<1> QED
  BY <1>2, <1>6, <1>8, <1>9, <1>10, <1>11, <1>12, <1>13, <1>14 DEF TableInv, u

\* A full table makes room by discarding a terminal record.
LEMMA EvictKeeps ==
  ASSUME NEW s \in TableType, NEW x, TableInv(s, x), Evictable(s) # {}
  PROVE  \E o \in Calls :
           /\ Evict(s) = Discard(s, o) /\ Evict(s) \in TableType
           /\ Phase(s, o) = "Terminal" /\ TableInv(Evict(s), x)
<1> DEFINE i == CHOOSE i \in Evictable(s) : \A j \in Evictable(s) : i <= j
           o == s.retained[i]
<1>1. s.retained \in Seq(Calls)
  BY DEF TableType
<1>2. i \in Evictable(s)
  <2>1. Evictable(s) \subseteq Nat
    BY <1>1 DEF Evictable
  <2>2. \E j \in Evictable(s) : \A k \in Evictable(s) : j <= k
    BY <2>1, LeastExists
  <2> QED
    BY <2>2
<1>3. Evict(s) = Discard(s, o)
  BY DEF Evict
<1> HIDE DEF i
<1>4. i \in 1 .. Len(s.retained)
  BY <1>2 DEF Evictable
<1>5. o \in Calls /\ Phase(s, o) = "Terminal"
  BY <1>1, <1>4 DEF TableInv, LinesInv
<1> HIDE DEF o
<1>6. Discard(s, o) \in TableType /\ TableInv(Discard(s, o), x)
  BY <1>5, DiscardEffect, DiscardKeeps
<1> QED
  BY <1>3, <1>5, <1>6
\* The table with an operation at the end of its queue.
JoinQueue(s, c, submit) ==
  [s EXCEPT
     !.tableEntries = @ + 1,
     !.requests[s.req[c].rid] = c,
     !.rec[c] = [@ EXCEPT !.inTable = TRUE, !.resolved = TRUE,
                          !.phase = "Queued", !.accepted = submit],
     !.queue = Append(@, c)]

\* An operation joins the end of the queue.
LEMMA QueuedKeeps ==
  ASSUME NEW s \in TableType, TableInv(s, NoCall), NEW c \in Calls,
         Phase(s, c) = "Received", IsOperation(s.req[c]),
         \A i \in 1 .. Len(s.queue) : s.queue[i] < c,
         \A j \in 1 .. Len(s.pending) : c < s.pending[j],
         NEW submit \in BOOLEAN
  PROVE  LET u == JoinQueue(s, c, submit) IN
         /\ u \in TableType /\ TableInv(u, NoCall)
         /\ SameCalls(s, u) /\ SameBusy(s, u) /\ SameWaits(s, u)
         /\ u.queue = Append(s.queue, c) /\ u.pending = s.pending
         /\ u.directQueue = s.directQueue
         /\ Phase(u, c) = "Queued"
         /\ u.rec[c].outcome = s.rec[c].outcome
         /\ \A d \in Calls \ {c} : u.rec[d] = s.rec[d]
<1> DEFINE r == [s.rec[c] EXCEPT !.inTable = TRUE, !.resolved = TRUE,
                                 !.phase = "Queued", !.accepted = submit]
           q == s.queue
           p == Append(q, c)
           ids == [s.requests EXCEPT ![s.req[c].rid] = c]
           n == s.tableEntries + 1
           u == [s EXCEPT !.tableEntries = n, !.requests = ids,
                          !.rec[c] = r, !.queue = p]
<1>1. /\ s.rec \in [Calls -> RecordType] /\ s.rec[c] \in RecordType
      /\ q \in Seq(Calls) /\ s.retained \in Seq(Calls) /\ Len(q) \in Nat
      /\ n \in Nat
  BY DEF TableType
<1>2. /\ r \in RecordType /\ r.waiters = s.rec[c].waiters
      /\ r.outcome = s.rec[c].outcome /\ r.resolved
      /\ r.gate = s.rec[c].gate /\ r.phase = "Queued"
  BY <1>1 DEF RecordType, Phases
<1>3. /\ p \in Seq(Calls) /\ Len(p) = Len(q) + 1 /\ p[Len(q) + 1] = c
      /\ \A i \in 1 .. Len(q) : p[i] = q[i]
  BY <1>1, AppendFacts
<1>4. ids \in [RequestIds -> Calls \cup {NoCall}]
  BY DEF TableType
<1>5. JoinQueue(s, c, submit) = u
  BY DEF TableType, JoinQueue
<1> HIDE DEF r, p, ids, n
<1>6. [s.rec EXCEPT ![c] = r] \in [Calls -> RecordType]
  BY <1>1, <1>2
<1>7. /\ u \in TableType
      /\ SameCalls(s, u) /\ SameBusy(s, u) /\ SameWaits(s, u)
      /\ u.queue = p /\ u.pending = s.pending
      /\ u.directQueue = s.directQueue
      /\ u.retained = s.retained /\ u.others = s.others
      /\ u.rec = [s.rec EXCEPT ![c] = r]
  BY <1>1, <1>3, <1>4, <1>6 DEF TableType, SameCalls, SameBusy, SameWaits
<1> HIDE DEF u
<1>8. u.high = s.high /\ u.req = s.req /\ u.busy = s.busy
  BY <1>7 DEF SameCalls, SameBusy
<1>9. u.rec[c] = r /\ \A d \in Calls \ {c} : u.rec[d] = s.rec[d]
  BY <1>1, <1>7
<1>10. /\ \A d \in Calls \ {c} : Phase(u, d) = Phase(s, d)
       /\ Phase(u, c) = "Queued"
  BY <1>2, <1>9 DEF Phase
<1>11. RecordInv(u)
  <2> SUFFICES ASSUME NEW d \in Calls PROVE RecordInv(u)!(d)
    BY DEF RecordInv
  <2>1. CASE d = c
    BY <1>2, <1>8, <1>9, <2>1 DEF TableInv, RecordInv, Phase
  <2>2. CASE d # c
    BY <1>8, <1>9, <2>2 DEF TableInv, RecordInv
  <2> QED
    BY <2>1, <2>2
<1>12. LinesInv(u)
  <2>1. \A i \in 1 .. Len(q) : q[i] \in Calls \ {c}
    BY <1>1 DEF TableInv, LinesInv
  <2>2. \A i \in 1 .. Len(s.retained) : s.retained[i] \in Calls \ {c}
    BY <1>1 DEF TableInv, LinesInv
  <2>3. ASSUME NEW i \in 1 .. Len(p)
        PROVE  /\ p[i] <= s.high /\ IsOperation(s.req[p[i]])
               /\ Phase(u, p[i]) \in {"None", "Queued", "Terminal"}
               /\ \A j \in 1 .. Len(s.pending) : p[i] < s.pending[j]
    <3>1. CASE i = Len(q) + 1
      BY <1>3, <1>10, <3>1 DEF TableInv, RecordInv, Phase
    <3>2. CASE i \in 1 .. Len(q)
      BY <1>3, <1>10, <2>1, <3>2 DEF TableInv, LinesInv
    <3> QED
      BY <1>1, <1>3, <3>1, <3>2
  <2>4. ASSUME NEW i \in 1 .. Len(p), NEW j \in 1 .. Len(p), i < j
        PROVE  p[i] < p[j]
    <3>1. i \in 1 .. Len(q)
      BY <1>1, <1>3, <2>4
    <3>2. CASE j = Len(q) + 1
      BY <1>3, <3>1, <3>2
    <3>3. CASE j \in 1 .. Len(q)
      BY <1>3, <2>4, <3>1, <3>3 DEF TableInv, LinesInv
    <3> QED
      BY <1>1, <1>3, <3>2, <3>3
  <2>5. \A i \in 1 .. Len(s.retained) : Phase(u, s.retained[i]) = Phase(s, s.retained[i])
    BY <1>10, <2>2
  <2> QED
    BY <1>7, <1>8, <2>3, <2>4, <2>5 DEF TableInv, LinesInv
<1>13. PlacedInv(u, NoCall)
  <2> SUFFICES ASSUME NEW d \in Calls
               PROVE  /\ Phase(u, d) = "Queued" => InSeq(d, p)
                      /\ Phase(u, d) = "DirectWaiting" => InSeq(d, u.directQueue)
    BY <1>7 DEF PlacedInv
  <2>1. CASE d = c
    BY <1>1, <1>3, <1>10, <2>1 DEF InSeq
  <2>2. CASE d # c
    <3>1. InSeq(d, q) => InSeq(d, p)
      BY <1>1, <1>3 DEF InSeq
    <3> QED
      BY <1>7, <1>10, <2>2, <3>1 DEF TableInv, PlacedInv, NoCall, Calls
  <2> QED
    BY <2>1, <2>2
<1>14. BusyInv(u)
  <2>1. ASSUME NEW w, NEW k PROVE ClassOps(u, w, k) = ClassOps(s, w, k)
    BY <1>8, <1>10 DEF ClassOps
  <2> QED
    BY <1>8, <2>1 DEF TableInv, BusyInv
<1>15. WaitInv(u)
  <2>1. \A d \in Calls : u.rec[d].waiters = s.rec[d].waiters
    BY <1>2, <1>9
  <2> QED
    BY <1>7, <2>1 DEF TableInv, WaitInv, SameWaits
<1>16. TableInv(u, NoCall)
  BY <1>11, <1>12, <1>13, <1>14, <1>15 DEF TableInv
<1>17. u.rec[c].outcome = s.rec[c].outcome
  BY <1>2, <1>9
<1> QED
  BY <1>5, <1>7, <1>9, <1>10, <1>16, <1>17 DEF p

\* An operation joins the queue, an old record evicted first when the table is full.
LEMMA AdmitOperationKeeps ==
  ASSUME NEW s \in TableType, TableInv(s, NoCall), NEW c \in Calls,
         Phase(s, c) = "Received", IsOperation(s.req[c]),
         s.tableEntries >= TableLimit => Evictable(s) # {},
         \A i \in 1 .. Len(s.queue) : s.queue[i] < c,
         \A j \in 1 .. Len(s.pending) : c < s.pending[j]
  PROVE  LET u == AdmitOperation(s, c) IN
         /\ u \in TableType /\ TableInv(u, NoCall)
         /\ SameCalls(s, u) /\ SameBusy(s, u) /\ SameWaits(s, u)
         /\ u.queue = Append(s.queue, c) /\ u.pending = s.pending
         /\ u.directQueue = s.directQueue
         /\ Phase(u, c) = "Queued"
         /\ \A d \in Calls \ {c} :
              \/ u.rec[d] = s.rec[d]
              \/ Phase(s, d) = "Terminal" /\ u.rec[d] = NoRecord
<1> DEFINE roomy == IF s.tableEntries >= TableLimit THEN Evict(s) ELSE s
           submit == s.req[c].submit
           queued ==
             [roomy EXCEPT
                !.tableEntries = @ + 1,
                !.requests[s.req[c].rid] = c,
                !.rec[c] = [@ EXCEPT !.inTable = TRUE, !.resolved = TRUE,
                                     !.phase = "Queued", !.accepted = submit],
                !.queue = Append(@, c)]
           u == AdmitOperation(s, c)
<1>1. u = IF submit THEN Answer(queued, c, "accepted") ELSE queued
  BY DEF AdmitOperation
<1>2. submit \in BOOLEAN
  <2>1. s.req[c] \in Request
    BY AskType, ServiceAssumption
  <2> QED
    BY <2>1 DEF Request
<1>3. /\ roomy \in TableType /\ TableInv(roomy, NoCall)
      /\ SameCalls(s, roomy) /\ SameBusy(s, roomy) /\ SameWaits(s, roomy)
      /\ SameQueues(s, roomy)
      /\ Phase(roomy, c) = "Received"
      /\ \A d \in Calls : \/ roomy.rec[d] = s.rec[d]
                          \/ Phase(s, d) = "Terminal" /\ roomy.rec[d] = NoRecord
  <2>1. CASE s.tableEntries >= TableLimit
    <3>1. roomy = Evict(s)
      BY <2>1
    <3>2. PICK o \in Calls :
           /\ Evict(s) = Discard(s, o) /\ Evict(s) \in TableType
           /\ Phase(s, o) = "Terminal" /\ TableInv(Evict(s), NoCall)
      BY <2>1, EvictKeeps
    <3>3. /\ SameCalls(s, Evict(s)) /\ SameQueues(s, Evict(s))
          /\ SameBusy(s, Evict(s)) /\ SameWaits(s, Evict(s))
          /\ Evict(s).rec = [s.rec EXCEPT ![o] = NoRecord]
      BY <3>2, DiscardEffect
    <3>4. s.rec \in [Calls -> RecordType] /\ o # c
      BY <3>2 DEF TableType
    <3>5. /\ \A d \in Calls \ {o} : Evict(s).rec[d] = s.rec[d]
          /\ Evict(s).rec[o] = NoRecord
      BY <3>3, <3>4
    <3> HIDE DEF roomy
    <3> QED
      BY <3>1, <3>2, <3>3, <3>4, <3>5 DEF Phase
  <2>2. CASE ~(s.tableEntries >= TableLimit)
    <3>1. roomy = s
      BY <2>2
    <3> HIDE DEF roomy
    <3> QED
      BY <3>1 DEF SameCalls, SameBusy, SameWaits, SameQueues
  <2> QED
    BY <2>1, <2>2
<1> HIDE DEF roomy
<1>4. /\ roomy.req = s.req /\ roomy.queue = s.queue
      /\ roomy.pending = s.pending /\ roomy.directQueue = s.directQueue
  BY <1>3 DEF SameCalls, SameQueues
<1>5. /\ queued \in TableType /\ TableInv(queued, NoCall)
      /\ SameCalls(roomy, queued) /\ SameBusy(roomy, queued)
      /\ SameWaits(roomy, queued)
      /\ queued.queue = Append(s.queue, c) /\ queued.pending = s.pending
      /\ queued.directQueue = s.directQueue
      /\ Phase(queued, c) = "Queued"
      /\ \A d \in Calls \ {c} : queued.rec[d] = roomy.rec[d]
  <2>1. queued = JoinQueue(roomy, c, submit)
    BY <1>4 DEF JoinQueue
  <2>2. /\ IsOperation(roomy.req[c])
        /\ \A i \in 1 .. Len(roomy.queue) : roomy.queue[i] < c
        /\ \A j \in 1 .. Len(roomy.pending) : c < roomy.pending[j]
    BY <1>4
  <2> HIDE DEF submit, queued
  <2>3. /\ queued \in TableType /\ TableInv(queued, NoCall)
        /\ SameCalls(roomy, queued) /\ SameBusy(roomy, queued)
        /\ SameWaits(roomy, queued)
        /\ queued.queue = Append(roomy.queue, c)
        /\ queued.pending = roomy.pending
        /\ queued.directQueue = roomy.directQueue
        /\ Phase(queued, c) = "Queued"
        /\ \A d \in Calls \ {c} : queued.rec[d] = roomy.rec[d]
    BY <1>2, <1>3, <2>1, <2>2, QueuedKeeps
  <2> QED
    BY <1>4, <2>3
<1> HIDE DEF queued
<1>6. /\ SameCalls(s, queued) /\ SameBusy(s, queued) /\ SameWaits(s, queued)
  BY <1>3, <1>5 DEF SameCalls, SameBusy, SameWaits
<1>7. CASE ~submit
  BY <1>1, <1>3, <1>5, <1>6, <1>7
<1>8. CASE submit
  <2> DEFINE a == Answer(queued, c, "accepted")
  <2>1. u = a
    BY <1>1, <1>8
  <2>2. "accepted" \in Says
    BY DEF Says
  <2>3. /\ a \in TableType
        /\ SameCalls(queued, a) /\ SameQueues(queued, a)
        /\ SameBusy(queued, a) /\ SameWaits(queued, a)
        /\ a.rec = queued.rec /\ a.retained = queued.retained
        /\ a.others = queued.others \ {c}
    BY <1>5, <2>2, AnswerEffect
  <2> HIDE DEF a
  <2>4. TableInv(a, NoCall)
    BY <1>5, <2>3, QuietKeeps DEF SameRecords, SameCalls, SameBusy, SameWaits
  <2> HIDE DEF u
  <2> QED
    BY <1>3, <1>5, <1>6, <2>1, <2>3, <2>4 DEF SameCalls, SameQueues, SameBusy,
       SameWaits, Phase, u
<1> QED
  BY <1>7, <1>8

\* Calls are numbers from 1.
LEMMA CallsNat == \A c \in Calls : c \in Nat /\ c # 0
  BY LimitsAssumption DEF Calls

\* The table once a call is heard.
Hear(s, q) == [s EXCEPT !.high = s.high + 1, !.req[s.high + 1] = q]

\* A call that is heard has the next number and no record yet.
LEMMA HearKeeps ==
  ASSUME NEW s \in TableType, TableInv(s, NoCall), s.high < MaxCall,
         NEW q \in Requests
  PROVE  LET u == Hear(s, q)
             c == s.high + 1
         IN
         /\ u \in TableType /\ TableInv(u, NoCall) /\ c \in Calls
         /\ u.high = c /\ u.req[c] = q
         /\ \A d \in Calls : d <= s.high => u.req[d] = s.req[d]
         /\ u.rec = s.rec /\ SameQueues(s, u) /\ SameBusy(s, u)
         /\ SameWaits(s, u) /\ u.retained = s.retained /\ u.others = s.others
         /\ u.closing = s.closing /\ u.closeStarted = s.closeStarted
         /\ u.ended = s.ended /\ u.report = s.report /\ u.revoked = s.revoked
         /\ Phase(u, c) = "None"
         /\ \A i \in 1 .. Len(u.queue) : u.queue[i] < c
         /\ \A i \in 1 .. Len(u.pending) : u.pending[i] < c
<1> DEFINE u == Hear(s, q)
           c == s.high + 1
<1>0. /\ s.high \in Nat /\ s.queue \in Seq(Calls) /\ s.pending \in Seq(Calls)
      /\ s.directQueue \in Seq(Calls) /\ s.retained \in Seq(Calls)
      /\ s.req \in [Calls -> Requests]
  BY DEF TableType
<1>1. c \in Calls /\ c \in Nat /\ \A d \in Calls : d <= s.high => d # c
  BY <1>0, LimitsAssumption DEF Calls
<1>2. [s.req EXCEPT ![c] = q] \in [Calls -> Requests]
  BY <1>0, <1>1
<1>3. /\ u \in TableType /\ u.high = c /\ u.req = [s.req EXCEPT ![c] = q]
      /\ u.rec = s.rec /\ SameQueues(s, u) /\ SameBusy(s, u)
      /\ SameWaits(s, u) /\ u.retained = s.retained /\ u.others = s.others
      /\ u.closing = s.closing /\ u.closeStarted = s.closeStarted
      /\ u.ended = s.ended /\ u.report = s.report /\ u.revoked = s.revoked
  <2> HIDE DEF c
  <2>1. u = [s EXCEPT !.high = c, !.req = [s.req EXCEPT ![c] = q]]
    BY DEF Hear, TableType, c
  <2> HIDE DEF u
  <2> QED
    BY <1>1, <1>2, <2>1 DEF TableType, SameQueues, SameBusy, SameWaits
<1> HIDE DEF u
<1>4. /\ u.req[c] = q
      /\ \A d \in Calls : d <= s.high => u.req[d] = s.req[d]
  BY <1>0, <1>1, <1>3
<1>5. \A d \in Calls : Phase(u, d) = Phase(s, d) /\ (Phase(s, d) # "None" => d <= s.high)
  BY <1>3 DEF TableInv, RecordInv, Phase
<1>6. Phase(u, c) = "None"
  BY <1>0, <1>1, <1>5
<1>7. RecordInv(u)
  <2> SUFFICES ASSUME NEW d \in Calls PROVE RecordInv(u)!(d)
    BY DEF RecordInv
  <2>1. d <= s.high => d <= u.high
    BY <1>0, <1>3 DEF Calls
  <2>2. \A w \in s.rec[d].waiters : w \in Calls
    BY DEF TableType, RecordType
  <2>3. \A w \in Calls : w <= s.high => w <= u.high
    BY <1>0, <1>3 DEF Calls
  <2>4. CASE d <= s.high
    BY <1>3, <1>4, <2>1, <2>2, <2>3, <2>4 DEF TableInv, RecordInv
  <2>5. CASE ~(d <= s.high)
    <3>1. s.rec[d].phase = "None"
      BY <2>5 DEF TableInv, RecordInv
    <3> QED
      BY <1>3, <3>1 DEF TableInv, RecordInv
  <2> QED
    BY <2>4, <2>5
<1>8. LinesInv(u)
  <2>1. ASSUME NEW i \in 1 .. Len(s.queue)
        PROVE  /\ s.queue[i] <= u.high /\ IsOperation(u.req[s.queue[i]])
               /\ Phase(u, s.queue[i]) \in {"None", "Queued", "Terminal"}
    <3>1. s.queue[i] \in Calls /\ s.queue[i] \in Nat
      BY <1>0, CallsNat
    <3> QED
      BY <1>0, <1>3, <1>4, <1>5, <3>1 DEF TableInv, LinesInv
  <2>2. ASSUME NEW i \in 1 .. Len(s.directQueue)
        PROVE  /\ s.directQueue[i] <= u.high
               /\ ~IsOperation(u.req[s.directQueue[i]])
    <3>1. s.directQueue[i] \in Calls /\ s.directQueue[i] \in Nat
      BY <1>0, CallsNat
    <3> QED
      BY <1>0, <1>3, <1>4, <3>1 DEF TableInv, LinesInv
  <2>3. ASSUME NEW i \in 1 .. Len(s.pending) PROVE s.pending[i] <= u.high
    <3>1. s.pending[i] \in Nat
      BY <1>0, CallsNat
    <3> QED
      BY <1>0, <1>3, <3>1 DEF TableInv, LinesInv
  <2>4. ASSUME NEW i \in 1 .. Len(s.retained)
        PROVE  Phase(u, s.retained[i]) = "Terminal"
    BY <1>0, <1>5 DEF TableInv, LinesInv
  <2> QED
    BY <1>3, <2>1, <2>2, <2>3, <2>4 DEF TableInv, LinesInv, SameQueues
<1>9. PlacedInv(u, NoCall)
  BY <1>3, <1>5 DEF TableInv, PlacedInv, SameQueues
<1>10. BusyInv(u)
  <2>1. ASSUME NEW w, NEW k PROVE ClassOps(u, w, k) = ClassOps(s, w, k)
    <3>1. \A d \in Calls : Phase(s, d) = "Running" => u.req[d] = s.req[d]
      BY <1>4, <1>5
    <3> QED
      BY <1>5, <3>1 DEF ClassOps
  <2> QED
    BY <1>3, <2>1 DEF TableInv, BusyInv, SameBusy
<1>11. WaitInv(u)
  BY <1>3 DEF TableInv, WaitInv, SameWaits
<1>12. /\ \A i \in 1 .. Len(u.queue) : u.queue[i] < c
       /\ \A i \in 1 .. Len(u.pending) : u.pending[i] < c
  <2>1. u.queue = s.queue /\ u.pending = s.pending
    BY <1>3 DEF SameQueues
  <2>2. /\ \A i \in 1 .. Len(s.queue) : s.queue[i] \in Nat
        /\ \A i \in 1 .. Len(s.pending) : s.pending[i] \in Nat
    BY <1>0, CallsNat
  <2>3. /\ \A i \in 1 .. Len(s.queue) : s.queue[i] <= s.high
        /\ \A i \in 1 .. Len(s.pending) : s.pending[i] <= s.high
    BY DEF TableInv, LinesInv
  <2> QED
    BY <1>0, <2>1, <2>2, <2>3
<1> QED
  BY <1>1, <1>3, <1>4, <1>6, <1>7, <1>8, <1>9, <1>10, <1>11, <1>12
     DEF TableInv, u, c

\* Counting a call in its lane touches no record.
LEMMA CountedKeeps ==
  ASSUME NEW s \in TableType, TableInv(s, NoCall), NEW q
  PROVE  LET u == Counted(s, q) IN
         /\ u \in TableType /\ TableInv(u, NoCall)
         /\ SameCalls(s, u) /\ SameQueues(s, u) /\ SameBusy(s, u)
         /\ SameWaits(s, u)
         /\ u.rec = s.rec /\ u.retained = s.retained /\ u.others = s.others
<1> DEFINE u == Counted(s, q)
<1>1. /\ u \in TableType
      /\ SameCalls(s, u) /\ SameQueues(s, u) /\ SameBusy(s, u)
      /\ SameWaits(s, u)
      /\ u.rec = s.rec /\ u.retained = s.retained /\ u.others = s.others
  <2> DEFINE o == IF Control(q) THEN s.outstanding ELSE s.outstanding + 1
             k == IF Control(q) THEN s.controls + 1 ELSE s.controls
  <2>1. o \in Nat /\ k \in Nat
    BY DEF TableType
  <2>2. u = [s EXCEPT !.outstanding = o, !.controls = k]
    BY DEF Counted
  <2> HIDE DEF o, k, u
  <2> QED
    BY <2>1, <2>2 DEF TableType, SameCalls, SameQueues, SameBusy, SameWaits
<1> HIDE DEF u
<1>2. TableInv(u, NoCall)
  BY <1>1, QuietKeeps DEF SameRecords, SameCalls, SameBusy, SameWaits
<1> QED
  BY <1>1, <1>2 DEF u

\* A new record is `Received` and last of the pending calls.
LEMMA CreateKeeps ==
  ASSUME NEW s \in TableType, TableInv(s, NoCall), NEW c \in Calls,
         c <= s.high, Phase(s, c) = "None",
         \A i \in 1 .. Len(s.queue) : s.queue[i] < c,
         \A i \in 1 .. Len(s.pending) : s.pending[i] < c
  PROVE  LET u == Create(s, c) IN
         /\ u \in TableType /\ TableInv(u, NoCall)
         /\ SameCalls(s, u) /\ SameBusy(s, u) /\ SameWaits(s, u)
         /\ u.queue = s.queue /\ u.directQueue = s.directQueue
         /\ u.pending = Append(s.pending, c)
         /\ Phase(u, c) = "Received" /\ u.others = s.others
         /\ \A d \in Calls \ {c} : u.rec[d] = s.rec[d]
<1> DEFINE u == Create(s, c)
           r == [NoRecord EXCEPT !.phase = "Received", !.gate = TRUE]
           q == s.pending
           p == Append(q, c)
<1>1. /\ s.rec \in [Calls -> RecordType] /\ s.high \in Nat
      /\ q \in Seq(Calls) /\ s.queue \in Seq(Calls)
      /\ s.retained \in Seq(Calls) /\ Len(q) \in Nat
  BY DEF TableType
<1>2. /\ r \in RecordType /\ r.waiters = {} /\ ~r.resolved
      /\ r.gate /\ r.phase = "Received" /\ r.outcome = "None"
  BY DEF RecordType, Phases, Outcomes, NoRecord
<1>3. /\ p \in Seq(Calls) /\ Len(p) = Len(q) + 1 /\ p[Len(q) + 1] = c
      /\ \A i \in 1 .. Len(q) : p[i] = q[i]
  BY <1>1, AppendFacts
<1>4. u = [s EXCEPT !.rec[c] = r, !.pending = p]
  BY DEF Create, TableType
<1> HIDE DEF r, p, u
<1>5. [s.rec EXCEPT ![c] = r] \in [Calls -> RecordType]
  BY <1>1, <1>2
<1>6. /\ u \in TableType
      /\ SameCalls(s, u) /\ SameBusy(s, u) /\ SameWaits(s, u)
      /\ u.queue = s.queue /\ u.directQueue = s.directQueue /\ u.pending = p
      /\ u.retained = s.retained /\ u.others = s.others
      /\ u.rec = [s.rec EXCEPT ![c] = r]
  BY ZenonT(60), <1>3, <1>4, <1>5 DEF TableType, SameCalls, SameBusy, SameWaits
<1>7. u.high = s.high /\ u.req = s.req /\ u.busy = s.busy
  BY <1>6 DEF SameCalls, SameBusy
<1>8. u.rec[c] = r /\ \A d \in Calls \ {c} : u.rec[d] = s.rec[d]
  BY <1>1, <1>6
<1>9. /\ \A d \in Calls \ {c} : Phase(u, d) = Phase(s, d)
      /\ Phase(u, c) = "Received"
  BY <1>2, <1>8 DEF Phase
<1>10. RecordInv(u)
  <2> SUFFICES ASSUME NEW d \in Calls PROVE RecordInv(u)!(d)
    BY DEF RecordInv
  <2>1. CASE d = c
    BY <1>2, <1>7, <1>8, <2>1
  <2>2. CASE d # c
    BY <1>7, <1>8, <2>2 DEF TableInv, RecordInv
  <2> QED
    BY <2>1, <2>2
<1>11. LinesInv(u)
  <2>1. \A i \in 1 .. Len(s.queue) : s.queue[i] \in Calls \ {c} /\ s.queue[i] < c
    BY <1>1, CallsNat
  <2>2. \A i \in 1 .. Len(s.retained) : s.retained[i] \in Calls \ {c}
    BY <1>1 DEF TableInv, LinesInv
  <2>3. ASSUME NEW i \in 1 .. Len(p)
        PROVE  /\ p[i] <= s.high
               /\ \A j \in 1 .. Len(s.queue) : s.queue[j] < p[i]
    <3>1. CASE i = Len(q) + 1
      BY <1>3, <2>1, <3>1
    <3>2. CASE i \in 1 .. Len(q)
      BY <1>3, <3>2 DEF TableInv, LinesInv
    <3> QED
      BY <1>1, <1>3, <3>1, <3>2
  <2>4. ASSUME NEW i \in 1 .. Len(p), NEW j \in 1 .. Len(p), i < j
        PROVE  p[i] < p[j]
    <3>1. i \in 1 .. Len(q)
      BY <1>1, <1>3, <2>4
    <3>2. CASE j = Len(q) + 1
      BY <1>3, <3>1, <3>2
    <3>3. CASE j \in 1 .. Len(q)
      BY <1>3, <2>4, <3>1, <3>3 DEF TableInv, LinesInv
    <3> QED
      BY <1>1, <1>3, <3>2, <3>3
  <2>5. /\ \A i \in 1 .. Len(s.queue) : Phase(u, s.queue[i]) = Phase(s, s.queue[i])
        /\ \A i \in 1 .. Len(s.retained) : Phase(u, s.retained[i]) = Phase(s, s.retained[i])
    BY <1>9, <2>1, <2>2
  <2> QED
    BY <1>6, <1>7, <2>3, <2>4, <2>5 DEF TableInv, LinesInv
<1>12. PlacedInv(u, NoCall)
  BY <1>6, <1>9 DEF TableInv, PlacedInv
<1>13. BusyInv(u)
  <2>1. ASSUME NEW w, NEW k PROVE ClassOps(u, w, k) = ClassOps(s, w, k)
    BY <1>7, <1>9 DEF ClassOps
  <2> QED
    BY <1>7, <2>1 DEF TableInv, BusyInv
<1>14. WaitInv(u)
  <2>1. s.rec[c].waiters = {}
    BY DEF TableInv, RecordInv, Phase
  <2> QED
    BY <1>6, <1>8, <2>1 DEF TableInv, WaitInv, SameWaits
<1> QED
  BY <1>6, <1>8, <1>9, <1>10, <1>11, <1>12, <1>13, <1>14 DEF TableInv, u, p

\* An answer keeps the table's invariant.
LEMMA AnswerKeeps ==
  ASSUME NEW s \in TableType, NEW x, TableInv(s, x), NEW c \in Calls,
         NEW what \in Says
  PROVE  LET u == Answer(s, c, what) IN
         /\ u \in TableType /\ TableInv(u, x)
         /\ SameCalls(s, u) /\ SameQueues(s, u) /\ SameBusy(s, u)
         /\ SameWaits(s, u) /\ u.rec = s.rec /\ u.retained = s.retained
<1> DEFINE u == Answer(s, c, what)
<1>1. /\ u \in TableType
      /\ SameCalls(s, u) /\ SameQueues(s, u) /\ SameBusy(s, u)
      /\ SameWaits(s, u)
      /\ u.rec = s.rec /\ u.retained = s.retained
      /\ u.others = s.others \ {c}
  BY AnswerEffect
<1> HIDE DEF u
<1>2. TableInv(u, x)
  BY <1>1, QuietKeeps DEF SameRecords, SameCalls, SameBusy, SameWaits
<1> QED
  BY <1>1, <1>2 DEF u

\* A read of events is answered or held, and no record changes.
LEMMA ReadEventsKeeps ==
  ASSUME NEW s \in TableType, TableInv(s, NoCall), NEW c \in Calls
  PROVE  LET u == ReadEvents(s, c) IN
         /\ u \in TableType /\ TableInv(u, NoCall)
         /\ SameCalls(s, u) /\ SameQueues(s, u) /\ SameBusy(s, u)
         /\ u.rec = s.rec /\ u.closers = s.closers
<1> DEFINE u == ReadEvents(s, c)
           h == [s EXCEPT !.others = @ \cup {c}, !.held = @ \cup {c}]
<1>1. "refused" \in Says /\ "events" \in Says
  BY DEF Says
<1>2. u \in {Answer(s, c, "refused"), Answer(s, c, "events"), h}
  BY DEF ReadEvents
<1>3. ASSUME NEW what \in Says, u = Answer(s, c, what)
      PROVE  /\ u \in TableType /\ TableInv(u, NoCall)
             /\ SameCalls(s, u) /\ SameQueues(s, u) /\ SameBusy(s, u)
             /\ u.rec = s.rec /\ u.closers = s.closers
  <2> HIDE DEF u
  <2> QED
    BY <1>3, AnswerKeeps DEF SameWaits
<1>4. ASSUME u = h
      PROVE  /\ u \in TableType /\ TableInv(u, NoCall)
             /\ SameCalls(s, u) /\ SameQueues(s, u) /\ SameBusy(s, u)
             /\ u.rec = s.rec /\ u.closers = s.closers
  <2>1. /\ h \in TableType
        /\ SameCalls(s, h) /\ SameQueues(s, h) /\ SameBusy(s, h)
        /\ h.rec = s.rec /\ h.closers = s.closers /\ h.retained = s.retained
        /\ h.others = s.others \cup {c} /\ h.held = s.held \cup {c}
    BY ZenonT(60) DEF TableType, SameCalls, SameQueues, SameBusy
  <2> HIDE DEF h
  <2>2. TableInv(h, NoCall)
    BY <2>1, QuietKeeps DEF SameRecords, SameCalls, SameBusy
  <2> HIDE DEF u
  <2> QED
    BY <1>4, <2>1, <2>2
<1> QED
  BY <1>1, <1>2, <1>3, <1>4 DEF u

\* A call waits on a live record.
LEMMA JoinKeeps ==
  ASSUME NEW s \in TableType, NEW u \in TableType, NEW x, TableInv(s, x),
         NEW c \in Calls, NEW o \in Calls, c <= s.high, Asks(s.req[c]),
         Phase(s, o) \notin {"None", "Terminal"},
         SameCalls(s, u), SameQueues(s, u), SameBusy(s, u), SameWaits(s, u),
         u.retained = s.retained, u.others = s.others \cup {c},
         u.rec = [s.rec EXCEPT ![o].waiters = @ \cup {c}]
  PROVE  /\ TableInv(u, x)
         /\ \A d \in Calls : /\ Phase(u, d) = Phase(s, d)
                             /\ u.rec[d].outcome = s.rec[d].outcome
<1>1. s.rec \in [Calls -> RecordType] /\ s.rec[o] \in RecordType
  BY DEF TableType
<1>2. /\ \A d \in Calls \ {o} : u.rec[d] = s.rec[d]
      /\ u.rec[o] = [s.rec[o] EXCEPT !.waiters = @ \cup {c}]
  BY <1>1
<1>3. /\ u.rec[o].phase = s.rec[o].phase /\ u.rec[o].gate = s.rec[o].gate
      /\ u.rec[o].resolved = s.rec[o].resolved
      /\ u.rec[o].outcome = s.rec[o].outcome
      /\ u.rec[o].waiters = s.rec[o].waiters \cup {c}
  BY <1>1, <1>2 DEF RecordType
<1>4. /\ u.high = s.high /\ u.req = s.req /\ u.busy = s.busy
      /\ u.queue = s.queue /\ u.directQueue = s.directQueue
      /\ u.pending = s.pending
  BY DEF SameCalls, SameBusy, SameQueues
<1>5. \A d \in Calls : /\ Phase(u, d) = Phase(s, d)
                       /\ u.rec[d].outcome = s.rec[d].outcome
  BY <1>2, <1>3 DEF Phase
<1>6. RecordInv(u)
  <2> SUFFICES ASSUME NEW d \in Calls PROVE RecordInv(u)!(d)
    BY DEF RecordInv
  <2>1. CASE d = o
    BY <1>3, <1>4, <2>1 DEF TableInv, RecordInv, Phase
  <2>2. CASE d # o
    BY <1>2, <1>4, <2>2 DEF TableInv, RecordInv
  <2> QED
    BY <2>1, <2>2
<1>7. LinesInv(u)
  <2>1. s.queue \in Seq(Calls) /\ s.retained \in Seq(Calls)
    BY DEF TableType
  <2>2. /\ \A i \in 1 .. Len(s.queue) : Phase(u, s.queue[i]) = Phase(s, s.queue[i])
        /\ \A i \in 1 .. Len(s.retained) : Phase(u, s.retained[i]) = Phase(s, s.retained[i])
    BY <1>5, <2>1
  <2> QED
    BY <1>4, <2>2 DEF TableInv, LinesInv
<1>8. PlacedInv(u, x)
  BY <1>4, <1>5 DEF TableInv, PlacedInv
<1>9. BusyInv(u)
  <2>1. ASSUME NEW w, NEW k PROVE ClassOps(u, w, k) = ClassOps(s, w, k)
    BY <1>4, <1>5 DEF ClassOps
  <2> QED
    BY <1>4, <2>1 DEF TableInv, BusyInv
<1>10. WaitInv(u)
  <2>1. c \in u.rec[o].waiters
    BY <1>3
  <2>2. \A d \in Calls : s.rec[d].waiters \subseteq u.rec[d].waiters
    BY <1>2, <1>3
  <2> QED
    BY <2>1, <2>2 DEF TableInv, WaitInv, SameWaits
<1> QED
  BY <1>5, <1>6, <1>7, <1>8, <1>9, <1>10 DEF TableInv

\* A view is answered at once, or its request waits at a live record.
LEMMA ViewKeeps ==
  ASSUME NEW s \in TableType, TableInv(s, NoCall), NEW c \in Calls,
         c <= s.high, s.req[c].type \in {"Result", "Response"}
  PROVE  LET u == View(s, c) IN
         /\ u \in TableType /\ TableInv(u, NoCall)
         /\ SameCalls(s, u) /\ SameQueues(s, u) /\ SameBusy(s, u)
         /\ SameWaits(s, u)
         /\ \A d \in Calls : /\ Phase(u, d) = Phase(s, d)
                             /\ u.rec[d].outcome = s.rec[d].outcome
<1> DEFINE u == View(s, c)
           q == s.req[c]
           o == q.target
           v == ViewReply(c, o, q.type, s.rec[o].outcome)
           a == AnsweredOn(s, c)
           t == [a EXCEPT !.out = @ \cup {v}]
           j == [s EXCEPT !.rec[o].waiters = @ \cup {c}, !.others = @ \cup {c}]
<1>1. CASE ~Known(s, o)
  <2>1. u = Answer(s, c, "refused") /\ "refused" \in Says
    BY <1>1 DEF View, Says
  <2> HIDE DEF u
  <2> QED
    BY <2>1, AnswerKeeps DEF u, Phase
<1>2. CASE Known(s, o) /\ s.rec[o].outcome # "None"
  <2>1. u = t
    BY <1>2 DEF View
  <2>2. /\ a \in TableType
        /\ SameCalls(s, a) /\ SameQueues(s, a) /\ SameBusy(s, a)
        /\ SameWaits(s, a)
        /\ a.rec = s.rec /\ a.retained = s.retained /\ a.out = s.out
        /\ a.others = s.others \ {c}
    BY AnsweredOnEffect
  <2>3. v \in ReplyType
    <3>1. o \in Calls /\ s.rec[o].outcome \in Outcomes
      BY <1>2 DEF Known, TableType, RecordType
    <3>2. s.rec[o].outcome \in Says /\ q.type \in Views
      BY <3>1 DEF Says, Views
    <3> QED
      BY <3>1, <3>2 DEF ViewReply, ReplyType
  <2> HIDE DEF a, v, o, q
  <2>4. /\ t \in TableType
        /\ SameCalls(a, t) /\ SameQueues(a, t) /\ SameBusy(a, t)
        /\ SameWaits(a, t)
        /\ t.rec = a.rec /\ t.retained = a.retained /\ t.others = a.others
    BY <2>2, <2>3 DEF TableType, SameCalls, SameQueues, SameBusy, SameWaits
  <2> HIDE DEF t
  <2>5. /\ SameCalls(s, t) /\ SameQueues(s, t) /\ SameBusy(s, t)
        /\ SameWaits(s, t)
        /\ t.rec = s.rec /\ t.retained = s.retained
        /\ t.others = s.others \ {c}
    BY <2>2, <2>4 DEF SameCalls, SameQueues, SameBusy, SameWaits
  <2>6. TableInv(t, NoCall)
    BY <2>4, <2>5, QuietKeeps DEF SameRecords, SameCalls, SameBusy, SameWaits
  <2> QED
    BY <2>1, <2>4, <2>5, <2>6 DEF Phase
<1>3. CASE Known(s, o) /\ s.rec[o].outcome = "None"
  <2>1. u = j
    BY <1>3 DEF View
  <2>2. o \in Calls /\ Phase(s, o) \notin {"None", "Terminal"}
    BY <1>3 DEF Known, TableInv, RecordInv, Phase
  <2>3. [s.rec EXCEPT ![o].waiters = @ \cup {c}] \in [Calls -> RecordType]
    <3>1. s.rec \in [Calls -> RecordType] /\ s.rec[o] \in RecordType
      BY <2>2 DEF TableType
    <3>2. [s.rec[o] EXCEPT !.waiters = @ \cup {c}] \in RecordType
      BY <3>1 DEF RecordType
    <3> QED
      BY <2>2, <3>1, <3>2
  <2> HIDE DEF o
  <2>4. /\ j \in TableType
        /\ SameCalls(s, j) /\ SameQueues(s, j) /\ SameBusy(s, j)
        /\ SameWaits(s, j)
        /\ j.rec = [s.rec EXCEPT ![o].waiters = @ \cup {c}]
        /\ j.retained = s.retained /\ j.others = s.others \cup {c}
    BY <2>2, <2>3 DEF TableType, SameCalls, SameQueues, SameBusy, SameWaits
  <2>5. Asks(s.req[c])
    BY DEF Asks
  <2> HIDE DEF j, u
  <2>6. /\ TableInv(j, NoCall)
        /\ \A d \in Calls : /\ Phase(j, d) = Phase(s, d)
                            /\ j.rec[d].outcome = s.rec[d].outcome
    BY <2>2, <2>4, <2>5, JoinKeeps
  <2> QED
    BY <2>1, <2>4, <2>6 DEF u
<1> QED
  BY <1>1, <1>2, <1>3

\* A release discards terminal records only.
LEMMA ReleaseKeeps ==
  ASSUME NEW s \in TableType, TableInv(s, NoCall), NEW c \in Calls
  PROVE  LET u == Release(s, c) IN
         /\ u \in TableType /\ TableInv(u, NoCall)
         /\ SameCalls(s, u) /\ SameQueues(s, u) /\ SameBusy(s, u)
         /\ SameWaits(s, u)
         /\ \A d \in Calls : \/ u.rec[d] = s.rec[d]
                             \/ Phase(s, d) = "Terminal" /\ u.rec[d] = NoRecord
<1> DEFINE u == Release(s, c)
           o == s.req[c].target
           a == Answer(s, c, "released")
<1>0. "released" \in Says /\ "refused" \in Says
  BY DEF Says
<1>1. CASE ~Known(s, o) \/ Live(s, o)
  <2>1. u = Answer(s, c, "refused")
    BY <1>1 DEF Release
  <2> HIDE DEF u
  <2> QED
    BY <1>0, <2>1, AnswerKeeps DEF u
<1>2. CASE ~(~Known(s, o) \/ Live(s, o))
  <2>1. u = Discard(a, o)
    BY <1>2 DEF Release
  <2>2. o \in Calls /\ Phase(s, o) = "Terminal"
    BY <1>2 DEF Known, Live
  <2>3. /\ a \in TableType /\ TableInv(a, NoCall)
        /\ SameCalls(s, a) /\ SameQueues(s, a) /\ SameBusy(s, a)
        /\ SameWaits(s, a) /\ a.rec = s.rec /\ a.retained = s.retained
    BY <1>0, AnswerKeeps
  <2> HIDE DEF a, o
  <2>4. /\ u \in TableType
        /\ SameCalls(a, u) /\ SameQueues(a, u) /\ SameBusy(a, u)
        /\ SameWaits(a, u)
        /\ u.rec = [a.rec EXCEPT ![o] = NoRecord]
    BY <2>1, <2>2, <2>3, DiscardEffect
  <2>5. TableInv(u, NoCall)
    BY <2>1, <2>2, <2>3, DiscardKeeps DEF Phase
  <2> HIDE DEF u
  <2>6. s.rec \in [Calls -> RecordType]
    BY DEF TableType
  <2>7. /\ \A d \in Calls \ {o} : u.rec[d] = s.rec[d]
        /\ u.rec[o] = NoRecord
    BY <2>2, <2>3, <2>4, <2>6
  <2>8. SameCalls(s, u) /\ SameQueues(s, u) /\ SameBusy(s, u) /\ SameWaits(s, u)
    BY <2>3, <2>4 DEF SameCalls, SameQueues, SameBusy, SameWaits
  <2> QED
    BY <2>2, <2>4, <2>5, <2>7, <2>8 DEF u
<1> QED
  BY <1>1, <1>2

\* A record leaves the lines it may be in, on its way to be settled.
LEMMA LeaveKeeps ==
  ASSUME NEW s \in TableType, TableInv(s, NoCall), NEW o \in Calls
  PROVE  LET u == [s EXCEPT !.queue = Without(@, o),
                            !.directQueue = Without(@, o)] IN
         /\ u \in TableType /\ TableInv(u, o)
         /\ SameCalls(s, u) /\ SameBusy(s, u) /\ SameWaits(s, u)
         /\ u.rec = s.rec /\ u.pending = s.pending
<1> DEFINE p == Without(s.queue, o)
           q == Without(s.directQueue, o)
           u == [s EXCEPT !.queue = p, !.directQueue = q]
<1>0. /\ s.queue \in Seq(Calls) /\ s.directQueue \in Seq(Calls)
      /\ s.retained \in Seq(Calls)
  BY DEF TableType
<1>1. /\ p \in Seq(Calls)
      /\ \A j \in 1 .. Len(p) : InSeq(p[j], s.queue)
      /\ \A d \in Calls \ {o} : InSeq(d, s.queue) => InSeq(d, p)
      /\ \A i, j \in 1 .. Len(p) : i < j => p[i] < p[j]
  <2>1. \A i, j \in 1 .. Len(s.queue) : i < j => s.queue[i] < s.queue[j]
    BY DEF TableInv, LinesInv
  <2> HIDE DEF p
  <2> QED
    BY <1>0, <2>1, WithoutFacts DEF p
<1>2. /\ q \in Seq(Calls)
      /\ \A j \in 1 .. Len(q) : InSeq(q[j], s.directQueue)
      /\ \A d \in Calls \ {o} : InSeq(d, s.directQueue) => InSeq(d, q)
  BY <1>0, WithoutFacts
<1> HIDE DEF p, q
<1>3. /\ u \in TableType
      /\ SameCalls(s, u) /\ SameBusy(s, u) /\ SameWaits(s, u)
      /\ u.rec = s.rec /\ u.pending = s.pending /\ u.retained = s.retained
      /\ u.others = s.others /\ u.queue = p /\ u.directQueue = q
  BY <1>1, <1>2 DEF TableType, SameCalls, SameBusy, SameWaits
<1> HIDE DEF u
<1>4. /\ u.high = s.high /\ u.req = s.req /\ u.busy = s.busy
      /\ \A d \in Calls : Phase(u, d) = Phase(s, d)
  BY <1>3 DEF SameCalls, SameBusy, Phase
<1>5. RecordInv(u)
  BY <1>3, <1>4 DEF TableInv, RecordInv
<1>6. LinesInv(u)
  <2>1. ASSUME NEW i \in 1 .. Len(p)
        PROVE  /\ p[i] <= s.high /\ IsOperation(s.req[p[i]])
               /\ Phase(u, p[i]) \in {"None", "Queued", "Terminal"}
               /\ \A j \in 1 .. Len(s.pending) : p[i] < s.pending[j]
    <3>1. PICK j \in 1 .. Len(s.queue) : s.queue[j] = p[i]
      BY <1>1 DEF InSeq
    <3>2. p[i] \in Calls
      BY <1>1
    <3> QED
      BY <1>4, <3>1, <3>2 DEF TableInv, LinesInv
  <2>2. ASSUME NEW i \in 1 .. Len(q)
        PROVE  q[i] <= s.high /\ ~IsOperation(s.req[q[i]])
    <3>1. PICK j \in 1 .. Len(s.directQueue) : s.directQueue[j] = q[i]
      BY <1>2 DEF InSeq
    <3> QED
      BY <3>1 DEF TableInv, LinesInv
  <2>3. \A i \in 1 .. Len(s.retained) : Phase(u, s.retained[i]) = "Terminal"
    BY <1>0, <1>4 DEF TableInv, LinesInv
  <2> QED
    <3>1. LinesInv(s)
      BY DEF TableInv
    <3>2. /\ \A i \in 1 .. Len(s.pending) : s.pending[i] <= s.high
          /\ \A i, j \in 1 .. Len(s.pending) :
               i < j => s.pending[i] < s.pending[j]
          /\ \A i, j \in 1 .. Len(s.retained) :
               i < j => s.retained[i] # s.retained[j]
      BY <3>1 DEF LinesInv
    <3>3. u.queue = p /\ u.directQueue = q /\ u.pending = s.pending
          /\ u.retained = s.retained /\ u.high = s.high /\ u.req = s.req
      BY <1>3, <1>4
    <3>4. \A i, j \in 1 .. Len(p) : i < j => p[i] < p[j]
      BY <1>1
    <3> QED
      BY <2>1, <2>2, <2>3, <3>2, <3>3, <3>4 DEF LinesInv
<1>7. PlacedInv(u, o)
  BY <1>1, <1>2, <1>3, <1>4 DEF TableInv, PlacedInv, NoCall, Calls
<1>8. BusyInv(u)
  <2>1. ASSUME NEW w, NEW k PROVE ClassOps(u, w, k) = ClassOps(s, w, k)
    BY <1>4 DEF ClassOps
  <2> QED
    BY <1>4, <2>1 DEF TableInv, BusyInv
<1>9. WaitInv(u)
  BY <1>3 DEF TableInv, WaitInv, SameWaits
<1> QED
  BY <1>3, <1>5, <1>6, <1>7, <1>8, <1>9 DEF TableInv, u, p, q

\* A cancellation settles what has not started and cancels the token of what runs.
LEMMA CancelKeeps ==
  ASSUME NEW s \in TableType, TableInv(s, NoCall), NEW c \in Calls,
         c <= s.high, Control(s.req[c])
  PROVE  LET u == Cancel(s, c)
             o == s.req[c].target
         IN
         /\ u \in TableType /\ TableInv(u, NoCall)
         /\ SameCalls(s, u) /\ SameWaits(s, u) /\ u.pending = s.pending
         /\ u.directRunning = s.directRunning
         /\ IF CancelFinds(s, c) /\ Waiting(s, o)
            THEN /\ o \in Calls /\ Phase(u, o) \in {"None", "Terminal"}
                 /\ u.queue = Without(s.queue, o)
                 /\ \A d \in Calls \ {o} :
                      /\ Phase(u, d) = Phase(s, d)
                      /\ u.rec[d].outcome = s.rec[d].outcome
            ELSE /\ SameQueues(s, u) /\ SameBusy(s, u)
                 /\ \A d \in Calls :
                      /\ Phase(u, d) = Phase(s, d)
                      /\ u.rec[d].outcome = s.rec[d].outcome
<1> DEFINE u == Cancel(s, c)
           o == s.req[c].target
           j == [s EXCEPT !.rec[o].waiters = @ \cup {c},
                          !.others = @ \cup {c},
                          !.cancelled = @ \cup {o}]
           l == [j EXCEPT !.queue = Without(@, o),
                          !.directQueue = Without(@, o)]
<1>0. "refused" \in Says /\ "cleanup" \in Says
  BY DEF Says
<1>1. CASE ~CancelFinds(s, c)
  <2>1. u = Answer(s, c, "refused")
    BY <1>1 DEF Cancel
  <2> HIDE DEF u
  <2> QED
    BY <1>0, <1>1, <2>1, AnswerKeeps DEF u, Phase, SameBusy, SameQueues
<1>2. CASE CancelFinds(s, c) /\ Phase(s, o) = "Terminal"
  <2>1. u = Answer(s, c, "cleanup")
    BY <1>2 DEF Cancel
  <2>2. ~Waiting(s, o)
    BY <1>2 DEF Waiting
  <2> HIDE DEF u
  <2> QED
    BY <1>0, <2>1, <2>2, AnswerKeeps DEF u, Phase, SameBusy, SameQueues
<1>3. CASE CancelFinds(s, c) /\ Phase(s, o) # "Terminal"
  <2>1. o \in Calls /\ Phase(s, o) \notin {"None", "Terminal"}
    BY <1>3 DEF CancelFinds, Known
  <2>2. [s.rec EXCEPT ![o].waiters = @ \cup {c}] \in [Calls -> RecordType]
    <3>1. s.rec \in [Calls -> RecordType] /\ s.rec[o] \in RecordType
      BY <2>1 DEF TableType
    <3>2. [s.rec[o] EXCEPT !.waiters = @ \cup {c}] \in RecordType
      BY <3>1 DEF RecordType
    <3> QED
      BY <2>1, <3>1, <3>2
  <2>3. u = IF Waiting(s, o) THEN Settle(l, o, "Cancelled") ELSE j
    BY <1>3 DEF Cancel
  <2>4. Asks(s.req[c])
    BY DEF Asks
  <2> HIDE DEF u, o
  <2>5. /\ j \in TableType
        /\ SameCalls(s, j) /\ SameQueues(s, j) /\ SameBusy(s, j)
        /\ SameWaits(s, j)
        /\ j.rec = [s.rec EXCEPT ![o].waiters = @ \cup {c}]
        /\ j.retained = s.retained /\ j.others = s.others \cup {c}
    BY <2>1, <2>2 DEF TableType, SameCalls, SameQueues, SameBusy, SameWaits
  <2> HIDE DEF j
  <2>6. /\ TableInv(j, NoCall)
        /\ \A d \in Calls : /\ Phase(j, d) = Phase(s, d)
                            /\ j.rec[d].outcome = s.rec[d].outcome
    BY <2>1, <2>4, <2>5, JoinKeeps
  <2>7. CASE ~Waiting(s, o)
    BY <2>3, <2>5, <2>6, <2>7 DEF u, o, SameQueues, SameBusy
  <2>8. CASE Waiting(s, o)
    <3>1. /\ l \in TableType /\ TableInv(l, o)
          /\ SameCalls(j, l) /\ SameBusy(j, l) /\ SameWaits(j, l)
          /\ l.rec = j.rec /\ l.pending = j.pending
          /\ l.queue = Without(j.queue, o)
      <4>1. /\ l \in TableType /\ TableInv(l, o)
            /\ SameCalls(j, l) /\ SameBusy(j, l) /\ SameWaits(j, l)
            /\ l.rec = j.rec /\ l.pending = j.pending
        BY <2>1, <2>5, <2>6, LeaveKeeps
      <4>2. l.queue = Without(j.queue, o)
        BY <2>5 DEF TableType
      <4> QED
        BY <4>1, <4>2
    <3> HIDE DEF l
    <3>2. "Cancelled" \in Outcomes \ {"None"} /\ "Cancelled" \in Outcomes
      BY DEF Outcomes
    <3>3. u = Settle(l, o, "Cancelled")
      BY <2>3, <2>8
    <3>4. /\ u \in TableType /\ TableInv(u, NoCall)
          /\ SameCalls(l, u) /\ SameQueues(l, u) /\ SameWaits(l, u)
          /\ u.directRunning = l.directRunning
          /\ \A d \in Calls \ {o} : u.rec[d] = l.rec[d]
          /\ Phase(u, o) \in {"None", "Terminal"}
      BY <2>1, <3>1, <3>2, <3>3, SettleLeaves
    <3>9. \A d \in Calls \ {o} : /\ Phase(u, d) = Phase(s, d)
                                 /\ u.rec[d].outcome = s.rec[d].outcome
      BY <2>6, <3>1, <3>4 DEF Phase
    <3>10. /\ SameCalls(s, u) /\ SameWaits(s, u) /\ u.pending = s.pending
           /\ u.directRunning = s.directRunning
           /\ u.queue = Without(s.queue, o)
      BY <2>5, <3>1, <3>4 DEF SameCalls, SameWaits, SameQueues, SameBusy
    <3> QED
      BY <1>3, <2>1, <2>8, <3>4, <3>9, <3>10 DEF u, o
  <2> QED
    BY <2>7, <2>8
<1> QED
  BY <1>1, <1>2, <1>3

\* Marking what a batch delivers changes no record's phase.
LEMMA MarkDeliveredKeeps ==
  ASSUME NEW s \in TableType, TableInv(s, NoCall), NEW b, b \subseteq ReplyType
  PROVE  LET u == MarkDelivered(s, b) IN
         /\ u \in TableType /\ TableInv(u, NoCall)
         /\ SameCalls(s, u) /\ SameQueues(s, u) /\ SameBusy(s, u)
         /\ SameWaits(s, u) /\ u.others = s.others
         /\ \A d \in Calls : /\ Phase(u, d) = Phase(s, d)
                             /\ u.rec[d].outcome = s.rec[d].outcome
<1> DEFINE u == MarkDelivered(s, b)
           views(c) == s.rec[c].views \cup {r.view : r \in {q \in b : q.owner = c}}
           f == [c \in Calls |-> IF Phase(s, c) = "None" THEN s.rec[c]
                                 ELSE [s.rec[c] EXCEPT !.views = views(c)]]
<1>1. u = [s EXCEPT !.rec = f]
  <2>1. \A c \in Calls : s.rec[c] \in RecordType
    BY DEF TableType
  <2> QED
    BY <2>1 DEF MarkDelivered, RecordType
<1>2. ASSUME NEW c \in Calls
      PROVE  /\ f[c] \in RecordType
             /\ f[c].phase = s.rec[c].phase /\ f[c].gate = s.rec[c].gate
             /\ f[c].resolved = s.rec[c].resolved
             /\ f[c].outcome = s.rec[c].outcome
             /\ f[c].waiters = s.rec[c].waiters
  <2>1. s.rec[c] \in RecordType
    BY DEF TableType
  <2>2. views(c) \subseteq Views
    BY <2>1 DEF RecordType, ReplyType
  <2> HIDE DEF views
  <2> QED
    BY <2>1, <2>2 DEF RecordType
<1>3. f \in [Calls -> RecordType]
  BY <1>2
<1> HIDE DEF f, u
<1>4. /\ u \in TableType
      /\ SameCalls(s, u) /\ SameQueues(s, u) /\ SameBusy(s, u)
      /\ SameWaits(s, u) /\ u.rec = f /\ u.retained = s.retained
      /\ u.others = s.others
  BY <1>1, <1>3 DEF TableType, SameCalls, SameQueues, SameBusy, SameWaits
<1>5. SameRecords(s, u)
  BY <1>2, <1>4 DEF SameRecords
<1>6. TableInv(u, NoCall)
  BY <1>4, <1>5, QuietKeeps DEF SameCalls, SameBusy, SameWaits
<1> QED
  BY <1>4, <1>5, <1>6 DEF SameRecords, Phase, u

-----------------------------------------------------------------------------
(* The service's inductive invariant. *)

AllStages == ReaderStages \cup AdmissionStages \cup ReadStages
               \cup CloserStages \cup WorkerStages

StageTypes ==
  /\ stage \in [Threads -> AllStages]
  /\ stage[Reader] \in ReaderStages /\ stage[Admission] \in AdmissionStages
  /\ stage[Reads] \in ReadStages /\ stage[Closer] \in CloserStages
  /\ \A c \in Calls : stage[c] \in WorkerStages

ScanType == [i : Nat, blocked : SUBSET Workspaces, clear : BOOLEAN]

ServiceTypes ==
  /\ tbl \in TableType /\ tbl.high <= MaxCall
  /\ lock \in Threads \cup {NoThread}
  /\ scan \in ScanType
  /\ StageTypes
  /\ batch \in [Threads -> SUBSET ReplyType]
  /\ incoming \in Requests
  /\ admitting \in [call : Calls \cup {NoCall}, cancelled : BOOLEAN]
  /\ result \in [Calls -> Outcomes]
  /\ after \in {"wait", "spools", "drain"} /\ replies \in BOOLEAN
  /\ recorded \subseteq Calls /\ foreign \subseteq Workspaces

\* A worker's stage and the record of its call go together, but for a handler
\* the close has revoked.
ThreadInv ==
  \A c \in Calls :
    /\ stage[c] # "none" => c <= tbl.high
    /\ Phase(tbl, c) \in {"Received", "Queued", "DirectWaiting"} =>
         stage[c] = "none"
    /\ Phase(tbl, c) = "Running" => stage[c] \in {"run", "reported"}
    /\ stage[c] = "run" => Phase(tbl, c) = "Running" \/ c \in tbl.revoked
    /\ stage[c] = "reported" => result[c] \in Returns
    /\ c \in tbl.revoked => Phase(tbl, c) \in {"None", "Terminal"}

\* The close has settled what had not started.
Late == stage[Closer] \notin {"none", "start", "settle"}

\* The close goes on from what it has settled.
CloseInv ==
  /\ (stage[Closer] # "none") <=> tbl.closeStarted
  /\ tbl.closeStarted <=> tbl.closing
  /\ Late => NotStarted(tbl) = {}
  /\ tbl.revoked # {} => Late

\* Nobody waits for a report the close will not make.
ReaderInv ==
  /\ replies => tbl.closeStarted
  /\ tbl.closeStarted /\ ~replies => stage[Reader] \in {"inline", "gone"}
  /\ tbl.closers # {} /\ ~replies => stage[Reader] = "close"
  /\ stage[Reader] \in {"popped", "counted"} => tbl.high < MaxCall
  /\ stage[Reader] = "spool" => tbl.high # 0

\* The thread whose loop goes on holds the table lock.
Holds(t) ==
  \/ stage[t] = "sched"
  \/ t = Closer /\ stage[t] \in {"settle", "detach"}
LockInv == \A t \in Threads : (lock = t) <=> Holds(t)

\* A received call is with the admission thread, in the order of the calls.
PendingInv ==
  /\ \A c \in Calls : Phase(tbl, c) = "Received" =>
       \/ InSeq(c, tbl.pending)
       \/ stage[Admission] = "resolve" /\ admitting.call = c
       \/ stage[Closer] = "settle"
  /\ stage[Admission] = "resolve" =>
       /\ admitting.call \in Calls /\ admitting.call <= tbl.high
       /\ \A i \in 1 .. Len(tbl.queue) : tbl.queue[i] < admitting.call
       /\ \A j \in 1 .. Len(tbl.pending) : admitting.call < tbl.pending[j]

QueuedAt(s, i) == s.req[s.queue[i]]

\* The operation at place `i` cannot start.
Stuck(s, i) ==
  \/ ~Admits(s.busy[QueuedAt(s, i).ws], QueuedAt(s, i).class)
  \/ \E j \in 1 .. i - 1 : QueuedAt(s, j).ws = QueuedAt(s, i).ws

\* `schedule` has passed only operations that cannot start.
ScanInv ==
  lock \notin {NoThread, Closer} =>
    /\ scan.i \in 1 .. Len(tbl.queue) + 1
    /\ scan.blocked = {QueuedAt(tbl, j).ws : j \in 1 .. scan.i - 1}
    /\ \A j \in 1 .. scan.i - 1 : Stuck(tbl, j)

\* Outside the table lock nothing waits that could start.
StartInv ==
  /\ tbl.directRunning <= DirectLimit
  /\ Free /\ ~tbl.closing =>
       /\ tbl.directQueue # <<>> => tbl.directRunning = DirectLimit
       /\ tbl.running < RunningLimit =>
            \A i \in 1 .. Len(tbl.queue) : Stuck(tbl, i)

ServiceInv ==
  /\ ServiceTypes /\ TableInv(tbl, NoCall)
  /\ ThreadInv /\ CloseInv /\ ReaderInv /\ LockInv /\ PendingInv
  /\ ScanInv /\ StartInv /\ ClassExclusion

-----------------------------------------------------------------------------
(* What a step may do, beside keeping the invariant. *)

\* A settled record's outcome stays.
OutcomeStep ==
  \A c \in Calls :
    Phase(tbl, c) = "Terminal" /\ Phase(tbl', c) # "None" =>
      tbl'.rec[c].outcome = tbl.rec[c].outcome

\* A call that starts was waiting; if it is an operation, no earlier one of
\* its workspace was.
StartStep ==
  \A c \in Calls :
    Starts(c) =>
      /\ Phase(tbl, c) \in {"Queued", "DirectWaiting"}
      /\ IsOperation(tbl.req[c]) =>
           \A d \in Calls : d < c /\ Phase(tbl, d) = "Queued" =>
             tbl.req[d].ws # tbl.req[c].ws

StepOK == OutcomeStep /\ StartStep

\* A step that moves no call on, at most forgetting settled ones.
Calm(s, u) ==
  /\ s.high <= u.high
  /\ \A d \in Calls : d <= s.high => u.req[d] = s.req[d]
  /\ SameQueues(s, u) /\ SameBusy(s, u)
  /\ u.closing = s.closing /\ u.closeStarted = s.closeStarted
  /\ u.revoked = s.revoked
  /\ \A d \in Calls :
       \/ Phase(u, d) = Phase(s, d) /\ u.rec[d].outcome = s.rec[d].outcome
       \/ Phase(s, d) = "Terminal" /\ Phase(u, d) = "None"

CalmStages ==
  /\ \A c \in Calls :
       \/ stage'[c] = stage[c]
       \/ /\ stage[c] \notin {"none", "run", "reported"}
          /\ stage'[c] \notin {"none", "run", "reported"}
  /\ \/ stage'[Admission] = "resolve" <=> stage[Admission] = "resolve"
     \/ /\ stage[Admission] = "resolve" /\ stage'[Admission] # "resolve"
        /\ Phase(tbl, admitting.call) # "Received"
  /\ \/ stage'[Closer] = stage[Closer]
     \/ /\ stage[Closer] \notin {"none", "start", "settle"}
        /\ stage'[Closer] \notin {"none", "start", "settle"}

\* Calm tables keep what the queue keeps waiting.
LEMMA StuckKept ==
  ASSUME NEW s \in TableType, TableInv(s, NoCall), NEW u \in TableType,
         Calm(s, u), NEW i \in 1 .. Len(s.queue)
  PROVE  Stuck(u, i) <=> Stuck(s, i)
<1>0. s.queue \in Seq(Calls) /\ u.queue = s.queue /\ u.busy = s.busy
  BY DEF TableType, Calm, SameQueues, SameBusy
<1>1. \A j \in 1 .. Len(s.queue) : QueuedAt(u, j) = QueuedAt(s, j)
  BY <1>0 DEF QueuedAt, Calm, TableInv, LinesInv
<1>2. i \in Nat /\ \A j \in 1 .. i - 1 : j \in 1 .. Len(s.queue)
  BY <1>0
<1> QED
  BY <1>0, <1>1, <1>2 DEF Stuck

\* A step that leaves phases, queues and counts, and moves threads only where it is
\* harmless, keeps the invariant and starts nothing.
LEMMA CalmStep ==
  ASSUME ServiceInv, ServiceTypes', TableInv(tbl', NoCall), Calm(tbl, tbl'),
         CalmStages, LockInv', ReaderInv',
         \/ lock' = lock /\ scan' = scan
         \/ tbl.closing /\ lock' \in {NoThread, Closer},
         admitting' = admitting, result' = result
  PROVE  ServiceInv' /\ StepOK
<1>0. tbl \in TableType /\ tbl' \in TableType /\ TableInv(tbl, NoCall)
  BY DEF ServiceInv, ServiceTypes
<1>a. tbl.queue \in Seq(Calls) /\ tbl.pending \in Seq(Calls)
      /\ tbl.high \in Nat /\ tbl'.high \in Nat
  BY <1>0 DEF TableType
<1>b. tbl'.queue = tbl.queue /\ tbl'.pending = tbl.pending
      /\ tbl'.directQueue = tbl.directQueue /\ tbl'.busy = tbl.busy
      /\ tbl'.running = tbl.running /\ tbl'.directRunning = tbl.directRunning
      /\ tbl'.closing = tbl.closing /\ tbl'.closeStarted = tbl.closeStarted
      /\ tbl'.revoked = tbl.revoked /\ tbl.high <= tbl'.high
  BY DEF Calm, SameQueues, SameBusy
<1>c. \A d \in Calls : \/ Phase(tbl', d) = Phase(tbl, d)
                       \/ Phase(tbl, d) = "Terminal" /\ Phase(tbl', d) = "None"
  BY DEF Calm
<1>1. ThreadInv'
  <2> SUFFICES ASSUME NEW c \in Calls PROVE (ThreadInv!(c))'
    BY DEF ThreadInv
  <2>1. ThreadInv!(c)
    BY DEF ServiceInv, ThreadInv
  <2>2. c \in Nat
    BY CallsNat
  <2> QED
    BY <1>a, <1>b, <1>c, <2>1, <2>2 DEF CalmStages
<1>2. CloseInv'
  <2>1. CloseInv
    BY DEF ServiceInv
  <2>2. NotStarted(tbl') \subseteq NotStarted(tbl)
    BY <1>c DEF NotStarted
  <2> QED
    BY <1>b, <2>1, <2>2 DEF CloseInv, Late, CalmStages
<1>3. PendingInv'
  <2>1. PendingInv
    BY DEF ServiceInv
  <2>2. \A c \in Calls : Phase(tbl', c) = "Received" => Phase(tbl, c) = "Received"
    BY <1>c
  <2>3. (stage[Closer] = "settle") => (stage'[Closer] = "settle")
    BY DEF CalmStages
  <2>4. stage'[Admission] = "resolve" => stage[Admission] = "resolve"
    BY DEF CalmStages
  <2>5. stage[Admission] = "resolve" /\ Phase(tbl, admitting.call) = "Received"
          => stage'[Admission] = "resolve"
    BY DEF CalmStages
  <2>6. \A c \in Calls : InSeq(c, tbl'.pending) <=> InSeq(c, tbl.pending)
    BY <1>b DEF InSeq
  <2>7. \A c \in Calls : Phase(tbl', c) = "Received" =>
          \/ InSeq(c, tbl'.pending)
          \/ stage'[Admission] = "resolve" /\ admitting'.call = c
          \/ stage'[Closer] = "settle"
    BY <2>1, <2>2, <2>3, <2>5, <2>6 DEF PendingInv
  <2>8. stage'[Admission] = "resolve" =>
       /\ admitting'.call \in Calls /\ admitting'.call <= tbl'.high
       /\ \A i \in 1 .. Len(tbl'.queue) : tbl'.queue[i] < admitting'.call
       /\ \A j \in 1 .. Len(tbl'.pending) : admitting'.call < tbl'.pending[j]
    <3> SUFFICES ASSUME stage'[Admission] = "resolve"
                 PROVE  /\ admitting.call \in Calls /\ admitting.call <= tbl'.high
                        /\ \A i \in 1 .. Len(tbl.queue) :
                             tbl.queue[i] < admitting.call
                        /\ \A j \in 1 .. Len(tbl.pending) :
                             admitting.call < tbl.pending[j]
      BY <1>b
    <3>1. admitting.call \in Calls /\ admitting.call <= tbl.high
      BY <2>1, <2>4 DEF PendingInv
    <3>2. admitting.call <= tbl'.high
      BY <1>a, <1>b, <3>1, CallsNat
    <3> QED
      BY <2>1, <2>4, <3>1, <3>2 DEF PendingInv
  <2> QED
    BY <2>7, <2>8 DEF PendingInv
<1>4. \A i \in 1 .. Len(tbl.queue) : Stuck(tbl', i) <=> Stuck(tbl, i)
  BY <1>0, StuckKept
<1>5. \A j \in 1 .. Len(tbl.queue) : QueuedAt(tbl', j) = QueuedAt(tbl, j)
  BY <1>0, <1>a, <1>b DEF QueuedAt, Calm, TableInv, LinesInv
<1>6. ScanInv'
  <2>1. CASE lock' \in {NoThread, Closer}
    BY <2>1 DEF ScanInv
  <2>2. CASE lock' = lock /\ scan' = scan /\ lock \notin {NoThread, Closer}
    <3>1. /\ scan.i \in 1 .. Len(tbl.queue) + 1
          /\ scan.blocked = {QueuedAt(tbl, j).ws : j \in 1 .. scan.i - 1}
          /\ \A j \in 1 .. scan.i - 1 : Stuck(tbl, j)
      BY <2>2 DEF ServiceInv, ScanInv
    <3>2. \A j \in 1 .. scan.i - 1 : j \in 1 .. Len(tbl.queue)
      BY <1>a, <3>1
    <3>3. {QueuedAt(tbl', j).ws : j \in 1 .. scan.i - 1}
            = {QueuedAt(tbl, j).ws : j \in 1 .. scan.i - 1}
      BY <1>5, <3>2
    <3>4. \A j \in 1 .. scan.i - 1 : Stuck(tbl', j)
      BY <1>4, <3>1, <3>2
    <3> QED
      BY <1>b, <2>2, <3>1, <3>3, <3>4 DEF ScanInv
  <2> QED
    BY <2>1, <2>2
<1>7. StartInv'
  <2>1. StartInv
    BY DEF ServiceInv
  <2>2. Free' /\ ~tbl.closing => Free
    BY DEF Free
  <2>3. Free' /\ ~tbl'.closing =>
       /\ tbl'.directQueue # <<>> => tbl'.directRunning = DirectLimit
       /\ tbl'.running < RunningLimit =>
            \A i \in 1 .. Len(tbl'.queue) : Stuck(tbl', i)
    BY <1>b, <1>4, <2>1, <2>2 DEF StartInv
  <2> QED
    BY <1>b, <2>1, <2>3 DEF StartInv
<1>8. \A c \in Calls : stage'[c] = "run" => stage[c] = "run"
  BY DEF CalmStages
<1>9. ClassExclusion'
  <2>1. \A c \in Calls : stage[c] = "run" => tbl'.req[c] = tbl.req[c]
    BY DEF ServiceInv, ThreadInv, Calm
  <2> QED
    BY <1>8, <2>1 DEF ServiceInv, ClassExclusion, Executing
<1>10. StepOK
  <2>1. OutcomeStep
    BY DEF Calm, OutcomeStep
  <2>2. StartStep
    BY <1>8 DEF StartStep, Starts
  <2> QED
    BY <2>1, <2>2 DEF StepOK
<1> QED
  BY <1>0, <1>1, <1>2, <1>3, <1>6, <1>7, <1>9, <1>10 DEF ServiceInv

\* The session's own threads are apart from the workers.
LEMMA ThreadsApart ==
  /\ Reader \in Threads /\ Admission \in Threads /\ Reads \in Threads
  /\ Closer \in Threads /\ NoThread \notin Threads
  /\ {Reader, Admission, Reads, Closer} \cap Calls = {}
  /\ Reader # Admission /\ Reader # Reads /\ Reader # Closer
  /\ Admission # Reads /\ Admission # Closer /\ Reads # Closer
  /\ Calls \subseteq Threads
  /\ Threads = Calls \cup {Reader, Admission, Reads, Closer}
  /\ NoThread \notin {Reader, Admission, Reads, Closer} \cup Calls
  BY LimitsAssumption
     DEF Reader, Admission, Reads, Closer, NoThread, Threads, Calls

\* A thread goes on between stages no other thread waits for.
Plain(t, from, to) ==
  /\ from # "sched" /\ to # "sched"
  /\ t = Reader => to \in ReaderStages
  /\ t = Admission => /\ to \in AdmissionStages
                      /\ from # "resolve" /\ to # "resolve"
  /\ t = Reads => to \in ReadStages
  /\ t = Closer => /\ to \in CloserStages
                   /\ from \notin {"none", "start", "settle", "detach"}
                   /\ to \notin {"none", "start", "settle", "detach"}
  /\ t \in Calls => /\ to \in WorkerStages
                    /\ from \notin {"none", "run", "reported"}
                    /\ to \notin {"none", "run", "reported"}

\* A thread that goes to a stage of its own keeps the stages well typed.
LEMMA GotoTypes ==
  ASSUME ServiceInv, NEW t \in Threads, NEW label, Goto(t, label),
         t = Reader => label \in ReaderStages,
         t = Admission => label \in AdmissionStages,
         t = Reads => label \in ReadStages,
         t = Closer => label \in CloserStages,
         t \in Calls => label \in WorkerStages
  PROVE  /\ StageTypes' /\ stage'[t] = label
         /\ \A u \in Threads \ {t} : stage'[u] = stage[u]
<1>1. stage \in [Threads -> AllStages]
  BY DEF ServiceInv, ServiceTypes, StageTypes
<1>2. label \in AllStages
  BY ThreadsApart DEF AllStages
<1>3. /\ stage' \in [Threads -> AllStages] /\ stage'[t] = label
      /\ \A u \in Threads \ {t} : stage'[u] = stage[u]
  BY <1>1, <1>2 DEF Goto
<1>4. StageTypes
  BY DEF ServiceInv, ServiceTypes
<1> QED
  BY <1>3, <1>4, ThreadsApart DEF StageTypes

\* A plain move of one thread is a harmless one.
LEMMA PlainStage ==
  ASSUME ServiceInv, NEW t \in Threads, NEW label, Goto(t, label),
         Plain(t, stage[t], label), lock' = lock
  PROVE  /\ StageTypes' /\ CalmStages /\ LockInv' /\ stage'[t] = label
         /\ \A u \in Threads \ {t} : stage'[u] = stage[u]
<1>1. /\ StageTypes' /\ stage'[t] = label
      /\ \A u \in Threads \ {t} : stage'[u] = stage[u]
  BY GotoTypes DEF Plain
<1>2. CalmStages
  BY <1>1, ThreadsApart DEF Plain, CalmStages
<1>3. LockInv'
  <2> SUFFICES ASSUME NEW u \in Threads PROVE (lock' = u) <=> Holds(u)'
    BY DEF LockInv
  <2>1. (lock = u) <=> Holds(u)
    BY DEF ServiceInv, LockInv
  <2>2. Holds(u)' <=> Holds(u)
    BY <1>1, ThreadsApart DEF Plain, Holds
  <2> QED
    BY <2>1, <2>2
<1> QED
  BY <1>1, <1>2, <1>3

\* So is no move.
LEMMA SameStage ==
  ASSUME ServiceInv, stage' = stage, lock' = lock
  PROVE  StageTypes' /\ CalmStages /\ LockInv'
<1>1. StageTypes /\ LockInv
  BY DEF ServiceInv, ServiceTypes
<1>2. StageTypes'
  BY <1>1 DEF StageTypes
<1>3. LockInv'
  BY <1>1 DEF LockInv, Holds
<1> QED
  BY <1>2, <1>3 DEF CalmStages

\* A table is calm beside itself.
LEMMA CalmSame == ASSUME NEW s, s.high \in Nat PROVE Calm(s, s)
  BY DEF Calm, SameQueues, SameBusy

\* A thread goes on, and the table stays as it is.
LEMMA IdleStep ==
  ASSUME ServiceInv, NEW t \in Threads, NEW label, Goto(t, label),
         Plain(t, stage[t], label), UNCHANGED <<tbl, lock, scan, admitting, result>>,
         batch' \in [Threads -> SUBSET ReplyType], incoming' \in Requests,
         after' \in {"wait", "spools", "drain"}, replies' = replies,
         recorded' \subseteq Calls, foreign' \subseteq Workspaces,
         ReaderInv'
  PROVE  ServiceInv' /\ StepOK
<1>1. StageTypes' /\ CalmStages /\ LockInv'
  BY PlainStage
<1>2. ServiceTypes'
  BY <1>1 DEF ServiceInv, ServiceTypes
<1>3. TableInv(tbl', NoCall)
  BY DEF ServiceInv
<1>4. Calm(tbl, tbl')
  <2>1. tbl.high \in Nat
    BY DEF ServiceInv, ServiceTypes, TableType
  <2> QED
    BY <2>1, CalmSame
<1> QED
  BY <1>1, <1>2, <1>3, <1>4, CalmStep

\* The same, of a step that moves no thread.
LEMMA StillStep ==
  ASSUME ServiceInv,
         UNCHANGED <<tbl, lock, scan, stage, admitting, result, incoming,
                     closeVars, recorded>>,
         batch' \in [Threads -> SUBSET ReplyType], foreign' \subseteq Workspaces
  PROVE  ServiceInv' /\ StepOK
<1>1. StageTypes' /\ CalmStages /\ LockInv'
  BY SameStage
<1>2. ServiceTypes'
  BY <1>1 DEF ServiceInv, ServiceTypes, closeVars
<1>3. TableInv(tbl', NoCall)
  BY DEF ServiceInv
<1>4. Calm(tbl, tbl')
  <2>1. tbl.high \in Nat
    BY DEF ServiceInv, ServiceTypes, TableType
  <2> QED
    BY <2>1, CalmSame
<1>5. ReaderInv'
  <2>1. ReaderInv
    BY DEF ServiceInv
  <2> QED
    BY <2>1 DEF ReaderInv, closeVars
<1> QED
  BY <1>1, <1>2, <1>3, <1>4, <1>5, CalmStep

\* Two tables that differ in nothing the invariant is about.
Same(s, u) ==
  /\ SameCalls(s, u) /\ SameQueues(s, u) /\ SameBusy(s, u) /\ SameWaits(s, u)
  /\ u.rec = s.rec /\ u.retained = s.retained /\ u.others = s.others

\* A table that differs in counters and batch only keeps the invariant.
LEMMA SameKeeps ==
  ASSUME NEW s \in TableType, NEW u \in TableType, NEW x, TableInv(s, x),
         Same(s, u)
  PROVE  TableInv(u, x) /\ Calm(s, u)
<1>1. SameRecords(s, u)
  BY DEF Same, SameRecords
<1>2. TableInv(u, x)
  BY <1>1, QuietKeeps DEF Same, SameCalls, SameBusy, SameWaits
<1>3. s.high \in Nat
  BY DEF TableType
<1>4. Calm(s, u)
  BY <1>3 DEF Same, Calm, SameCalls, Phase
<1> QED
  BY <1>2, <1>4

\* Recounting the batches changes nothing else,
LEMMA Recounted ==
  ASSUME NEW s \in TableType, NEW n \in Nat
  PROVE  LET u == [s EXCEPT !.unflushed = n] IN
         u \in TableType /\ Same(s, u) /\ u.out = s.out
  BY DEF TableType, Same, SameCalls, SameQueues, SameBusy, SameWaits

\* and neither does handing the batch out.
LEMMA HandedOut ==
  ASSUME NEW s \in TableType
  PROVE  LET u == [s EXCEPT !.out = {}] IN u \in TableType /\ Same(s, u)
  BY DEF TableType, Same, SameCalls, SameQueues, SameBusy, SameWaits

\* Calm changes compose.
LEMMA CalmThen ==
  ASSUME NEW s \in TableType, NEW u \in TableType, NEW v \in TableType,
         Calm(s, u), Calm(u, v)
  PROVE  Calm(s, v)
<1>1. s.high \in Nat /\ u.high \in Nat /\ v.high \in Nat
  BY DEF TableType
<1>2. s.high <= v.high
  BY <1>1 DEF Calm
<1>3. \A d \in Calls : d <= s.high => d <= u.high
  BY <1>1, CallsNat DEF Calm
<1>4. \A d \in Calls : d <= s.high => v.req[d] = s.req[d]
  BY <1>3 DEF Calm
<1>5. \A d \in Calls :
       \/ Phase(v, d) = Phase(s, d) /\ v.rec[d].outcome = s.rec[d].outcome
       \/ Phase(s, d) = "Terminal" /\ Phase(v, d) = "None"
  BY DEF Calm
<1>6. /\ SameQueues(s, v) /\ SameBusy(s, v)
      /\ v.closing = s.closing /\ v.closeStarted = s.closeStarted
      /\ v.revoked = s.revoked
  BY DEF Calm, SameQueues, SameBusy
<1> QED
  BY <1>2, <1>4, <1>5, <1>6 DEF Calm

\* What the reading thread knows of the close stays true.
LEMMA ReaderKept ==
  ASSUME ServiceInv, stage'[Reader] = stage[Reader], replies' = replies,
         tbl'.closeStarted = tbl.closeStarted, tbl'.closers \subseteq tbl.closers,
         tbl'.high = tbl.high
  PROVE  ReaderInv'
<1>1. ReaderInv
  BY DEF ServiceInv
<1> QED
  BY <1>1 DEF ReaderInv

\* The reading thread goes on after a section that changed nothing but a calm table.
LEMMA ReaderMoves ==
  ASSUME ServiceInv, stage[Reader] \notin {"inline", "gone", "close"},
         replies' = replies, tbl'.closeStarted = tbl.closeStarted,
         tbl'.closers = tbl.closers,
         stage'[Reader] \in {"popped", "counted"} => tbl'.high < MaxCall,
         stage'[Reader] # "spool"
  PROVE  ReaderInv'
<1>1. ReaderInv
  BY DEF ServiceInv
<1> QED
  BY <1>1 DEF ReaderInv

\* A thread goes on with a table that moved no call on.
LEMMA CalmGoto ==
  ASSUME ServiceInv, NEW t \in Threads, NEW label, Goto(t, label),
         Plain(t, stage[t], label), lock' = lock, scan' = scan,
         tbl' \in TableType, TableInv(tbl', NoCall), Calm(tbl, tbl'),
         tbl'.high <= MaxCall, batch' \in [Threads -> SUBSET ReplyType],
         after' \in {"wait", "spools", "drain"}, replies' = replies,
         UNCHANGED <<incoming, admitting, result, hostVars>>, ReaderInv'
  PROVE  ServiceInv' /\ StepOK
<1>1. StageTypes' /\ CalmStages /\ LockInv'
  BY PlainStage
<1>2. ServiceTypes'
  BY <1>1 DEF ServiceInv, ServiceTypes, hostVars
<1> QED
  BY <1>1, <1>2, CalmStep

\* A section ends with a table that moved no call on.
LEMMA CalmUnlock ==
  ASSUME ServiceInv, Free, NEW t \in Threads, NEW label, NEW s \in TableType,
         Unlock(t, s, label), Plain(t, stage[t], label),
         TableInv(s, NoCall), Calm(tbl, s), s.high <= MaxCall, scan' = scan,
         after' \in {"wait", "spools", "drain"}, replies' = replies,
         UNCHANGED <<incoming, admitting, result, hostVars>>, ReaderInv'
  PROVE  ServiceInv' /\ StepOK
<1>0. tbl \in TableType
  BY DEF ServiceInv, ServiceTypes
<1>1. /\ tbl' = [s EXCEPT !.out = {}] /\ batch' = [batch EXCEPT ![t] = s.out]
      /\ lock' = lock /\ Goto(t, label)
  BY DEF Unlock, Free
<1>2. tbl' \in TableType /\ Same(s, tbl')
  BY <1>1, HandedOut
<1>3. TableInv(tbl', NoCall) /\ Calm(s, tbl')
  BY <1>2, SameKeeps
<1>4. Calm(tbl, tbl')
  BY <1>0, <1>2, <1>3, CalmThen
<1>5. batch' \in [Threads -> SUBSET ReplyType]
  <2>1. s.out \subseteq ReplyType
    BY DEF TableType
  <2> QED
    BY <1>1, <2>1 DEF ServiceInv, ServiceTypes
<1>6. tbl'.high <= MaxCall
  BY <1>2 DEF Same, SameCalls
<1> QED
  BY <1>1, <1>2, <1>3, <1>4, <1>5, <1>6, CalmGoto

-----------------------------------------------------------------------------
(* The flush. *)

\* `flush` marks the views its batch delivers.
LEMMA FlushMarkStep ==
  ASSUME ServiceInv, NEW t \in Threads, FlushMark(t)
  PROVE  ServiceInv' /\ StepOK
<1>0. tbl \in TableType /\ TableInv(tbl, NoCall) /\ tbl.high <= MaxCall
      /\ batch \in [Threads -> SUBSET ReplyType]
      /\ after \in {"wait", "spools", "drain"}
  BY DEF ServiceInv, ServiceTypes
<1>1. batch[t] \subseteq ReplyType
  BY <1>0
<1>2. tbl' = MarkDelivered(tbl, batch[t])
  BY DEF FlushMark
<1>3. /\ tbl' \in TableType /\ TableInv(tbl', NoCall)
      /\ SameCalls(tbl, tbl') /\ SameQueues(tbl, tbl') /\ SameBusy(tbl, tbl')
      /\ SameWaits(tbl, tbl')
      /\ \A d \in Calls : /\ Phase(tbl', d) = Phase(tbl, d)
                          /\ tbl'.rec[d].outcome = tbl.rec[d].outcome
  BY <1>0, <1>1, <1>2, MarkDeliveredKeeps
<1>4. tbl.high \in Nat
  BY <1>0 DEF TableType
<1>5. Calm(tbl, tbl')
  BY <1>3, <1>4 DEF Calm, SameCalls
<1>6. Goto(t, "send") /\ Plain(t, stage[t], "send") /\ lock' = lock /\ scan' = scan
  BY DEF FlushMark, Plain, ReaderStages, AdmissionStages, ReadStages,
         CloserStages, WorkerStages
<1>7. UNCHANGED <<batch, incoming, admitting, result, hostVars, closeVars>>
  BY DEF FlushMark
<1>8. ReaderInv'
  <2>1. /\ tbl'.closeStarted = tbl.closeStarted /\ tbl'.closers = tbl.closers
        /\ tbl'.high = tbl.high /\ replies' = replies
    BY <1>3, <1>7 DEF SameCalls, SameWaits, closeVars
  <2>2. stage'[t] = "send" /\ \A u \in Threads \ {t} : stage'[u] = stage[u]
    BY <1>6, PlainStage
  <2>3. CASE t = Reader
    BY <2>1, <2>2, <2>3, ReaderMoves DEF FlushMark
  <2>4. CASE t # Reader
    BY <2>1, <2>2, <2>4, ReaderKept, ThreadsApart
  <2> QED
    BY <2>3, <2>4
<1>9. tbl'.high <= MaxCall
  BY <1>0, <1>3 DEF SameCalls
<1> QED
  BY <1>0, <1>3, <1>5, <1>6, <1>7, <1>8, <1>9, CalmGoto DEF closeVars

\* `flush` sends one reply.
LEMMA FlushSendStep ==
  ASSUME ServiceInv, NEW t \in Threads, NEW r,
         FlushSend(t, r) \/ FlushFull(t, r)
  PROVE  ServiceInv' /\ StepOK
<1>1. batch \in [Threads -> SUBSET ReplyType] /\ foreign \subseteq Workspaces
  BY DEF ServiceInv, ServiceTypes
<1>2. batch' = [batch EXCEPT ![t] = @ \ {r}]
  BY DEF FlushSend, FlushFull
<1>3. batch' \in [Threads -> SUBSET ReplyType]
  BY <1>1, <1>2
<1>4. UNCHANGED <<tbl, lock, scan, stage, incoming, admitting, result,
                  hostVars, closeVars>>
  BY DEF FlushSend, FlushFull
<1> QED
  BY <1>1, <1>3, <1>4, StillStep DEF hostVars

\* `flush` takes the count of its batch back.
LEMMA FlushDoneStep ==
  ASSUME ServiceInv, NEW t \in Threads, FlushDone(t)
  PROVE  ServiceInv' /\ StepOK
<1>0. tbl \in TableType /\ TableInv(tbl, NoCall) /\ tbl.high <= MaxCall
      /\ batch \in [Threads -> SUBSET ReplyType]
      /\ after \in {"wait", "spools", "drain"}
  BY DEF ServiceInv, ServiceTypes
<1>1. Less(tbl.unflushed, 1) \in Nat
  BY <1>0, LessNat DEF TableType
<1>2. tbl' = [tbl EXCEPT !.unflushed = Less(tbl.unflushed, 1)]
  BY DEF FlushDone
<1>3. tbl' \in TableType /\ Same(tbl, tbl')
  BY <1>0, <1>1, <1>2, Recounted
<1>4. TableInv(tbl', NoCall) /\ Calm(tbl, tbl')
  BY <1>0, <1>3, SameKeeps
<1>5. Goto(t, Onward(t)) /\ stage[t] = "send" /\ lock' = lock /\ scan' = scan
  BY DEF FlushDone
<1>6. Plain(t, stage[t], Onward(t))
  <2>1. t = Reader => Onward(t) \in {"lost", "idle"}
    BY ThreadsApart DEF Onward
  <2>2. t = Admission \/ t = Reads => Onward(t) = "idle"
    BY ThreadsApart DEF Onward
  <2>3. t = Closer => Onward(t) = after
    BY ThreadsApart DEF Onward
  <2>4. t \in Calls => Onward(t) \in {"next", "ended"}
    BY ThreadsApart DEF Onward
  <2>5. t \in Calls \cup {Reader, Admission, Reads, Closer}
    BY ThreadsApart
  <2> QED
    BY <1>0, <1>5, <2>1, <2>2, <2>3, <2>4, <2>5, ThreadsApart
       DEF Plain, ReaderStages, AdmissionStages, ReadStages, CloserStages,
           WorkerStages
<1>7. UNCHANGED <<batch, incoming, admitting, result, hostVars, closeVars>>
  BY DEF FlushDone
<1>8. ReaderInv'
  <2>1. /\ tbl'.closeStarted = tbl.closeStarted /\ tbl'.closers = tbl.closers
        /\ tbl'.high = tbl.high /\ replies' = replies
    BY <1>3, <1>7 DEF Same, SameCalls, SameWaits, closeVars
  <2>2. stage'[t] = Onward(t) /\ \A u \in Threads \ {t} : stage'[u] = stage[u]
    BY <1>5, <1>6, PlainStage
  <2>3. CASE t = Reader
    <3>1. stage'[t] \in {"lost", "idle"}
      BY <2>2, <2>3, ThreadsApart DEF Onward
    <3> QED
      BY <1>5, <2>1, <2>3, <3>1, ReaderMoves
  <2>4. CASE t # Reader
    BY <2>1, <2>2, <2>4, ReaderKept, ThreadsApart
  <2> QED
    BY <2>3, <2>4
<1>9. tbl'.high <= MaxCall
  BY <1>0, <1>3 DEF Same, SameCalls
<1> QED
  BY <1>0, <1>3, <1>4, <1>5, <1>6, <1>7, <1>8, <1>9, CalmGoto DEF closeVars

-----------------------------------------------------------------------------
(* The reading thread. *)

\* The table's section of a call that moves no call on.
LEMMA ReaderSection ==
  ASSUME ServiceInv, Free, stage[Reader] \in {"counted", "spool"},
         NEW s \in TableType, Unlock(Reader, s, "mark"),
         TableInv(s, NoCall), Calm(tbl, s), s.high <= MaxCall,
         s.closers = tbl.closers, UNCHANGED <<scan, readerUnchanged>>
  PROVE  ServiceInv' /\ StepOK
<1>1. Plain(Reader, stage[Reader], "mark")
  BY ThreadsApart DEF Plain, ReaderStages
<1>2. stage'[Reader] = "mark"
  BY GotoTypes, ThreadsApart DEF Unlock, ReaderStages
<1>3. tbl'.closers = tbl.closers /\ tbl'.closeStarted = tbl.closeStarted
  <2>1. tbl' = [s EXCEPT !.out = {}]
    BY DEF Unlock
  <2>2. Same(s, tbl')
    BY <2>1, HandedOut
  <2> QED
    BY <2>2 DEF Same, SameCalls, SameWaits, Calm
<1>4. /\ replies' = replies /\ after' = after /\ scan' = scan
      /\ UNCHANGED <<incoming, admitting, result, hostVars>>
      /\ after \in {"wait", "spools", "drain"}
  BY DEF readerUnchanged, closeVars, ServiceInv, ServiceTypes
<1>5. ReaderInv'
  BY <1>2, <1>3, <1>4, ReaderMoves
<1> QED
  BY <1>1, <1>4, <1>5, CalmUnlock, ThreadsApart

\* The reading thread receives a frame.
LEMMA ReadFrameStep ==
  ASSUME ServiceInv, NEW q \in Requests, ReadFrame(q)
  PROVE  ServiceInv' /\ StepOK
<1>1. Plain(Reader, stage[Reader], "popped") /\ Goto(Reader, "popped")
  BY ThreadsApart DEF ReadFrame, Plain, ReaderStages
<1>2. UNCHANGED <<tbl, lock, scan, batch, admitting, result, hostVars, closeVars>>
  BY DEF ReadFrame
<1>3. stage'[Reader] = "popped"
  BY <1>1, GotoTypes, ThreadsApart DEF ReaderStages
<1>4. ReaderInv'
  BY <1>2, <1>3, ReaderMoves DEF ReadFrame, closeVars
<1>5. incoming' \in Requests
  BY DEF ReadFrame
<1> QED
  BY <1>1, <1>2, <1>4, <1>5, IdleStep, ThreadsApart
     DEF closeVars, hostVars, ServiceInv, ServiceTypes

\* The reading thread finds the channel closed.
LEMMA ChannelClosedStep ==
  ASSUME ServiceInv, ChannelClosed
  PROVE  ServiceInv' /\ StepOK
<1>1. Plain(Reader, stage[Reader], "lost") /\ Goto(Reader, "lost")
  BY ThreadsApart DEF ChannelClosed, Plain, ReaderStages
<1>2. UNCHANGED <<tbl, lock, scan, batch, incoming, admitting, result, hostVars,
                  closeVars>>
  BY DEF ChannelClosed, readerUnchanged
<1>3. stage'[Reader] = "lost"
  BY <1>1, GotoTypes, ThreadsApart DEF ReaderStages
<1>4. ReaderInv'
  BY <1>2, <1>3, ReaderMoves DEF ChannelClosed, closeVars
<1> QED
  BY <1>1, <1>2, <1>4, IdleStep, ThreadsApart
     DEF closeVars, hostVars, ServiceInv, ServiceTypes

\* A close that ran on the reading thread is over.
LEMMA InlineReturnsStep ==
  ASSUME ServiceInv, InlineReturns
  PROVE  ServiceInv' /\ StepOK
<1> DEFINE label == IF replies THEN "mark" ELSE "gone"
<1>1. Plain(Reader, stage[Reader], label) /\ Goto(Reader, label)
  BY ThreadsApart DEF InlineReturns, Plain, ReaderStages
<1>2. UNCHANGED <<tbl, lock, scan, batch, incoming, admitting, result, hostVars,
                  closeVars>>
  BY DEF InlineReturns, readerUnchanged
<1>3. stage'[Reader] = label
  BY <1>1, GotoTypes, ThreadsApart DEF ReaderStages
<1>4. ReaderInv'
  <2>1. ReaderInv /\ stage[Reader] = "inline"
    BY DEF ServiceInv, InlineReturns
  <2> QED
    BY <1>2, <1>3, <2>1 DEF ReaderInv, closeVars
<1> HIDE DEF label
<1> QED
  BY <1>1, <1>2, <1>4, IdleStep, ThreadsApart
     DEF closeVars, hostVars, ServiceInv, ServiceTypes

\* `receive` counts the batch it will flush.
LEMMA CountBatchStep ==
  ASSUME ServiceInv, CountBatch
  PROVE  ServiceInv' /\ StepOK
<1>0. tbl \in TableType /\ TableInv(tbl, NoCall) /\ tbl.high <= MaxCall
      /\ batch \in [Threads -> SUBSET ReplyType]
      /\ after \in {"wait", "spools", "drain"}
  BY DEF ServiceInv, ServiceTypes
<1>1. tbl.unflushed + 1 \in Nat
  BY <1>0 DEF TableType
<1>2. tbl' = [tbl EXCEPT !.unflushed = tbl.unflushed + 1]
  BY DEF CountBatch
<1>3. tbl' \in TableType /\ Same(tbl, tbl')
  BY <1>0, <1>1, <1>2, Recounted
<1>4. TableInv(tbl', NoCall) /\ Calm(tbl, tbl')
  BY <1>0, <1>3, SameKeeps
<1>5. Plain(Reader, stage[Reader], "counted") /\ Goto(Reader, "counted")
  BY ThreadsApart DEF CountBatch, Plain, ReaderStages
<1>6. UNCHANGED <<lock, scan, batch, incoming, admitting, result, hostVars,
                  closeVars>>
  BY DEF CountBatch, readerUnchanged
<1>7. stage'[Reader] = "counted"
  BY <1>5, GotoTypes, ThreadsApart DEF ReaderStages
<1>8. /\ tbl'.closeStarted = tbl.closeStarted /\ tbl'.closers = tbl.closers
      /\ tbl'.high = tbl.high /\ replies' = replies
  BY <1>3, <1>6 DEF Same, SameCalls, SameWaits, closeVars
<1>9. tbl.high < MaxCall
  BY DEF ServiceInv, ReaderInv, CountBatch
<1>10. ReaderInv'
  BY <1>7, <1>8, <1>9, ReaderMoves DEF CountBatch
<1> QED
  BY <1>0, <1>3, <1>4, <1>5, <1>6, <1>8, <1>10, CalmGoto, ThreadsApart
     DEF closeVars

\* The table of a call the reading thread has counted.
LEMMA FreshFacts ==
  ASSUME ServiceInv, stage[Reader] = "counted", NEW s, s \in {Heard, Fresh}
  PROVE  /\ s \in TableType /\ TableInv(s, NoCall) /\ Calm(tbl, s)
         /\ Call \in Calls /\ Call <= MaxCall /\ Call = s.high
         /\ s.req[Call] = incoming /\ Phase(s, Call) = "None"
         /\ \A d \in Calls : d <= tbl.high => d # Call
         /\ s.rec = tbl.rec /\ SameWaits(tbl, s) /\ s.others = tbl.others
         /\ SameBusy(tbl, s) /\ SameQueues(tbl, s)
         /\ \A i \in 1 .. Len(s.queue) : s.queue[i] < Call
         /\ \A i \in 1 .. Len(s.pending) : s.pending[i] < Call
<1>0. tbl \in TableType /\ TableInv(tbl, NoCall) /\ incoming \in Requests
      /\ tbl.high < MaxCall /\ tbl.high \in Nat
  BY DEF ServiceInv, ServiceTypes, ReaderInv, TableType
<1>1. Heard = Hear(tbl, incoming) /\ Call = tbl.high + 1
  BY DEF Heard, Hear, Call
<1>2. PICK h : h = Heard
  OBVIOUS
<1>3. PICK c : c = Call
  OBVIOUS
<1>4. /\ h \in TableType /\ TableInv(h, NoCall) /\ c \in Calls
      /\ h.high = c /\ h.req[c] = incoming
      /\ \A d \in Calls : d <= tbl.high => h.req[d] = tbl.req[d]
      /\ h.rec = tbl.rec /\ SameQueues(tbl, h) /\ SameBusy(tbl, h)
      /\ SameWaits(tbl, h) /\ h.retained = tbl.retained /\ h.others = tbl.others
      /\ h.closing = tbl.closing /\ h.closeStarted = tbl.closeStarted
      /\ h.ended = tbl.ended /\ h.report = tbl.report /\ h.revoked = tbl.revoked
      /\ Phase(h, c) = "None"
      /\ \A i \in 1 .. Len(h.queue) : h.queue[i] < c
      /\ \A i \in 1 .. Len(h.pending) : h.pending[i] < c
  BY <1>0, <1>1, <1>2, <1>3, HearKeeps
<1>5. Calm(tbl, h)
  BY <1>0, <1>1, <1>3, <1>4 DEF Calm, Phase
<1>6. c <= MaxCall /\ \A d \in Calls : d <= tbl.high => d # c
  BY <1>0, <1>1, <1>3, CallsNat, LimitsAssumption
<1>7. CASE s = Heard
  BY <1>2, <1>3, <1>4, <1>5, <1>6, <1>7
<1>8. CASE s = Fresh
  <2>1. s = Counted(h, incoming)
    BY <1>2, <1>8 DEF Fresh
  <2>2. /\ s \in TableType /\ TableInv(s, NoCall)
        /\ SameCalls(h, s) /\ SameQueues(h, s) /\ SameBusy(h, s)
        /\ SameWaits(h, s)
        /\ s.rec = h.rec /\ s.retained = h.retained /\ s.others = h.others
    BY <1>4, <2>1, CountedKeeps
  <2>3. Calm(h, s)
    BY <1>4, <2>2, SameKeeps DEF Same
  <2>4. Calm(tbl, s)
    BY <1>0, <1>4, <1>5, <2>2, <2>3, CalmThen
  <2>5. /\ c = s.high /\ s.req[c] = incoming /\ Phase(s, c) = "None"
        /\ s.rec = tbl.rec /\ SameWaits(tbl, s) /\ s.others = tbl.others
        /\ SameBusy(tbl, s) /\ SameQueues(tbl, s)
        /\ \A i \in 1 .. Len(s.queue) : s.queue[i] < c
        /\ \A i \in 1 .. Len(s.pending) : s.pending[i] < c
    BY <1>4, <2>2 DEF SameCalls, SameQueues, SameBusy, SameWaits, Phase
  <2> QED
    BY <1>3, <1>4, <1>6, <2>2, <2>4, <2>5
<1> QED
  BY <1>7, <1>8

\* A frame with a stale number ends the session.
LEMMA ReceiveStaleStep ==
  ASSUME ServiceInv, ReceiveStale
  PROVE  ServiceInv' /\ StepOK
<1>0. tbl \in TableType /\ TableInv(tbl, NoCall) /\ tbl.high <= MaxCall
      /\ tbl.high \in Nat
  BY DEF ServiceInv, ServiceTypes, TableType
<1>1. Calm(tbl, tbl)
  BY <1>0, CalmSame
<1>2. /\ Free /\ stage[Reader] = "counted" /\ Unlock(Reader, tbl, "mark")
      /\ UNCHANGED <<scan, readerUnchanged>>
  BY DEF ReceiveStale, ReceiveEnabled
<1> QED
  BY <1>0, <1>1, <1>2, ReaderSection

\* A call after the end is dropped.
LEMMA ReceiveEndedStep ==
  ASSUME ServiceInv, ReceiveEnded
  PROVE  ServiceInv' /\ StepOK
<1>1. /\ Free /\ stage[Reader] = "counted" /\ Unlock(Reader, Heard, "mark")
      /\ UNCHANGED <<scan, readerUnchanged>>
  BY DEF ReceiveEnded, ReceiveEnabled
<1>2. PICK s : s = Heard
  OBVIOUS
<1>3. /\ s \in TableType /\ TableInv(s, NoCall) /\ Calm(tbl, s)
      /\ Call <= MaxCall /\ Call = s.high /\ SameWaits(tbl, s)
  BY <1>1, <1>2, FreshFacts
<1> QED
  BY <1>1, <1>2, <1>3, ReaderSection DEF SameWaits

\* A call is malformed, after the close began, or over its lane's limit.
LEMMA ReceiveRefusedStep ==
  ASSUME ServiceInv, ReceiveRefused
  PROVE  ServiceInv' /\ StepOK
<1>0. Free /\ stage[Reader] = "counted" /\ UNCHANGED <<scan, readerUnchanged>>
  BY DEF ReceiveRefused, ReceiveEnabled
<1>1. PICK h : h = Heard
  OBVIOUS
<1>2. PICK c : c = Call
  OBVIOUS
<1>3. /\ h \in TableType /\ TableInv(h, NoCall) /\ Calm(tbl, h)
      /\ c \in Calls /\ c <= MaxCall /\ c = h.high /\ SameWaits(tbl, h)
  BY <1>0, <1>1, <1>2, FreshFacts
<1> DEFINE s == [h EXCEPT !.out = {Reply(c, "refused")}]
<1>4. Unlock(Reader, s, "mark")
  BY <1>1, <1>2 DEF ReceiveRefused
<1>5. s \in TableType /\ Same(h, s)
  <2>1. "refused" \in Says /\ "Result" \in Views
    BY DEF Says, Views
  <2>2. Reply(c, "refused") \in ReplyType
    BY <1>3, <2>1 DEF Reply, ReplyType
  <2> QED
    BY ZenonT(60), <1>3, <2>2
       DEF TableType, Same, SameCalls, SameQueues, SameBusy, SameWaits
<1> HIDE DEF s
<1>6. TableInv(s, NoCall) /\ Calm(h, s)
  BY <1>3, <1>5, SameKeeps
<1>7. Calm(tbl, s)
  BY <1>3, <1>5, <1>6, CalmThen DEF ServiceInv, ServiceTypes
<1>8. s.high <= MaxCall /\ s.closers = tbl.closers
  BY <1>3, <1>5 DEF Same, SameCalls, SameWaits
<1> QED
  BY <1>0, <1>4, <1>5, <1>6, <1>7, <1>8, ReaderSection

\* A taken call whose operator on the table moves no call on.
LEMMA TakenCalm ==
  ASSUME ServiceInv, Free, stage[Reader] = "counted",
         NEW s \in TableType, Unlock(Reader, s, "mark"), TableInv(s, NoCall),
         SameCalls(Fresh, s), SameQueues(Fresh, s), SameBusy(Fresh, s),
         s.closers = Fresh.closers,
         \A d \in Calls :
           \/ /\ Phase(s, d) = Phase(Fresh, d)
              /\ s.rec[d].outcome = Fresh.rec[d].outcome
           \/ Phase(Fresh, d) = "Terminal" /\ Phase(s, d) = "None",
         UNCHANGED <<scan, readerUnchanged>>
  PROVE  ServiceInv' /\ StepOK
<1>1. PICK f : f = Fresh
  OBVIOUS
<1>2. /\ f \in TableType /\ Calm(tbl, f) /\ Call <= MaxCall /\ Call = f.high
      /\ SameWaits(tbl, f)
  BY <1>1, FreshFacts
<1>3. f.high \in Nat
  BY <1>2 DEF TableType
<1>4. Calm(f, s)
  BY <1>1, <1>3 DEF Calm, SameCalls
<1>5. Calm(tbl, s)
  BY <1>2, <1>4, CalmThen DEF ServiceInv, ServiceTypes
<1>6. s.high <= MaxCall /\ s.closers = tbl.closers
  BY <1>1, <1>2 DEF SameCalls, SameWaits
<1> QED
  BY <1>5, <1>6, ReaderSection

\* A read of events arrives.
LEMMA ReceiveReadStep ==
  ASSUME ServiceInv, ReceiveRead
  PROVE  ServiceInv' /\ StepOK
<1>0. Free /\ stage[Reader] = "counted" /\ UNCHANGED <<scan, readerUnchanged>>
  BY DEF ReceiveRead, Takes, ReceiveEnabled
<1>1. PICK f : f = Fresh
  OBVIOUS
<1>2. PICK c : c = Call
  OBVIOUS
<1>3. f \in TableType /\ TableInv(f, NoCall) /\ c \in Calls
  BY <1>0, <1>1, <1>2, FreshFacts
<1>4. PICK s : s = ReadEvents(f, c)
  OBVIOUS
<1>5. /\ s \in TableType /\ TableInv(s, NoCall)
      /\ SameCalls(f, s) /\ SameQueues(f, s) /\ SameBusy(f, s)
      /\ s.rec = f.rec /\ s.closers = f.closers
  BY <1>3, <1>4, ReadEventsKeeps
<1>6. Unlock(Reader, s, "mark")
  BY <1>1, <1>2, <1>4 DEF ReceiveRead
<1> QED
  BY <1>0, <1>1, <1>5, <1>6, TakenCalm DEF Phase

\* A request for a result or a response arrives.
LEMMA ReceiveViewStep ==
  ASSUME ServiceInv, ReceiveView
  PROVE  ServiceInv' /\ StepOK
<1>0. /\ Free /\ stage[Reader] = "counted" /\ UNCHANGED <<scan, readerUnchanged>>
      /\ incoming.type \in {"Result", "Response"}
  BY DEF ReceiveView, Takes, ReceiveEnabled
<1>1. PICK f : f = Fresh
  OBVIOUS
<1>2. PICK c : c = Call
  OBVIOUS
<1>3. f \in TableType /\ TableInv(f, NoCall) /\ c \in Calls /\ c = f.high
      /\ f.req[c] = incoming /\ c <= MaxCall
  BY <1>0, <1>1, <1>2, FreshFacts
<1>4. PICK s : s = View(f, c)
  OBVIOUS
<1>a. c <= f.high
  BY <1>3, CallsNat
<1>5. /\ s \in TableType /\ TableInv(s, NoCall)
      /\ SameCalls(f, s) /\ SameQueues(f, s) /\ SameBusy(f, s)
      /\ SameWaits(f, s)
      /\ \A d \in Calls : /\ Phase(s, d) = Phase(f, d)
                          /\ s.rec[d].outcome = f.rec[d].outcome
  BY <1>0, <1>3, <1>4, <1>a, ViewKeeps
<1>6. Unlock(Reader, s, "mark")
  BY <1>1, <1>2, <1>4 DEF ReceiveView
<1> QED
  BY <1>0, <1>1, <1>5, <1>6, TakenCalm DEF SameWaits

\* A release arrives.
LEMMA ReceiveReleaseStep ==
  ASSUME ServiceInv, ReceiveRelease
  PROVE  ServiceInv' /\ StepOK
<1>0. Free /\ stage[Reader] = "counted" /\ UNCHANGED <<scan, readerUnchanged>>
  BY DEF ReceiveRelease, Takes, ReceiveEnabled
<1>1. PICK f : f = Fresh
  OBVIOUS
<1>2. PICK c : c = Call
  OBVIOUS
<1>3. f \in TableType /\ TableInv(f, NoCall) /\ c \in Calls
  BY <1>0, <1>1, <1>2, FreshFacts
<1>4. PICK s : s = Release(f, c)
  OBVIOUS
<1>5. /\ s \in TableType /\ TableInv(s, NoCall)
      /\ SameCalls(f, s) /\ SameQueues(f, s) /\ SameBusy(f, s)
      /\ SameWaits(f, s)
      /\ \A d \in Calls : \/ s.rec[d] = f.rec[d]
                          \/ Phase(f, d) = "Terminal" /\ s.rec[d] = NoRecord
  BY <1>3, <1>4, ReleaseKeeps
<1>6. Unlock(Reader, s, "mark")
  BY <1>1, <1>2, <1>4 DEF ReceiveRelease
<1>7. \A d \in Calls :
        \/ Phase(s, d) = Phase(f, d) /\ s.rec[d].outcome = f.rec[d].outcome
        \/ Phase(f, d) = "Terminal" /\ Phase(s, d) = "None"
  BY <1>5 DEF Phase, NoRecord
<1> QED
  BY <1>0, <1>1, <1>5, <1>6, <1>7, TakenCalm DEF SameWaits

\* A spool call arrives and unlocks the table.
LEMMA ReceiveSpoolStep ==
  ASSUME ServiceInv, ReceiveSpool
  PROVE  ServiceInv' /\ StepOK
<1>0. /\ Free /\ stage[Reader] = "counted" /\ Unlock(Reader, Fresh, "spool")
      /\ scan' = scan /\ replies' = replies /\ after' = after
      /\ UNCHANGED <<incoming, admitting, result, hostVars>>
      /\ after \in {"wait", "spools", "drain"}
  BY DEF ReceiveSpool, Takes, ReceiveEnabled, readerUnchanged, closeVars,
         ServiceInv, ServiceTypes
<1>1. PICK f : f = Fresh
  OBVIOUS
<1>2. /\ f \in TableType /\ TableInv(f, NoCall) /\ Calm(tbl, f)
      /\ Call \in Calls /\ Call <= MaxCall /\ Call = f.high /\ SameWaits(tbl, f)
  BY <1>0, <1>1, FreshFacts
<1>3. stage'[Reader] = "spool" /\ Plain(Reader, stage[Reader], "spool")
  BY <1>0, GotoTypes, ThreadsApart DEF Unlock, ReaderStages, Plain
<1>4. /\ tbl'.closers = tbl.closers /\ tbl'.closeStarted = tbl.closeStarted
      /\ tbl'.high # 0
  <2>1. tbl' = [f EXCEPT !.out = {}]
    BY <1>0, <1>1 DEF Unlock
  <2>2. Same(f, tbl')
    BY <1>2, <2>1, HandedOut
  <2> QED
    BY <1>2, <2>2, CallsNat DEF Same, SameCalls, SameWaits, Calm
<1>5. ReaderInv'
  <2>1. ReaderInv
    BY DEF ServiceInv
  <2> QED
    BY <1>0, <1>3, <1>4, <2>1 DEF ReaderInv
<1> QED
  BY <1>0, <1>1, <1>2, <1>3, <1>5, CalmUnlock, ThreadsApart

\* It is answered under the lock again.
LEMMA SpoolAnsweredStep ==
  ASSUME ServiceInv, SpoolAnswered
  PROVE  ServiceInv' /\ StepOK
<1>0. tbl \in TableType /\ TableInv(tbl, NoCall) /\ tbl.high <= MaxCall
      /\ tbl.high \in Nat
  BY DEF ServiceInv, ServiceTypes, TableType
<1>1. Free /\ stage[Reader] = "spool" /\ UNCHANGED <<scan, readerUnchanged>>
  BY DEF SpoolAnswered
<1>2. tbl.high \in Calls
  BY <1>0, <1>1, LimitsAssumption DEF ServiceInv, ReaderInv, Calls
<1>3. PICK s : s = Answer(tbl, tbl.high, "spool")
  OBVIOUS
<1>4. "spool" \in Says
  BY DEF Says
<1>5. /\ s \in TableType /\ TableInv(s, NoCall)
      /\ SameCalls(tbl, s) /\ SameQueues(tbl, s) /\ SameBusy(tbl, s)
      /\ SameWaits(tbl, s) /\ s.rec = tbl.rec
  BY <1>0, <1>2, <1>3, <1>4, AnswerKeeps
<1>6. Calm(tbl, s)
  BY <1>0, <1>5 DEF Calm, SameCalls, Phase
<1>7. Unlock(Reader, s, "mark")
  BY <1>3 DEF SpoolAnswered
<1> QED
  BY <1>0, <1>1, <1>5, <1>6, <1>7, ReaderSection DEF SameCalls, SameWaits

\* A close arrives.
LEMMA ReceiveCloseStep ==
  ASSUME ServiceInv, ReceiveClose
  PROVE  ServiceInv' /\ StepOK
<1>0. /\ Free /\ stage[Reader] = "counted" /\ UNCHANGED <<scan, readerUnchanged>>
  BY DEF ReceiveClose, Takes, ReceiveEnabled
<1>1. PICK f : f = Fresh
  OBVIOUS
<1>2. PICK c : c = Call
  OBVIOUS
<1>3. /\ f \in TableType /\ TableInv(f, NoCall) /\ Calm(tbl, f)
      /\ c \in Calls /\ c <= MaxCall /\ c = f.high /\ SameWaits(tbl, f)
  BY <1>0, <1>1, <1>2, FreshFacts
<1>4. CASE tbl.report
  <2>1. PICK s : s = Answer(f, c, "report")
    OBVIOUS
  <2>2. "report" \in Says
    BY DEF Says
  <2>3. /\ s \in TableType /\ TableInv(s, NoCall)
        /\ SameCalls(f, s) /\ SameQueues(f, s) /\ SameBusy(f, s)
        /\ SameWaits(f, s) /\ s.rec = f.rec
    BY <1>3, <2>1, <2>2, AnswerKeeps
  <2>4. Unlock(Reader, s, "mark")
    BY <1>1, <1>2, <1>4, <2>1 DEF ReceiveClose
  <2> QED
    BY <1>0, <1>1, <2>3, <2>4, TakenCalm DEF SameWaits, Phase
<1>5. CASE ~tbl.report
  <2> DEFINE label == IF tbl.closeStarted THEN "mark" ELSE "close"
  <2>1. PICK s : s = [f EXCEPT !.others = @ \cup {c}, !.closers = @ \cup {c}]
    OBVIOUS
  <2>2. /\ s \in TableType
        /\ SameCalls(f, s) /\ SameQueues(f, s) /\ SameBusy(f, s)
        /\ s.rec = f.rec /\ s.retained = f.retained /\ s.held = f.held
        /\ s.others = f.others \cup {c} /\ s.closers = f.closers \cup {c}
    BY ZenonT(60), <1>3, <2>1 DEF TableType, SameCalls, SameQueues, SameBusy
  <2>3. SameRecords(f, s)
    BY <2>2 DEF SameRecords
  <2>4. TableInv(s, NoCall)
    BY <1>3, <2>2, <2>3, QuietKeeps DEF SameCalls, SameBusy
  <2>5. Calm(f, s)
    <3>1. f.high \in Nat
      BY <1>3 DEF TableType
    <3> QED
      BY <2>2, <3>1 DEF Calm, SameCalls, Phase
  <2>6. Calm(tbl, s)
    BY <1>3, <2>2, <2>5, CalmThen DEF ServiceInv, ServiceTypes
  <2>7. Unlock(Reader, s, label)
    BY <1>1, <1>2, <1>5, <2>1 DEF ReceiveClose
  <2>8. Plain(Reader, stage[Reader], label) /\ label \in ReaderStages
    BY <1>0, ThreadsApart DEF Plain, ReaderStages
  <2>9. stage'[Reader] = label
    BY <2>7, <2>8, GotoTypes, ThreadsApart DEF Unlock
  <2>10. tbl'.closeStarted = tbl.closeStarted
    <3>1. Same(s, tbl')
      BY <2>2, <2>7, HandedOut DEF Unlock
    <3> QED
      BY <2>6, <3>1 DEF Same, SameCalls, Calm
  <2>11. replies' = replies /\ after' = after /\ scan' = scan
         /\ UNCHANGED <<incoming, admitting, result, hostVars>>
         /\ after \in {"wait", "spools", "drain"}
    BY <1>0 DEF readerUnchanged, closeVars, ServiceInv, ServiceTypes
  <2>12. ReaderInv'
    <3>1. ReaderInv
      BY DEF ServiceInv
    <3>2. tbl.closeStarted => replies
      BY <1>0, <3>1 DEF ReaderInv
    <3> QED
      BY <2>9, <2>10, <2>11, <3>1, <3>2 DEF ReaderInv
  <2>13. s.high <= MaxCall
    BY <1>3, <2>2 DEF SameCalls
  <2> HIDE DEF label
  <2> QED
    BY <1>0, <2>2, <2>4, <2>6, <2>7, <2>8, <2>11, <2>12, <2>13, CalmUnlock,
       ThreadsApart
<1> QED
  BY <1>4, <1>5

\* The first close sets `closing` and starts the close thread.
LEMMA CloseBeginsStep ==
  ASSUME ServiceInv, NEW spawned \in BOOLEAN, CloseBegins(spawned)
  PROVE  ServiceInv' /\ StepOK
<1> DEFINE next == IF stage[Reader] = "close" THEN "mark" ELSE "gone"
<1>0. /\ stage[Reader] \in {"close", "lost"} /\ Free
      /\ UNCHANGED <<lock, scan, batch, incoming, admitting, result, hostVars,
                     after>>
  BY DEF CloseBegins
<1>a. ReaderInv /\ CloseInv
  BY DEF ServiceInv
<1>1. CASE tbl.closeStarted
  <2>1. Goto(Reader, next) /\ tbl' = tbl /\ replies' = replies
    BY <1>1 DEF CloseBegins
  <2>2. Plain(Reader, stage[Reader], next) /\ next \in ReaderStages
    BY <1>0, ThreadsApart DEF Plain, ReaderStages
  <2>3. stage'[Reader] = next
    BY <2>1, <2>2, GotoTypes, ThreadsApart
  <2>4. ReaderInv'
    BY <1>0, <1>1, <1>a, <2>1, <2>3 DEF ReaderInv
  <2> HIDE DEF next
  <2> QED
    BY <1>0, <2>1, <2>2, <2>4, IdleStep, ThreadsApart
       DEF hostVars, ServiceInv, ServiceTypes
<1>2. CASE ~tbl.closeStarted
  <2> DEFINE label == IF spawned THEN next ELSE "inline"
  <2>1. /\ tbl' = [tbl EXCEPT !.closeStarted = TRUE, !.closing = TRUE]
        /\ replies' = (stage[Reader] = "close")
        /\ stage' = [stage EXCEPT ![Closer] = "start", ![Reader] = label]
    BY <1>2 DEF CloseBegins
  <2>2. tbl \in TableType /\ TableInv(tbl, NoCall) /\ StageTypes
        /\ tbl.high \in Nat
    BY DEF ServiceInv, ServiceTypes, TableType
  <2>3. /\ tbl' \in TableType /\ tbl'.closeStarted /\ tbl'.closing
        /\ tbl'.high = tbl.high /\ tbl'.req = tbl.req /\ tbl'.rec = tbl.rec
        /\ SameQueues(tbl, tbl') /\ SameBusy(tbl, tbl') /\ SameWaits(tbl, tbl')
        /\ tbl'.revoked = tbl.revoked /\ tbl'.retained = tbl.retained
        /\ tbl'.others = tbl.others
    BY <2>1, <2>2 DEF TableType, SameQueues, SameBusy, SameWaits
  <2>4. SameRecords(tbl, tbl')
    BY <2>3 DEF SameRecords
  <2>5. TableInv(tbl', NoCall)
    BY <2>2, <2>3, <2>4, QuietKeeps DEF SameBusy, SameWaits
  <2>6. label \in ReaderStages /\ label # "sched" /\ label # "close"
        /\ label \notin {"popped", "counted", "spool"}
    BY DEF ReaderStages
  <2>b. (stage[Reader] # "close") => (label \in {"gone", "inline"})
    OBVIOUS
  <2> HIDE DEF label
  <2>7. /\ stage' \in [Threads -> AllStages]
        /\ stage'[Closer] = "start" /\ stage'[Reader] = label
        /\ \A t \in Threads \ {Closer, Reader} : stage'[t] = stage[t]
    <3>1. "start" \in AllStages /\ label \in AllStages
      BY <2>6 DEF AllStages, CloserStages
    <3>2. stage \in [Threads -> AllStages]
      BY <2>2 DEF StageTypes
    <3> QED
      BY <2>1, <3>1, <3>2, ThreadsApart
  <2>8. StageTypes'
    BY <2>2, <2>6, <2>7, ThreadsApart DEF StageTypes, CloserStages
  <2>9. ServiceTypes'
    <3>1. replies' \in BOOLEAN
      BY <2>1
    <3> QED
      BY <1>0, <2>3, <2>8, <3>1 DEF ServiceInv, ServiceTypes, hostVars
  <2>10. \A c \in Calls : stage'[c] = stage[c] /\ Phase(tbl', c) = Phase(tbl, c)
    BY <2>3, <2>7, ThreadsApart DEF Phase
  <2>11. ThreadInv'
    BY <1>0, <2>3, <2>10 DEF ServiceInv, ThreadInv
  <2>12. CloseInv'
    BY <1>2, <1>a, <2>3, <2>7 DEF CloseInv, Late
  <2>13. ReaderInv'
    <3>1. replies' <=> stage[Reader] = "close"
      BY <2>1
    <3>2. tbl.closers # {} => stage[Reader] = "close"
      BY <1>2, <1>a DEF ReaderInv
    <3>3. tbl'.closers = tbl.closers
      BY <2>3 DEF SameWaits
    <3> QED
      BY <2>3, <2>6, <2>7, <2>b, <3>1, <3>2, <3>3 DEF ReaderInv
  <2>14. LockInv'
    <3> SUFFICES ASSUME NEW t \in Threads PROVE (lock' = t) <=> Holds(t)'
      BY DEF LockInv
    <3>1. lock' = NoThread
      BY <1>0 DEF Free
    <3>2. (lock = t) <=> Holds(t)
      BY DEF ServiceInv, LockInv
    <3>3. ~Holds(t)
      BY <1>0, <3>2, ThreadsApart DEF Free
    <3>4. ~Holds(t)'
      BY <2>6, <2>7, <3>3, ThreadsApart DEF Holds
    <3> QED
      BY <3>1, <3>4, ThreadsApart
  <2>15. PendingInv'
    <3>1. stage'[Admission] = stage[Admission] /\ admitting' = admitting
      BY <1>0, <2>7, ThreadsApart
    <3>2. stage[Closer] # "settle"
      BY <1>2, <1>a DEF CloseInv
    <3> QED
      BY <2>3, <2>10, <3>1, <3>2 DEF ServiceInv, PendingInv, SameQueues
  <2>16. ScanInv' /\ StartInv'
    BY <1>0, <2>3 DEF ScanInv, StartInv, Free, ServiceInv, SameBusy
  <2>17. ClassExclusion'
    BY <2>3, <2>10 DEF ServiceInv, ClassExclusion, Executing
  <2>18. StepOK
    BY <2>3, <2>10 DEF StepOK, OutcomeStep, StartStep, Starts
  <2> QED
    BY <2>5, <2>9, <2>11, <2>12, <2>13, <2>14, <2>15, <2>16, <2>17, <2>18
       DEF ServiceInv
<1> QED
  BY <1>1, <1>2

-----------------------------------------------------------------------------
(* Threads that come and go, and the world outside. *)

\* The admission or the read thread ends.
LEMMA ThreadEndsStep ==
  ASSUME ServiceInv, AdmissionEnds \/ ReadsEnd
  PROVE  ServiceInv' /\ StepOK
<1>1. PICK t \in {Admission, Reads} :
        /\ stage[t] = "idle" /\ Goto(t, "gone")
        /\ UNCHANGED <<tbl, lock, scan, batch, readerUnchanged>>
  BY DEF AdmissionEnds, ReadsEnd
<1>2. Plain(t, stage[t], "gone") /\ t \in Threads /\ t # Reader
  BY <1>1, ThreadsApart DEF Plain, AdmissionStages, ReadStages
<1>3. stage'[Reader] = stage[Reader]
  BY <1>1, <1>2, PlainStage, ThreadsApart
<1>4. ReaderInv'
  BY <1>1, <1>3, ReaderKept DEF readerUnchanged, closeVars
<1> QED
  BY <1>1, <1>2, <1>4, IdleStep
     DEF readerUnchanged, closeVars, hostVars, ServiceInv, ServiceTypes

\* The client closes the channel, or another session's worker comes or goes.
LEMMA OutsideStep ==
  ASSUME ServiceInv, ClientCloses \/ \E w \in Shared : ForeignWorker(w)
  PROVE  ServiceInv' /\ StepOK
<1>1. UNCHANGED <<tbl, lock, scan, stage, batch, admitting, result, incoming,
                  closeVars, recorded>>
  BY DEF ClientCloses, ForeignWorker, hostVars
<1>2. foreign' \subseteq Workspaces
  BY ServiceAssumption
     DEF ClientCloses, ForeignWorker, hostVars, ServiceInv, ServiceTypes
<1> QED
  BY <1>1, <1>2, StillStep DEF ServiceInv, ServiceTypes

\* A handler appends to its log through its gate.
LEMMA WorkerEventStep ==
  ASSUME ServiceInv, NEW c \in Calls, WorkerEvent(c)
  PROVE  ServiceInv' /\ StepOK
<1>0. tbl \in TableType /\ TableInv(tbl, NoCall)
  BY DEF ServiceInv, ServiceTypes
<1>1. tbl' = [tbl EXCEPT !.log[c] = @ + 1]
      /\ UNCHANGED <<lock, batch, stage, result, workerUnchanged>>
  BY DEF WorkerEvent
<1>2. tbl' \in TableType /\ Same(tbl, tbl')
  <2>1. PICK g : g = [tbl.log EXCEPT ![c] = @ + 1]
    OBVIOUS
  <2>2. g \in [Calls -> Nat]
    BY <1>0, <2>1 DEF TableType
  <2>3. tbl' = [tbl EXCEPT !.log = g]
    BY <1>1, <2>1
  <2> QED
    BY <1>0, <2>2, <2>3
       DEF TableType, Same, SameCalls, SameQueues, SameBusy, SameWaits
<1>3. TableInv(tbl', NoCall) /\ Calm(tbl, tbl')
  BY <1>0, <1>2, SameKeeps
<1>4. StageTypes' /\ CalmStages /\ LockInv'
  BY <1>1, SameStage
<1>5. ServiceTypes'
  BY <1>1, <1>2, <1>4
     DEF ServiceInv, ServiceTypes, workerUnchanged, hostVars, closeVars, Same,
         SameCalls
<1>6. ReaderInv'
  BY <1>1, <1>2, ReaderKept DEF Same, SameCalls, SameWaits, workerUnchanged,
                                closeVars
<1> QED
  BY <1>1, <1>3, <1>4, <1>5, <1>6, CalmStep DEF workerUnchanged

\* The read thread answers a held read.
LEMMA AnswerHeldStep ==
  ASSUME ServiceInv, NEW expired, AnswerHeld(expired)
  PROVE  ServiceInv' /\ StepOK
<1>0. tbl \in TableType /\ TableInv(tbl, NoCall) /\ tbl.high <= MaxCall
      /\ tbl.high \in Nat
  BY DEF ServiceInv, ServiceTypes, TableType
<1>1. PICK a : a = {c \in tbl.held : Ready(tbl, c) \/ tbl.closing \/ c \in expired}
  OBVIOUS
<1>2. PICK s : s = [tbl EXCEPT
              !.unflushed = @ + 1, !.held = @ \ a,
              !.others = @ \ a,
              !.outstanding = Less(@, Cardinality(a)),
              !.out = {Reply(c, "events") : c \in a}]
  OBVIOUS
<1>3. /\ stage[Reads] = "idle" /\ Free /\ Unlock(Reads, s, "mark")
      /\ UNCHANGED <<scan, readerUnchanged>>
  BY <1>1, <1>2 DEF AnswerHeld
<1>4. a \subseteq Calls
  BY <1>0, <1>1 DEF TableType
<1>5. /\ s \in TableType /\ SameCalls(tbl, s) /\ SameQueues(tbl, s)
      /\ SameBusy(tbl, s) /\ s.rec = tbl.rec /\ s.retained = tbl.retained
      /\ s.held = tbl.held \ a /\ s.others = tbl.others \ a
      /\ s.closers = tbl.closers
  <2>1. Less(tbl.outstanding, Cardinality(a)) \in Nat
    BY <1>0, <1>4, CountNat, LessNat DEF TableType
  <2>2. "events" \in Says /\ "Result" \in Views
    BY DEF Says, Views
  <2>3. {Reply(c, "events") : c \in a} \subseteq ReplyType
    BY <1>4, <2>2 DEF Reply, ReplyType
  <2>4. PICK o : o = {Reply(c, "events") : c \in a}
    OBVIOUS
  <2>5. PICK n : n = Less(tbl.outstanding, Cardinality(a))
    OBVIOUS
  <2>6. s = [tbl EXCEPT !.unflushed = @ + 1, !.held = @ \ a, !.others = @ \ a,
                        !.outstanding = n, !.out = o]
    BY <1>2, <2>4, <2>5
  <2>7. o \subseteq ReplyType /\ n \in Nat
    BY <2>1, <2>3, <2>4, <2>5
  <2>8. s.held = tbl.held \ a /\ s.others = tbl.others \ a
    BY <1>0, <2>6 DEF TableType
  <2>9. /\ SameCalls(tbl, s) /\ SameQueues(tbl, s)
        /\ SameBusy(tbl, s) /\ s.rec = tbl.rec /\ s.retained = tbl.retained
        /\ s.closers = tbl.closers
    BY <1>0, <2>6 DEF TableType, SameCalls, SameQueues, SameBusy
  <2>10. tbl.unflushed + 1 \in Nat /\ tbl.held \ a \subseteq Calls
         /\ tbl.others \ a \subseteq Calls
    BY <1>0 DEF TableType
  <2>11. s \in TableType
    BY ZenonT(60), <1>0, <2>6, <2>7, <2>10 DEF TableType
  <2> QED
    BY <2>8, <2>9, <2>11
<1>6. TableInv(s, NoCall)
  BY <1>0, <1>5, QuietKeeps DEF SameRecords, SameCalls, SameBusy
<1>7. Calm(tbl, s)
  BY <1>0, <1>5 DEF Calm, SameCalls, Phase
<1>8. Plain(Reads, stage[Reads], "mark") /\ Reads # Reader
  BY <1>3, ThreadsApart DEF Plain, ReadStages
<1>9. ReaderInv'
  <2>1. Same(s, tbl')
    BY <1>3, <1>5, HandedOut DEF Unlock
  <2>2. stage'[Reader] = stage[Reader]
    BY <1>3, <1>8, GotoTypes, ThreadsApart DEF Unlock, ReadStages
  <2>3. replies' = replies /\ tbl'.closeStarted = tbl.closeStarted
        /\ tbl'.closers = tbl.closers /\ tbl'.high = tbl.high
    BY <1>3, <1>5, <2>1
       DEF Same, SameCalls, SameWaits, readerUnchanged, closeVars
  <2> QED
    BY <2>2, <2>3, ReaderKept
<1>10. s.high <= MaxCall /\ after' \in {"wait", "spools", "drain"}
       /\ replies' = replies /\ UNCHANGED <<incoming, admitting, result, hostVars>>
  BY <1>0, <1>3, <1>5
     DEF SameCalls, readerUnchanged, closeVars, ServiceInv, ServiceTypes
<1> QED
  BY <1>3, <1>5, <1>6, <1>7, <1>8, <1>9, <1>10, CalmUnlock, ThreadsApart

-----------------------------------------------------------------------------
(* The close thread, once it has settled what had not started. *)

\* The close thread goes on with the table as it is.
LEMMA CloserIdleStep ==
  ASSUME ServiceInv, CloseReleasesSpools \/ CloseDrained \/ CloseShuts
  PROVE  ServiceInv' /\ StepOK
<1>1. PICK label \in {"report", "shut", "end"} : Goto(Closer, label)
  BY DEF CloseReleasesSpools, CloseDrained, CloseShuts
<1>2. /\ stage[Closer] \in {"spools", "drain", "shut"}
      /\ UNCHANGED <<tbl, lock, scan, batch, incoming, admitting, result,
                     recorded, foreign, after, replies>>
  BY DEF CloseReleasesSpools, CloseDrained, CloseShuts, hostVars,
         closerUnchanged
<1>3. Plain(Closer, stage[Closer], label)
  BY <1>1, <1>2, ThreadsApart DEF Plain, CloserStages
<1>4. stage'[Reader] = stage[Reader]
  BY <1>1, <1>2, <1>3, PlainStage, ThreadsApart
<1>5. ReaderInv'
  BY <1>2, <1>4, ReaderKept
<1> QED
  BY <1>1, <1>2, <1>3, <1>5, IdleStep, ThreadsApart
     DEF ServiceInv, ServiceTypes

\* The close thread goes on in or out of the table lock.
LEMMA CloserSection ==
  ASSUME ServiceInv, NEW label, Goto(Closer, label), label \in CloserStages,
         stage[Closer] \notin {"none", "start", "settle"},
         label \notin {"none", "start", "settle", "sched"},
         lock \in {NoThread, Closer},
         lock' = IF label = "detach" THEN Closer ELSE NoThread,
         tbl' \in TableType, TableInv(tbl', NoCall), Calm(tbl, tbl'),
         tbl'.high = tbl.high, batch' \in [Threads -> SUBSET ReplyType],
         tbl'.closers \subseteq tbl.closers,
         after' \in {"wait", "spools", "drain"},
         UNCHANGED <<incoming, admitting, result, replies, scan, recorded, foreign>>
  PROVE  ServiceInv' /\ StepOK
<1>1. /\ StageTypes' /\ stage'[Closer] = label
      /\ \A u \in Threads \ {Closer} : stage'[u] = stage[u]
  BY GotoTypes, ThreadsApart
<1>2. CalmStages
  BY <1>1, ThreadsApart DEF CalmStages
<1>3. LockInv'
  <2> SUFFICES ASSUME NEW t \in Threads PROVE (lock' = t) <=> Holds(t)'
    BY DEF LockInv
  <2>1. CASE t = Closer
    BY <1>1, <2>1, ThreadsApart DEF Holds
  <2>2. CASE t # Closer
    <3>1. (lock = t) <=> Holds(t)
      BY DEF ServiceInv, LockInv
    <3>2. Holds(t)' <=> Holds(t)
      BY <1>1, <2>2 DEF Holds
    <3> QED
      BY <2>2, <3>1, <3>2, ThreadsApart
  <2> QED
    BY <2>1, <2>2
<1>4. tbl.closing
  BY DEF ServiceInv, CloseInv
<1>5. ServiceTypes'
  <2>1. lock' \in Threads \cup {NoThread}
    BY ThreadsApart
  <2> QED
    BY <1>1, <2>1 DEF ServiceInv, ServiceTypes
<1>6. ReaderInv'
  <2>1. stage'[Reader] = stage[Reader]
    BY <1>1, ThreadsApart
  <2>2. tbl'.closeStarted = tbl.closeStarted
    BY DEF Calm
  <2> QED
    BY <2>1, <2>2, ReaderKept
<1>7. lock' \in {NoThread, Closer}
  OBVIOUS
<1> QED
  BY <1>2, <1>3, <1>4, <1>5, <1>6, <1>7, CalmStep

\* The close's wait for the handlers ends, by their return or by time.
LEMMA CloseWaitedStep ==
  ASSUME ServiceInv, CloseWaited
  PROVE  ServiceInv' /\ StepOK
<1>0. tbl \in TableType /\ TableInv(tbl, NoCall) /\ tbl.high \in Nat
      /\ batch \in [Threads -> SUBSET ReplyType]
      /\ after \in {"wait", "spools", "drain"}
  BY DEF ServiceInv, ServiceTypes, TableType
<1>1. Calm(tbl, tbl)
  BY <1>0, CalmSame
<1>2. /\ stage[Closer] = "wait" /\ lock = NoThread /\ lock' = Closer
      /\ Goto(Closer, "detach") /\ "detach" \in CloserStages
      /\ UNCHANGED <<tbl, batch, after, incoming, admitting, result, replies,
                     scan, recorded, foreign>>
  BY DEF CloseWaited, Free, CloserStages, hostVars, closerUnchanged
<1> QED
  BY <1>0, <1>1, <1>2, CloserSection

\* The close marks the session ended.
LEMMA CloseEndsStep ==
  ASSUME ServiceInv, CloseEnds
  PROVE  ServiceInv' /\ StepOK
<1>0. tbl \in TableType /\ TableInv(tbl, NoCall) /\ tbl.high \in Nat
      /\ batch \in [Threads -> SUBSET ReplyType]
      /\ after \in {"wait", "spools", "drain"}
  BY DEF ServiceInv, ServiceTypes, TableType
<1>1. /\ stage[Closer] = "end" /\ lock = NoThread /\ lock' = NoThread
      /\ Goto(Closer, "done") /\ "done" \in CloserStages
      /\ tbl' = [tbl EXCEPT !.ended = TRUE]
      /\ UNCHANGED <<batch, after, incoming, admitting, result, replies,
                     scan, recorded, foreign>>
  BY DEF CloseEnds, Free, CloserStages, hostVars, closerUnchanged
<1>2. /\ tbl' \in TableType /\ SameQueues(tbl, tbl') /\ SameBusy(tbl, tbl')
      /\ SameWaits(tbl, tbl') /\ tbl'.rec = tbl.rec
      /\ tbl'.retained = tbl.retained /\ tbl'.others = tbl.others
      /\ tbl'.high = tbl.high /\ tbl'.req = tbl.req /\ tbl'.revoked = tbl.revoked
      /\ tbl'.closing = tbl.closing /\ tbl'.closeStarted = tbl.closeStarted
  BY <1>0, <1>1 DEF TableType, SameQueues, SameBusy, SameWaits
<1>3. TableInv(tbl', NoCall)
  BY <1>0, <1>2, QuietKeeps DEF SameRecords, SameBusy, SameWaits
<1>4. Calm(tbl, tbl')
  BY <1>0, <1>2 DEF Calm, Phase
<1>5. tbl'.closers \subseteq tbl.closers
  BY <1>2 DEF SameWaits
<1> QED
  BY <1>0, <1>1, <1>2, <1>3, <1>4, <1>5, CloserSection

\* A close section ends with a table that moved no call on.
LEMMA CloserUnlock ==
  ASSUME ServiceInv, stage[Closer] \notin {"none", "start", "settle"},
         lock \in {NoThread, Closer}, NEW s \in TableType, NEW label,
         label \in {"wait", "spools", "drain"}, CloseUnlock(s, label),
         TableInv(s, NoCall), Calm(tbl, s), s.high = tbl.high,
         s.closers \subseteq tbl.closers, UNCHANGED <<hostVars, closerUnchanged>>
  PROVE  ServiceInv' /\ StepOK
<1>0. tbl \in TableType /\ batch \in [Threads -> SUBSET ReplyType]
  BY DEF ServiceInv, ServiceTypes
<1>1. /\ tbl' = [s EXCEPT !.out = {}] /\ batch' = [batch EXCEPT ![Closer] = s.out]
      /\ lock' = NoThread /\ Goto(Closer, "mark") /\ after' = label
  BY DEF CloseUnlock, Unlock
<1>2. tbl' \in TableType /\ Same(s, tbl')
  BY <1>1, HandedOut
<1>3. TableInv(tbl', NoCall) /\ Calm(s, tbl')
  BY <1>2, SameKeeps
<1>4. Calm(tbl, tbl')
  BY <1>0, <1>2, <1>3, CalmThen
<1>5. batch' \in [Threads -> SUBSET ReplyType]
  <2>1. s.out \subseteq ReplyType
    BY DEF TableType
  <2> QED
    BY <1>0, <1>1, <2>1
<1>6. tbl'.high = tbl.high /\ tbl'.closers \subseteq tbl.closers
  BY <1>2 DEF Same, SameCalls, SameWaits
<1>7. "mark" \in CloserStages
  BY DEF CloserStages
<1> QED
  BY <1>1, <1>2, <1>3, <1>4, <1>5, <1>6, <1>7, CloserSection
     DEF hostVars, closerUnchanged

\* The close answers the held reads.
LEMMA CloseAnswersHeldStep ==
  ASSUME ServiceInv, CloseAnswersHeld
  PROVE  ServiceInv' /\ StepOK
<1>0. tbl \in TableType /\ TableInv(tbl, NoCall) /\ tbl.high \in Nat
  BY DEF ServiceInv, ServiceTypes, TableType
<1>1. PICK o : o = tbl.out \cup {Reply(c, "events") : c \in tbl.held}
  OBVIOUS
<1>2. PICK n : n = Less(tbl.outstanding, Cardinality(tbl.held))
  OBVIOUS
<1>3. PICK s : s = [tbl EXCEPT !.unflushed = @ + 1, !.held = {},
                               !.others = @ \ tbl.held, !.outstanding = n,
                               !.out = o]
  OBVIOUS
<1>4. /\ stage[Closer] = "detach" /\ CloseUnlock(s, "spools")
      /\ UNCHANGED <<hostVars, closerUnchanged>>
  BY <1>1, <1>2, <1>3 DEF CloseAnswersHeld
<1>5. n \in Nat /\ o \subseteq ReplyType
  <2>1. tbl.held \subseteq Calls /\ tbl.outstanding \in Nat
        /\ tbl.out \subseteq ReplyType
    BY <1>0 DEF TableType
  <2>2. n \in Nat
    BY <1>2, <2>1, CountNat, LessNat
  <2>3. "events" \in Says /\ "Result" \in Views
    BY DEF Says, Views
  <2>4. {Reply(c, "events") : c \in tbl.held} \subseteq ReplyType
    BY <2>1, <2>3 DEF Reply, ReplyType
  <2> QED
    BY <1>1, <2>1, <2>2, <2>4
<1>6. /\ SameCalls(tbl, s) /\ SameQueues(tbl, s) /\ SameBusy(tbl, s)
      /\ s.rec = tbl.rec /\ s.retained = tbl.retained
      /\ s.closers = tbl.closers
  BY <1>0, <1>3 DEF TableType, SameCalls, SameQueues, SameBusy
<1>7. s.held = {} /\ s.others = tbl.others \ tbl.held
  BY <1>0, <1>3 DEF TableType
<1>8. s \in TableType
  <2>1. tbl.unflushed + 1 \in Nat /\ tbl.others \ tbl.held \subseteq Calls
    BY <1>0 DEF TableType
  <2> QED
    BY ZenonT(60), <1>0, <1>3, <1>5, <2>1 DEF TableType
<1>9. TableInv(s, NoCall)
  BY <1>0, <1>6, <1>7, <1>8, QuietKeeps DEF SameRecords, SameCalls, SameBusy
<1>10. Calm(tbl, s)
  BY <1>0, <1>6 DEF Calm, SameCalls, Phase
<1>11. lock = Closer
  BY <1>4, ThreadsApart DEF ServiceInv, LockInv, Holds
<1> QED
  BY <1>4, <1>6, <1>8, <1>9, <1>10, <1>11, CloserUnlock DEF SameCalls

\* The close tells its report to whoever waits for it.
LEMMA CloseReportsStep ==
  ASSUME ServiceInv, CloseReports
  PROVE  ServiceInv' /\ StepOK
<1>0. tbl \in TableType /\ TableInv(tbl, NoCall) /\ tbl.high \in Nat
  BY DEF ServiceInv, ServiceTypes, TableType
<1>1. PICK told : told = IF replies THEN tbl.closers ELSE {}
  OBVIOUS
<1>2. PICK o : o = {Reply(c, "report") : c \in told}
  OBVIOUS
<1>3. PICK n : n = Less(tbl.controls, Cardinality(told))
  OBVIOUS
<1>4. PICK s : s = [tbl EXCEPT !.report = TRUE, !.closers = {}, !.unflushed = 1,
                               !.others = @ \ told, !.controls = n, !.out = o]
  OBVIOUS
<1>5. /\ stage[Closer] = "report" /\ lock = NoThread /\ CloseUnlock(s, "drain")
      /\ UNCHANGED <<hostVars, closerUnchanged>>
  BY <1>1, <1>2, <1>3, <1>4 DEF CloseReports, Free
<1>6. told = tbl.closers
  <2>1. ReaderInv /\ CloseInv
    BY DEF ServiceInv
  <2>2. tbl.closeStarted
    BY <1>5, <2>1 DEF CloseInv
  <2> QED
    BY <1>1, <2>1, <2>2 DEF ReaderInv
<1>7. n \in Nat /\ o \subseteq ReplyType
  <2>1. tbl.closers \subseteq Calls /\ tbl.controls \in Nat
    BY <1>0 DEF TableType
  <2>2. n \in Nat
    BY <1>3, <1>6, <2>1, CountNat, LessNat
  <2>3. "report" \in Says /\ "Result" \in Views
    BY DEF Says, Views
  <2>4. {Reply(c, "report") : c \in tbl.closers} \subseteq ReplyType
    BY <2>1, <2>3 DEF Reply, ReplyType
  <2> QED
    BY <1>2, <1>6, <2>2, <2>4
<1>8. /\ SameQueues(tbl, s) /\ SameBusy(tbl, s)
      /\ s.high = tbl.high /\ s.req = tbl.req /\ s.revoked = tbl.revoked
      /\ s.closing = tbl.closing /\ s.closeStarted = tbl.closeStarted
      /\ s.rec = tbl.rec /\ s.retained = tbl.retained
      /\ s.held = tbl.held
  BY <1>0, <1>4 DEF TableType, SameQueues, SameBusy
<1>9. s.closers = {} /\ s.others = tbl.others \ tbl.closers
  BY <1>0, <1>4, <1>6 DEF TableType
<1>10. s \in TableType
  <2>1. tbl.others \ told \subseteq Calls
    BY <1>0 DEF TableType
  <2> QED
    BY ZenonT(60), <1>0, <1>4, <1>7, <2>1 DEF TableType
<1>11. TableInv(s, NoCall)
  BY <1>0, <1>8, <1>9, <1>10, QuietKeeps DEF SameRecords, SameBusy
<1>12. Calm(tbl, s)
  BY <1>0, <1>8 DEF Calm, Phase
<1> QED
  BY <1>5, <1>8, <1>9, <1>10, <1>11, <1>12, CloserUnlock

-----------------------------------------------------------------------------
(* Steps that move a call on. *)

\* How a step that starts no worker may change one call's record.
Moved(s, u, c) ==
  \/ Phase(u, c) = Phase(s, c) /\ u.rec[c].outcome = s.rec[c].outcome
  \/ Phase(s, c) = "Terminal" /\ Phase(u, c) = "None"
  \/ /\ Phase(s, c) \in {"Received", "Queued", "DirectWaiting"}
     /\ Phase(u, c) \in {"None", "Queued", "DirectWaiting", "Terminal"}
  \/ /\ Phase(s, c) = "None" /\ Phase(u, c) = "Received"
     /\ ~s.closing /\ ~(c <= s.high)

MovedStages ==
  \A c \in Calls :
    \/ stage'[c] = stage[c]
    \/ /\ stage[c] \notin {"none", "run", "reported"}
       /\ stage'[c] \notin {"none", "run", "reported"}

\* What a record's move from one phase to another asks of the threads.
LEMMA MoveKeeps ==
  ASSUME ServiceInv, tbl' \in TableType, tbl.high <= tbl'.high,
         \A d \in Calls : d <= tbl.high => tbl'.req[d] = tbl.req[d],
         tbl'.revoked = tbl.revoked, MovedStages, result' = result,
         \A c \in Calls : Moved(tbl, tbl', c)
  PROVE  ThreadInv' /\ ClassExclusion' /\ StepOK
<1>0. tbl.high \in Nat /\ tbl'.high \in Nat
  BY DEF ServiceInv, ServiceTypes, TableType
<1>1. ThreadInv'
  <2> SUFFICES ASSUME NEW c \in Calls PROVE (ThreadInv!(c))'
    BY DEF ThreadInv
  <2>1. ThreadInv!(c)
    BY DEF ServiceInv, ThreadInv
  <2>2. c \in Nat
    BY CallsNat
  <2>3. Moved(tbl, tbl', c)
    OBVIOUS
  <2>4. c \in tbl.revoked => tbl.closing
    BY DEF ServiceInv, CloseInv, Late
  <2>5. \/ stage'[c] = stage[c]
        \/ /\ stage[c] \notin {"none", "run", "reported"}
           /\ stage'[c] \notin {"none", "run", "reported"}
    BY DEF MovedStages
  <2> QED
    BY <1>0, <2>1, <2>2, <2>3, <2>4, <2>5 DEF Moved
<1>2. \A c \in Calls : stage'[c] = "run" => stage[c] = "run"
  BY DEF MovedStages
<1>3. ClassExclusion'
  <2>1. \A c \in Calls : stage[c] = "run" => tbl'.req[c] = tbl.req[c]
    BY DEF ServiceInv, ThreadInv
  <2> QED
    BY <1>2, <2>1 DEF ServiceInv, ClassExclusion, Executing
<1>4. StepOK
  <2>1. OutcomeStep
    BY DEF Moved, OutcomeStep
  <2>2. StartStep
    BY <1>2 DEF StartStep, Starts
  <2> QED
    BY <2>1, <2>2 DEF StepOK
<1> QED
  BY <1>1, <1>3, <1>4

\* The same for what the close has to know.
LEMMA MoveCloses ==
  ASSUME ServiceInv, stage'[Closer] = stage[Closer],
         tbl'.closing = tbl.closing, tbl'.closeStarted = tbl.closeStarted,
         tbl'.revoked = tbl.revoked, \A c \in Calls : Moved(tbl, tbl', c)
  PROVE  CloseInv'
<1>1. CloseInv
  BY DEF ServiceInv
<1>2. Late' <=> Late
  BY DEF Late
<1>3. ASSUME Late PROVE NotStarted(tbl') = {}
  <2>1. NotStarted(tbl) = {} /\ tbl.closing
    BY <1>1, <1>3 DEF CloseInv, Late
  <2>2. \A c \in Calls : Phase(tbl, c) \notin {"Received", "Queued", "DirectWaiting"}
    BY <2>1 DEF NotStarted
  <2>3. \A c \in Calls : Phase(tbl', c) \notin {"Received", "Queued", "DirectWaiting"}
    BY <2>1, <2>2 DEF Moved
  <2> QED
    BY <2>3 DEF NotStarted
<1> QED
  BY <1>1, <1>2, <1>3 DEF CloseInv

\* A section goes on to `schedule`.
LEMMA EnterSchedule ==
  ASSUME ServiceInv, Free, NEW t \in Threads, t \notin {Closer, Reads},
         NEW s \in TableType, ThenSchedule(t, s), s.high <= MaxCall,
         s.directRunning <= DirectLimit, UNCHANGED readerUnchanged
  PROVE  /\ ServiceTypes' /\ LockInv' /\ ScanInv' /\ StartInv'
         /\ stage'[t] = "sched" /\ tbl' = s
         /\ \A u \in Threads \ {t} : stage'[u] = stage[u]
         /\ replies' = replies /\ admitting' = admitting /\ result' = result
<1>1. /\ tbl' = s /\ lock' = t /\ scan' = [i |-> 1, blocked |-> {}, clear |-> FALSE]
      /\ Goto(t, "sched") /\ batch' = batch
  BY DEF ThenSchedule
<1>2. /\ StageTypes' /\ stage'[t] = "sched"
      /\ \A u \in Threads \ {t} : stage'[u] = stage[u]
  BY <1>1, GotoTypes DEF ReaderStages, AdmissionStages, WorkerStages
<1>3. scan' \in ScanType
  BY <1>1 DEF ScanType
<1>4. ServiceTypes'
  BY <1>1, <1>2, <1>3
     DEF ServiceInv, ServiceTypes, readerUnchanged, hostVars, closeVars
<1>5. LockInv'
  <2> SUFFICES ASSUME NEW u \in Threads PROVE (lock' = u) <=> Holds(u)'
    BY DEF LockInv
  <2>1. ~Holds(u)
    BY ThreadsApart DEF ServiceInv, LockInv, Free
  <2>2. CASE u = t
    BY <1>1, <1>2, <2>2 DEF Holds
  <2>3. CASE u # t
    BY <1>1, <1>2, <2>1, <2>3 DEF Holds
  <2> QED
    BY <2>2, <2>3
<1>6. ScanInv'
  <2>1. s.queue \in Seq(Calls)
    BY DEF TableType
  <2>2. scan'.i = 1 /\ scan'.blocked = {} /\ 1 .. scan'.i - 1 = {}
        /\ 1 \in 1 .. Len(s.queue) + 1
    BY <1>1, <2>1
  <2> QED
    BY <1>1, <2>2 DEF ScanInv
<1>7. StartInv'
  BY <1>1, ThreadsApart DEF StartInv, Free
<1> QED
  BY <1>1, <1>2, <1>4, <1>5, <1>6, <1>7 DEF readerUnchanged, closeVars

\* Outside the lock, what waits still cannot start.
LEMMA StartKept ==
  ASSUME NEW s \in TableType, TableInv(s, NoCall), NEW u \in TableType,
         u.queue = s.queue, SameBusy(s, u),
         \A d \in Calls : d <= s.high => u.req[d] = s.req[d]
  PROVE  \A i \in 1 .. Len(s.queue) : Stuck(s, i) => Stuck(u, i)
<1> SUFFICES ASSUME NEW i \in 1 .. Len(s.queue) PROVE Stuck(s, i) => Stuck(u, i)
  OBVIOUS
<1>0. s.queue \in Seq(Calls) /\ u.busy = s.busy
  BY DEF TableType, SameBusy
<1>1. \A j \in 1 .. Len(s.queue) : QueuedAt(u, j) = QueuedAt(s, j)
  BY <1>0 DEF QueuedAt, TableInv, LinesInv
<1>2. i \in Nat /\ \A j \in 1 .. i - 1 : j \in 1 .. Len(s.queue)
  BY <1>0
<1> QED
  BY <1>0, <1>1, <1>2 DEF Stuck

\* A section that frees nothing ends.
LEMMA FreeKept ==
  ASSUME ServiceInv, Free, tbl' \in TableType, tbl'.queue = tbl.queue,
         tbl'.directQueue = tbl.directQueue, SameBusy(tbl, tbl'),
         tbl'.closing = tbl.closing, lock' = lock,
         \A d \in Calls : d <= tbl.high => tbl'.req[d] = tbl.req[d]
  PROVE  ScanInv' /\ StartInv'
<1>1. \A i \in 1 .. Len(tbl.queue) : Stuck(tbl, i) => Stuck(tbl', i)
  BY StartKept DEF ServiceInv, ServiceTypes
<1>2. StartInv
  BY DEF ServiceInv
<1>3. tbl'.directRunning = tbl.directRunning /\ tbl'.running = tbl.running
  BY DEF SameBusy
<1>4. ScanInv'
  BY DEF ScanInv, Free
<1> QED
  BY <1>1, <1>2, <1>3, <1>4 DEF StartInv

\* A section ends with the replies of table `s` in the thread's batch.
LEMMA UnlockFacts ==
  ASSUME ServiceInv, Free, NEW t \in Threads, NEW label, NEW s \in TableType,
         Unlock(t, s, label), s.high <= MaxCall,
         stage[t] # "sched", label # "sched", t # Closer,
         t = Reader => label \in ReaderStages,
         t = Admission => label \in AdmissionStages,
         t = Reads => label \in ReadStages,
         t \in Calls => label \in WorkerStages,
         UNCHANGED <<scan, readerUnchanged>>
  PROVE  /\ ServiceTypes' /\ LockInv' /\ Same(s, tbl') /\ lock' = lock
         /\ stage'[t] = label /\ \A u \in Threads \ {t} : stage'[u] = stage[u]
         /\ replies' = replies /\ admitting' = admitting /\ result' = result
<1>1. /\ tbl' = [s EXCEPT !.out = {}] /\ batch' = [batch EXCEPT ![t] = s.out]
      /\ lock' = lock /\ Goto(t, label)
  BY DEF Unlock, Free
<1>2. tbl' \in TableType /\ Same(s, tbl')
  BY <1>1, HandedOut
<1>3. /\ StageTypes' /\ stage'[t] = label
      /\ \A u \in Threads \ {t} : stage'[u] = stage[u]
  BY <1>1, GotoTypes
<1>4. batch' \in [Threads -> SUBSET ReplyType]
  <2>1. s.out \subseteq ReplyType
    BY DEF TableType
  <2> QED
    BY <1>1, <2>1 DEF ServiceInv, ServiceTypes
<1>5. ServiceTypes'
  BY <1>1, <1>2, <1>3, <1>4
     DEF ServiceInv, ServiceTypes, readerUnchanged, hostVars, closeVars, Same,
         SameCalls
<1>6. LockInv'
  <2> SUFFICES ASSUME NEW u \in Threads PROVE (lock' = u) <=> Holds(u)'
    BY DEF LockInv
  <2>1. (lock = u) <=> Holds(u)
    BY DEF ServiceInv, LockInv
  <2>2. Holds(u)' <=> Holds(u)
    BY <1>3 DEF Holds
  <2> QED
    BY <1>1, <2>1, <2>2
<1> QED
  BY <1>1, <1>2, <1>3, <1>5, <1>6 DEF readerUnchanged, closeVars

\* A call arrives and gets a record.
LEMMA ReceiveCallStep ==
  ASSUME ServiceInv, ReceiveCall
  PROVE  ServiceInv' /\ StepOK
<1>0. /\ Free /\ stage[Reader] = "counted" /\ UNCHANGED <<scan, readerUnchanged>>
      /\ ~tbl.closing
  BY DEF ReceiveCall, Takes, ReceiveEnabled, Refuses
<1>1. PICK f : f = Fresh
  OBVIOUS
<1>2. PICK c : c = Call
  OBVIOUS
<1>3. /\ f \in TableType /\ TableInv(f, NoCall) /\ Calm(tbl, f)
      /\ c \in Calls /\ c <= MaxCall /\ c = f.high /\ Phase(f, c) = "None"
      /\ \A d \in Calls : d <= tbl.high => d # c
      /\ f.rec = tbl.rec /\ SameWaits(tbl, f)
      /\ SameBusy(tbl, f) /\ SameQueues(tbl, f)
      /\ \A i \in 1 .. Len(f.queue) : f.queue[i] < c
      /\ \A i \in 1 .. Len(f.pending) : f.pending[i] < c
  BY <1>0, <1>1, <1>2, FreshFacts
<1>4. PICK s : s = Create(f, c)
  OBVIOUS
<1>a. c <= f.high
  BY <1>3, CallsNat
<1>5. /\ s \in TableType /\ TableInv(s, NoCall)
      /\ SameCalls(f, s) /\ SameBusy(f, s) /\ SameWaits(f, s)
      /\ s.queue = f.queue /\ s.directQueue = f.directQueue
      /\ s.pending = Append(f.pending, c)
      /\ Phase(s, c) = "Received"
      /\ \A d \in Calls \ {c} : s.rec[d] = f.rec[d]
  BY <1>3, <1>4, <1>a, CreateKeeps
<1>6. Unlock(Reader, s, "mark")
  BY <1>1, <1>2, <1>4 DEF ReceiveCall
<1>7. s.high <= MaxCall
  BY <1>3, <1>5 DEF SameCalls
<1>8. /\ ServiceTypes' /\ LockInv' /\ Same(s, tbl') /\ lock' = lock
      /\ stage'[Reader] = "mark"
      /\ \A u \in Threads \ {Reader} : stage'[u] = stage[u]
      /\ replies' = replies /\ admitting' = admitting /\ result' = result
  BY <1>0, <1>5, <1>6, <1>7, UnlockFacts, ThreadsApart DEF ReaderStages
<1>9. tbl' \in TableType /\ TableInv(tbl', NoCall)
  BY <1>5, <1>8, SameKeeps DEF ServiceTypes
<1>10. /\ tbl'.high = c /\ tbl'.revoked = tbl.revoked
       /\ tbl'.closing = tbl.closing /\ tbl'.closeStarted = tbl.closeStarted
       /\ tbl'.closers = tbl.closers
       /\ tbl'.queue = tbl.queue /\ tbl'.directQueue = tbl.directQueue
       /\ tbl'.pending = Append(tbl.pending, c) /\ SameBusy(tbl, tbl')
       /\ \A d \in Calls : d <= tbl.high => tbl'.req[d] = tbl.req[d]
       /\ tbl.high <= tbl'.high
  BY <1>3, <1>5, <1>8
     DEF Same, SameCalls, SameWaits, SameBusy, SameQueues, Calm
<1>11. /\ Phase(tbl, c) = "None" /\ Phase(tbl', c) = "Received"
       /\ \A d \in Calls \ {c} : tbl'.rec[d] = tbl.rec[d]
  BY <1>3, <1>5, <1>8 DEF Same, Phase
<1>12. \A d \in Calls : Moved(tbl, tbl', d)
  BY <1>0, <1>3, <1>11 DEF Moved, Phase
<1>13. MovedStages /\ stage'[Closer] = stage[Closer]
       /\ stage'[Admission] = stage[Admission]
  BY <1>8, ThreadsApart DEF MovedStages
<1>14. ThreadInv' /\ ClassExclusion' /\ StepOK
  BY <1>8, <1>9, <1>10, <1>12, <1>13, MoveKeeps
<1>15. CloseInv'
  BY <1>10, <1>12, <1>13, MoveCloses
<1>16. ReaderInv'
  BY <1>0, <1>8, <1>10, ReaderMoves
<1>17. ScanInv' /\ StartInv'
  BY <1>0, <1>8, <1>9, <1>10, FreeKept
<1>18. PendingInv'
  <2>0. tbl.pending \in Seq(Calls) /\ tbl.queue \in Seq(Calls) /\ tbl.high \in Nat
    BY DEF ServiceInv, ServiceTypes, TableType
  <2>1. PendingInv
    BY DEF ServiceInv
  <2>2. /\ Len(tbl'.pending) = Len(tbl.pending) + 1
        /\ tbl'.pending[Len(tbl.pending) + 1] = c
        /\ \A i \in 1 .. Len(tbl.pending) : tbl'.pending[i] = tbl.pending[i]
        /\ \A i \in 1 .. Len(tbl.pending) + 1 :
             i \in 1 .. Len(tbl.pending) \/ i = Len(tbl.pending) + 1
        /\ Len(tbl.pending) \in Nat
    BY <1>3, <1>10, <2>0, AppendFacts
  <2>3. InSeq(c, tbl'.pending)
        /\ \A d \in Calls : InSeq(d, tbl.pending) => InSeq(d, tbl'.pending)
    BY <2>2 DEF InSeq
  <2>4. ASSUME NEW d \in Calls, Phase(tbl', d) = "Received"
        PROVE  \/ InSeq(d, tbl'.pending)
               \/ stage'[Admission] = "resolve" /\ admitting'.call = d
               \/ stage'[Closer] = "settle"
    <3>1. CASE d = c
      BY <2>3, <3>1
    <3>2. CASE d # c
      <4>1. Phase(tbl, d) = "Received"
        BY <1>11, <2>4, <3>2 DEF Phase
      <4> QED
        BY <1>8, <1>13, <2>1, <2>3, <4>1 DEF PendingInv
    <3> QED
      BY <3>1, <3>2
  <2>5. ASSUME stage'[Admission] = "resolve"
        PROVE /\ admitting'.call \in Calls /\ admitting'.call <= tbl'.high
              /\ \A i \in 1 .. Len(tbl'.queue) : tbl'.queue[i] < admitting'.call
              /\ \A j \in 1 .. Len(tbl'.pending) : admitting'.call < tbl'.pending[j]
    <3>1. /\ admitting.call \in Calls /\ admitting.call <= tbl.high
          /\ \A i \in 1 .. Len(tbl.queue) : tbl.queue[i] < admitting.call
          /\ \A j \in 1 .. Len(tbl.pending) : admitting.call < tbl.pending[j]
      BY <1>13, <2>1, <2>5 DEF PendingInv
    <3>2. admitting.call < c /\ admitting.call <= tbl'.high
      <4>1. admitting.call \in Nat /\ c \in Nat /\ admitting.call # c
        BY <1>3, <3>1, CallsNat
      <4> QED
        BY <1>10, <2>0, <3>1, <4>1
    <3>3. \A j \in 1 .. Len(tbl'.pending) : admitting.call < tbl'.pending[j]
      BY <2>2, <3>1, <3>2
    <3> QED
      BY <1>8, <1>10, <3>1, <3>2, <3>3
  <2> QED
    BY <2>4, <2>5 DEF PendingInv
<1> QED
  BY <1>8, <1>9, <1>14, <1>15, <1>16, <1>17, <1>18 DEF ServiceInv

\* The admission thread's call stays where it is while others leave the lines.
LEMMA PendingKept ==
  ASSUME ServiceInv, tbl'.pending = tbl.pending, tbl'.high = tbl.high,
         \A i \in 1 .. Len(tbl'.queue) : InSeq(tbl'.queue[i], tbl.queue),
         \A c \in Calls : Phase(tbl', c) = "Received" => Phase(tbl, c) = "Received",
         stage'[Admission] = stage[Admission], admitting' = admitting,
         stage[Closer] = "settle" => stage'[Closer] = "settle"
  PROVE  PendingInv'
<1>1. PendingInv
  BY DEF ServiceInv
<1>2. \A c \in Calls : Phase(tbl', c) = "Received" =>
       \/ InSeq(c, tbl'.pending)
       \/ stage'[Admission] = "resolve" /\ admitting'.call = c
       \/ stage'[Closer] = "settle"
  BY <1>1 DEF PendingInv
<1>3. stage'[Admission] = "resolve" =>
       \A i \in 1 .. Len(tbl'.queue) : tbl'.queue[i] < admitting'.call
  BY <1>1 DEF PendingInv, InSeq
<1>4. stage'[Admission] = "resolve" =>
       /\ admitting'.call \in Calls /\ admitting'.call <= tbl'.high
       /\ \A j \in 1 .. Len(tbl'.pending) : admitting'.call < tbl'.pending[j]
  BY <1>1 DEF PendingInv
<1> QED
  BY <1>2, <1>3, <1>4 DEF PendingInv

\* A cancellation arrives.
LEMMA ReceiveCancelStep ==
  ASSUME ServiceInv, ReceiveCancel
  PROVE  ServiceInv' /\ StepOK
<1>0. /\ Free /\ stage[Reader] = "counted" /\ UNCHANGED readerUnchanged
      /\ incoming.type \in {"Cancel", "CancelOp"}
  BY DEF ReceiveCancel, Takes, ReceiveEnabled
<1>1. PICK f : f = Fresh
  OBVIOUS
<1>2. PICK c : c = Call
  OBVIOUS
<1>3. /\ f \in TableType /\ TableInv(f, NoCall) /\ Calm(tbl, f)
      /\ c \in Calls /\ c <= MaxCall /\ c = f.high /\ f.req[c] = incoming
      /\ f.rec = tbl.rec /\ SameWaits(tbl, f)
      /\ SameBusy(tbl, f) /\ SameQueues(tbl, f)
  BY <1>0, <1>1, <1>2, FreshFacts
<1>4. PICK o : o = f.req[c].target
  OBVIOUS
<1>5. PICK s : s = Cancel(f, c)
  OBVIOUS
<1>a. c <= f.high /\ Control(f.req[c])
  BY <1>0, <1>3, CallsNat DEF Control
<1>6. /\ s \in TableType /\ TableInv(s, NoCall)
      /\ SameCalls(f, s) /\ SameWaits(f, s) /\ s.pending = f.pending
      /\ s.directRunning = f.directRunning
      /\ IF CancelFinds(f, c) /\ Waiting(f, o)
         THEN /\ o \in Calls /\ Phase(s, o) \in {"None", "Terminal"}
              /\ s.queue = Without(f.queue, o)
              /\ \A d \in Calls \ {o} :
                   /\ Phase(s, d) = Phase(f, d)
                   /\ s.rec[d].outcome = f.rec[d].outcome
         ELSE /\ SameQueues(f, s) /\ SameBusy(f, s)
              /\ \A d \in Calls :
                   /\ Phase(s, d) = Phase(f, d)
                   /\ s.rec[d].outcome = f.rec[d].outcome
  BY <1>3, <1>4, <1>5, <1>a, CancelKeeps
<1>7. Waiting(f, o) <=> Waiting(tbl, incoming.target)
  BY <1>3, <1>4 DEF Waiting, Phase
<1>8. CASE ~(CancelFinds(f, c) /\ Waiting(f, o))
  <2>1. Unlock(Reader, s, "mark") /\ scan' = scan
    BY <1>1, <1>2, <1>5, <1>7, <1>8 DEF ReceiveCancel
  <2> QED
    BY <1>0, <1>1, <1>6, <1>8, <2>1, TakenCalm DEF SameWaits
<1>9. CASE CancelFinds(f, c) /\ Waiting(f, o)
  <2>1. ThenSchedule(Reader, s)
    BY <1>1, <1>2, <1>5, <1>7, <1>9 DEF ReceiveCancel
  <2>2. s.high <= MaxCall /\ s.directRunning <= DirectLimit
    BY <1>3, <1>6 DEF SameCalls, SameBusy, ServiceInv, StartInv
  <2>3. /\ ServiceTypes' /\ LockInv' /\ ScanInv' /\ StartInv'
        /\ stage'[Reader] = "sched" /\ tbl' = s
        /\ \A u \in Threads \ {Reader} : stage'[u] = stage[u]
        /\ replies' = replies /\ admitting' = admitting /\ result' = result
    BY <1>0, <1>6, <2>1, <2>2, EnterSchedule, ThreadsApart
  <2>4. /\ Phase(tbl, o) \in {"Received", "Queued", "DirectWaiting"}
        /\ Phase(tbl', o) \in {"None", "Terminal"}
        /\ \A d \in Calls \ {o} : /\ Phase(tbl', d) = Phase(tbl, d)
                                  /\ tbl'.rec[d].outcome = tbl.rec[d].outcome
    BY <1>3, <1>6, <1>9, <2>3 DEF Waiting, Phase
  <2>5. \A d \in Calls : Moved(tbl, tbl', d)
    BY <2>4 DEF Moved
  <2>6. /\ tbl'.high = c /\ tbl'.revoked = tbl.revoked
        /\ tbl'.closing = tbl.closing /\ tbl'.closeStarted = tbl.closeStarted
        /\ tbl'.closers = tbl.closers /\ tbl'.pending = tbl.pending
        /\ \A d \in Calls : d <= tbl.high => tbl'.req[d] = tbl.req[d]
        /\ tbl.high <= tbl'.high
        /\ tbl'.queue = Without(tbl.queue, o)
    BY <1>3, <1>6, <1>9, <2>3
       DEF SameCalls, SameWaits, SameQueues, Calm
  <2>7. MovedStages /\ stage'[Closer] = stage[Closer]
        /\ stage'[Admission] = stage[Admission]
    BY <2>3, ThreadsApart DEF MovedStages
  <2>8. tbl' \in TableType /\ TableInv(tbl', NoCall)
    BY <1>6, <2>3
  <2>9. ThreadInv' /\ ClassExclusion' /\ StepOK
    BY <2>3, <2>5, <2>6, <2>7, <2>8, MoveKeeps
  <2>10. CloseInv'
    BY <2>5, <2>6, <2>7, MoveCloses
  <2>11. ReaderInv'
    BY <1>0, <2>3, <2>6, ReaderMoves
  <2>12. PendingInv'
    <3>1. tbl.queue \in Seq(Calls) /\ o \in Calls /\ tbl.high \in Nat
      BY <1>6, <1>9 DEF ServiceInv, ServiceTypes, TableType
    <3>2. PICK p : p = Without(tbl.queue, o)
      OBVIOUS
    <3>3. \A i \in 1 .. Len(p) : InSeq(p[i], tbl.queue)
      BY <3>1, <3>2, WithoutFacts
    <3>4. \A d \in Calls : Phase(tbl', d) = "Received" => Phase(tbl, d) = "Received"
      BY <2>4
    <3>5. PendingInv
      BY DEF ServiceInv
    <3>6. \A d \in Calls : Phase(tbl', d) = "Received" =>
            \/ InSeq(d, tbl'.pending)
            \/ stage'[Admission] = "resolve" /\ admitting'.call = d
            \/ stage'[Closer] = "settle"
      BY <2>3, <2>6, <2>7, <3>4, <3>5 DEF PendingInv
    <3>7. stage'[Admission] = "resolve" =>
            \A i \in 1 .. Len(p) : p[i] < admitting.call
      BY <2>7, <3>3, <3>5 DEF PendingInv, InSeq
    <3>8. stage'[Admission] = "resolve" =>
            /\ admitting.call \in Calls /\ admitting.call <= tbl.high
            /\ \A j \in 1 .. Len(tbl.pending) : admitting.call < tbl.pending[j]
      BY <2>7, <3>5 DEF PendingInv
    <3>9. stage'[Admission] = "resolve" => admitting.call <= tbl'.high
      BY <1>3, <2>6, <3>1, <3>8, CallsNat
    <3> QED
      BY <2>3, <2>6, <3>2, <3>6, <3>7, <3>8, <3>9 DEF PendingInv
  <2> QED
    BY <2>3, <2>8, <2>9, <2>10, <2>11, <2>12 DEF ServiceInv
<1> QED
  BY <1>8, <1>9

-----------------------------------------------------------------------------
(* The admission thread. *)

\* Calls leave the pending line or the direct line.
LEMMA LinesCut ==
  ASSUME NEW s \in TableType, NEW u \in TableType, TableInv(s, NoCall),
         u.rec = s.rec, u.high = s.high, u.req = s.req, u.busy = s.busy,
         u.retained = s.retained, u.others = s.others, SameWaits(s, u),
         u.queue = s.queue,
         \A i \in 1 .. Len(u.pending) : InSeq(u.pending[i], s.pending),
         \A i, j \in 1 .. Len(u.pending) : i < j => u.pending[i] < u.pending[j],
         \/ u.directQueue = s.directQueue
         \/ /\ u.directQueue = <<>>
            /\ \A c \in Calls : Phase(s, c) # "DirectWaiting"
  PROVE  TableInv(u, NoCall)
<1>0. /\ \A c \in Calls : Phase(u, c) = Phase(s, c)
      /\ s.retained \in Seq(Calls) /\ s.queue \in Seq(Calls)
  BY DEF Phase, TableType
<1>a. LinesInv(s)
  BY DEF TableInv
<1>1. RecordInv(u)
  BY DEF TableInv, RecordInv
<1>2. LinesInv(u)
  <2>1. \A i \in 1 .. Len(u.pending) : u.pending[i] <= s.high
    BY <1>a DEF LinesInv, InSeq
  <2>2. \A i \in 1 .. Len(s.queue), j \in 1 .. Len(u.pending) :
          s.queue[i] < u.pending[j]
    BY <1>a DEF LinesInv, InSeq
  <2>3. /\ \A i \in 1 .. Len(s.queue) :
             /\ s.queue[i] <= s.high /\ IsOperation(s.req[s.queue[i]])
             /\ Phase(u, s.queue[i]) \in {"None", "Queued", "Terminal"}
        /\ \A i, j \in 1 .. Len(s.queue) : i < j => s.queue[i] < s.queue[j]
        /\ \A i \in 1 .. Len(s.retained) : Phase(u, s.retained[i]) = "Terminal"
        /\ \A i, j \in 1 .. Len(s.retained) :
             i < j => s.retained[i] # s.retained[j]
    BY <1>0, <1>a DEF LinesInv
  <2>4. \A i \in 1 .. Len(u.directQueue) :
          /\ u.directQueue[i] <= s.high
          /\ ~IsOperation(s.req[u.directQueue[i]])
    <3>1. CASE u.directQueue = s.directQueue
      BY <1>a, <3>1 DEF LinesInv
    <3>2. CASE u.directQueue = <<>>
      BY <3>2
    <3> QED
      BY <3>1, <3>2
  <2> QED
    BY <2>1, <2>2, <2>3, <2>4 DEF LinesInv
<1>3. PlacedInv(u, NoCall)
  BY <1>0 DEF TableInv, PlacedInv
<1>4. BusyInv(u)
  <2>1. ASSUME NEW w, NEW k PROVE ClassOps(u, w, k) = ClassOps(s, w, k)
    BY <1>0 DEF ClassOps
  <2> QED
    BY <2>1 DEF TableInv, BusyInv
<1>5. WaitInv(u)
  BY DEF TableInv, WaitInv, SameWaits
<1> QED
  BY <1>1, <1>2, <1>3, <1>4, <1>5 DEF TableInv

\* The rest of a queue.
LEMMA TailFacts ==
  ASSUME NEW q \in Seq(Calls), q # <<>>
  PROVE  /\ Tail(q) \in Seq(Calls) /\ Len(q) \in Nat /\ Len(q) >= 1
         /\ Len(Tail(q)) = Len(q) - 1
         /\ \A i \in 1 .. Len(q) - 1 : Tail(q)[i] = q[i + 1]
         /\ Head(q) = q[1]
  OBVIOUS

\* The admission thread takes the first pending call.
LEMMA AdmissionPopStep ==
  ASSUME ServiceInv, AdmissionPop
  PROVE  ServiceInv' /\ StepOK
<1>0. /\ stage[Admission] = "idle" /\ Free /\ tbl.pending # <<>>
      /\ tbl' = [tbl EXCEPT !.pending = Tail(@)]
      /\ UNCHANGED <<lock, scan, batch, incoming, result, hostVars, closeVars>>
  BY DEF AdmissionPop
<1>1. PICK q : q = tbl.pending
  OBVIOUS
<1>2. PICK c : c = Head(q)
  OBVIOUS
<1>3. tbl \in TableType /\ TableInv(tbl, NoCall) /\ q \in Seq(Calls)
      /\ tbl.high \in Nat
  BY <1>1 DEF ServiceInv, ServiceTypes, TableType
<1>4. /\ Tail(q) \in Seq(Calls) /\ Len(q) \in Nat /\ Len(q) >= 1
      /\ Len(Tail(q)) = Len(q) - 1
      /\ \A i \in 1 .. Len(q) - 1 : Tail(q)[i] = q[i + 1]
      /\ Head(q) = q[1]
  BY <1>0, <1>1, <1>3, TailFacts
<1>5. PICK p : p = Tail(q)
  OBVIOUS
<1>6. tbl' = [tbl EXCEPT !.pending = p]
  BY <1>0, <1>1, <1>5
<1>7. /\ p \in Seq(Calls) /\ c = q[1] /\ c \in Calls /\ 1 \in 1 .. Len(q)
      /\ \A i \in 1 .. Len(p) : i + 1 \in 1 .. Len(q) /\ p[i] = q[i + 1]
      /\ \A j \in 1 .. Len(q) :
           j # 1 => j - 1 \in 1 .. Len(p) /\ p[j - 1] = q[j]
  <2>1. /\ p \in Seq(Calls) /\ Len(p) = Len(q) - 1 /\ c = q[1] /\ 1 \in 1 .. Len(q)
        /\ \A i \in 1 .. Len(q) - 1 : p[i] = q[i + 1]
    BY <1>2, <1>4, <1>5
  <2>2. c \in Calls
    BY <1>3, <2>1
  <2>3. \A i \in 1 .. Len(p) : i + 1 \in 1 .. Len(q) /\ p[i] = q[i + 1]
    BY <1>4, <2>1
  <2>4. ASSUME NEW j \in 1 .. Len(q), j # 1
        PROVE  j - 1 \in 1 .. Len(p) /\ p[j - 1] = q[j]
    <3>1. j - 1 \in 1 .. Len(q) - 1 /\ (j - 1) + 1 = j
      BY <1>4, <2>4
    <3> QED
      BY <2>1, <3>1
  <2> QED
    BY <2>1, <2>2, <2>3, <2>4
<1>8. /\ tbl' \in TableType /\ SameCalls(tbl, tbl') /\ SameBusy(tbl, tbl')
      /\ SameWaits(tbl, tbl') /\ tbl'.rec = tbl.rec
      /\ tbl'.retained = tbl.retained /\ tbl'.others = tbl.others
      /\ tbl'.queue = tbl.queue /\ tbl'.directQueue = tbl.directQueue
      /\ tbl'.pending = p
  BY <1>3, <1>6, <1>7 DEF TableType, SameCalls, SameBusy, SameWaits
<1>9. \A i, j \in 1 .. Len(q) : i < j => q[i] < q[j]
  BY <1>1, <1>3 DEF TableInv, LinesInv
<1>10. /\ \A i \in 1 .. Len(p) : InSeq(p[i], q)
       /\ \A i, j \in 1 .. Len(p) : i < j => p[i] < p[j]
       /\ \A i \in 1 .. Len(p) : c < p[i]
       /\ \A d \in Calls \ {c} : InSeq(d, q) => InSeq(d, p)
  <2>1. \A i \in 1 .. Len(p) : InSeq(p[i], q)
    BY <1>7 DEF InSeq
  <2>2. ASSUME NEW i \in 1 .. Len(p), NEW j \in 1 .. Len(p), i < j
        PROVE  p[i] < p[j]
    <3>1. i + 1 < j + 1 /\ i + 1 \in 1 .. Len(q) /\ j + 1 \in 1 .. Len(q)
      BY <1>7, <2>2
    <3> QED
      BY <1>7, <1>9, <3>1
  <2>3. ASSUME NEW i \in 1 .. Len(p) PROVE c < p[i]
    <3>1. 1 < i + 1 /\ i + 1 \in 1 .. Len(q)
      BY <1>7
    <3> QED
      BY <1>7, <1>9, <3>1
  <2>4. \A d \in Calls \ {c} : InSeq(d, q) => InSeq(d, p)
    BY <1>7 DEF InSeq
  <2> QED
    BY <2>1, <2>2, <2>3, <2>4
<1>11. TableInv(tbl', NoCall)
  BY <1>1, <1>3, <1>8, <1>10, LinesCut DEF SameCalls, SameBusy
<1>12. PICK label \in {"idle", "resolve"} :
         /\ Goto(Admission, label)
         /\ label = "resolve" <=> Phase(tbl, c) = "Received"
         /\ label = "resolve" =>
              admitting' = [call |-> c, cancelled |-> c \in tbl.cancelled]
         /\ label = "idle" => admitting' = admitting
  <2>1. CASE Phase(tbl, c) = "Received"
    BY <1>1, <1>2, <2>1 DEF AdmissionPop
  <2>2. CASE Phase(tbl, c) # "Received"
    <3>1. stage' = stage /\ admitting' = admitting
      BY <1>1, <1>2, <2>2 DEF AdmissionPop
    <3>2. stage \in [Threads -> AllStages]
      BY DEF ServiceInv, ServiceTypes, StageTypes
    <3>3. stage' = [stage EXCEPT ![Admission] = "idle"]
      BY <1>0, <3>1, <3>2, ThreadsApart
    <3> QED
      BY <2>2, <3>1, <3>3 DEF Goto
  <2> QED
    BY <2>1, <2>2
<1>13. /\ StageTypes' /\ stage'[Admission] = label
       /\ \A u \in Threads \ {Admission} : stage'[u] = stage[u]
  BY <1>12, GotoTypes, ThreadsApart DEF AdmissionStages
<1>14. LockInv'
  <2> SUFFICES ASSUME NEW u \in Threads PROVE (lock' = u) <=> Holds(u)'
    BY DEF LockInv
  <2>1. (lock = u) <=> Holds(u)
    BY DEF ServiceInv, LockInv
  <2>2. Holds(u)' <=> Holds(u)
    BY <1>0, <1>12, <1>13, ThreadsApart DEF Holds
  <2> QED
    BY <1>0, <2>1, <2>2
<1>15. ServiceTypes'
  <2>1. admitting' \in [call : Calls \cup {NoCall}, cancelled : BOOLEAN]
    <3>1. admitting \in [call : Calls \cup {NoCall}, cancelled : BOOLEAN]
      BY DEF ServiceInv, ServiceTypes
    <3>2. PICK b \in BOOLEAN : b = (c \in tbl.cancelled)
      <4>1. CASE c \in tbl.cancelled
        <5>1. TRUE = (c \in tbl.cancelled)
          BY <4>1
        <5> QED
          BY <5>1, Zenon
      <4>2. CASE c \notin tbl.cancelled
        <5>1. FALSE = (c \in tbl.cancelled)
          BY <4>2
        <5> QED
          BY <5>1, Zenon
      <4> QED
        BY <4>1, <4>2
    <3>3. [call |-> c, cancelled |-> b]
            \in [call : Calls \cup {NoCall}, cancelled : BOOLEAN]
      BY <1>7, <3>2
    <3>4. label = "resolve" => admitting' = [call |-> c, cancelled |-> b]
      BY <1>12, <3>2
    <3> QED
      BY <1>12, <3>1, <3>3, <3>4
  <2> QED
    BY <1>0, <1>8, <1>13, <2>1
       DEF ServiceInv, ServiceTypes, hostVars, closeVars, SameCalls
<1>16. \A d \in Calls : Phase(tbl', d) = Phase(tbl, d) /\ Moved(tbl, tbl', d)
  BY <1>8 DEF Moved, Phase
<1>17. MovedStages /\ stage'[Closer] = stage[Closer]
       /\ stage'[Reader] = stage[Reader]
  BY <1>13, ThreadsApart DEF MovedStages
<1>18. ThreadInv' /\ ClassExclusion' /\ StepOK
  <2>1. /\ tbl.high <= tbl'.high /\ tbl'.revoked = tbl.revoked
        /\ tbl'.req = tbl.req
    BY <1>3, <1>8 DEF SameCalls
  <2>2. tbl' \in TableType /\ result' = result
    BY <1>0, <1>8
  <2> QED
    BY <1>16, <1>17, <2>1, <2>2, MoveKeeps
<1>19. CloseInv' /\ ReaderInv'
  BY <1>0, <1>8, <1>16, <1>17, MoveCloses, ReaderKept
     DEF SameCalls, SameWaits, closeVars
<1>20. ScanInv' /\ StartInv'
  BY <1>0, <1>8, FreeKept DEF SameCalls
<1>21. PendingInv'
  <2>1. PendingInv
    BY DEF ServiceInv
  <2>2. ASSUME NEW d \in Calls, Phase(tbl', d) = "Received"
        PROVE  \/ InSeq(d, tbl'.pending)
               \/ stage'[Admission] = "resolve" /\ admitting'.call = d
               \/ stage'[Closer] = "settle"
    <3>1. Phase(tbl, d) = "Received"
      BY <1>16, <2>2
    <3>2. CASE d = c
      BY <1>12, <1>13, <3>1, <3>2
    <3>3. CASE d # c
      <4>1. InSeq(d, q) \/ stage[Closer] = "settle"
        BY <1>0, <1>1, <2>1, <3>1 DEF PendingInv
      <4> QED
        BY <1>8, <1>10, <1>17, <3>3, <4>1
    <3> QED
      BY <3>2, <3>3
  <2>3. ASSUME stage'[Admission] = "resolve"
        PROVE /\ admitting'.call \in Calls /\ admitting'.call <= tbl'.high
              /\ \A i \in 1 .. Len(tbl'.queue) : tbl'.queue[i] < admitting'.call
              /\ \A j \in 1 .. Len(tbl'.pending) : admitting'.call < tbl'.pending[j]
    <3>1. admitting'.call = c
      BY <1>12, <1>13, <2>3
    <3>2. c <= tbl.high /\ \A i \in 1 .. Len(tbl.queue) : tbl.queue[i] < c
      BY <1>1, <1>3, <1>7 DEF TableInv, LinesInv
    <3> QED
      BY <1>7, <1>8, <1>10, <3>1, <3>2 DEF SameCalls
  <2> QED
    BY <2>2, <2>3 DEF PendingInv
<1> QED
  BY <1>11, <1>14, <1>15, <1>18, <1>19, <1>20, <1>21 DEF ServiceInv

\* The admission thread is done with its call.
LEMMA AdmitPending ==
  ASSUME ServiceInv, stage[Admission] = "resolve", stage'[Admission] # "resolve",
         stage'[Closer] = stage[Closer], tbl'.pending = tbl.pending,
         \A d \in Calls : Phase(tbl', d) = "Received" =>
           Phase(tbl, d) = "Received" /\ d # admitting.call
  PROVE  PendingInv'
<1>1. PendingInv
  BY DEF ServiceInv
<1>2. \A d \in Calls : Phase(tbl', d) = "Received" =>
       \/ InSeq(d, tbl'.pending)
       \/ stage'[Admission] = "resolve" /\ admitting'.call = d
       \/ stage'[Closer] = "settle"
  BY <1>1 DEF PendingInv
<1> QED
  BY <1>2 DEF PendingInv

\* What `admit` meets once its batch is counted.
LEMMA AdmitFacts ==
  ASSUME ServiceInv, stage[Admission] = "resolve",
         NEW s, s = [tbl EXCEPT !.unflushed = @ + 1],
         NEW c, c = admitting.call
  PROVE  /\ s \in TableType /\ TableInv(s, NoCall) /\ Same(tbl, s)
         /\ Calm(tbl, s) /\ c \in Calls /\ s.high <= MaxCall
         /\ \A i \in 1 .. Len(s.queue) : s.queue[i] < c
         /\ \A j \in 1 .. Len(s.pending) : c < s.pending[j]
<1>0. tbl \in TableType /\ TableInv(tbl, NoCall) /\ tbl.high <= MaxCall
  BY DEF ServiceInv, ServiceTypes
<1>1. tbl.unflushed + 1 \in Nat /\ s = [tbl EXCEPT !.unflushed = tbl.unflushed + 1]
  BY <1>0 DEF TableType
<1>2. s \in TableType /\ Same(tbl, s)
  BY <1>0, <1>1, Recounted
<1>3. TableInv(s, NoCall) /\ Calm(tbl, s)
  BY <1>0, <1>2, SameKeeps
<1>4. PendingInv
  BY DEF ServiceInv
<1>5. s.queue = tbl.queue /\ s.pending = tbl.pending /\ s.high = tbl.high
  BY <1>2 DEF Same, SameQueues, SameCalls
<1> QED
  BY <1>0, <1>2, <1>3, <1>4, <1>5 DEF PendingInv

\* Resolution ends for a call settled meanwhile.
LEMMA AdmitNone ==
  ASSUME ServiceInv, stage[Admission] = "resolve", Free,
         Phase(tbl, admitting.call) # "Received",
         NEW s, s = [tbl EXCEPT !.unflushed = @ + 1],
         Unlock(Admission, s, "mark"), UNCHANGED <<scan, readerUnchanged>>
  PROVE  ServiceInv' /\ StepOK
<1>1. /\ s \in TableType /\ TableInv(s, NoCall) /\ Same(tbl, s)
      /\ Calm(tbl, s) /\ s.high <= MaxCall
  BY AdmitFacts
<1>2. /\ ServiceTypes' /\ LockInv' /\ Same(s, tbl') /\ lock' = lock
      /\ stage'[Admission] = "mark"
      /\ \A u \in Threads \ {Admission} : stage'[u] = stage[u]
      /\ replies' = replies /\ admitting' = admitting /\ result' = result
  BY <1>1, UnlockFacts, ThreadsApart DEF AdmissionStages
<1>3. tbl' \in TableType
  BY <1>2 DEF ServiceTypes
<1>4. TableInv(tbl', NoCall) /\ Calm(s, tbl')
  BY <1>1, <1>2, <1>3, SameKeeps
<1>5. Calm(tbl, tbl')
  BY <1>1, <1>3, <1>4, CalmThen DEF ServiceInv, ServiceTypes
<1>6. CalmStages
  BY <1>2, ThreadsApart DEF CalmStages
<1>7. ReaderInv'
  <2>1. stage'[Reader] = stage[Reader]
    BY <1>2, ThreadsApart
  <2> QED
    BY <1>1, <1>2, <2>1, ReaderKept DEF Same, SameCalls, SameWaits
<1> QED
  BY <1>2, <1>4, <1>5, <1>6, <1>7, CalmStep

\* Settling a call, in a table where every call is in its place.
LEMMA SettleAt ==
  ASSUME NEW s \in TableType, NEW c \in Calls,
         NEW outcome \in Outcomes \ {"None"}, TableInv(s, NoCall),
         NEW v, v = Settle(s, c, outcome)
  PROVE  /\ v \in TableType /\ TableInv(v, NoCall)
         /\ SameCalls(s, v) /\ SameQueues(s, v) /\ SameWaits(s, v)
         /\ v.directRunning = s.directRunning
         /\ \A d \in Calls \ {c} : v.rec[d] = s.rec[d]
         /\ Phase(v, c) \in {"None", "Terminal"}
         /\ Settled(s, c) => v = s
         /\ ~Settled(s, c) => Freed(s, v, c)
<1>1. TableInv(s, c)
  BY CallsNat DEF TableInv, PlacedInv, NoCall
<1> QED
  BY <1>1, SettleLeaves

\* Resolution ends and the call is settled.
LEMMA AdmitSettles ==
  ASSUME ServiceInv, stage[Admission] = "resolve", Free,
         Phase(tbl, admitting.call) = "Received",
         NEW s \in TableType, TableInv(s, NoCall), Same(tbl, s),
         NEW outcome \in Outcomes \ {"None"},
         Unlock(Admission, Settle(s, admitting.call, outcome), "mark"),
         UNCHANGED <<scan, readerUnchanged>>
  PROVE  ServiceInv' /\ StepOK
<1>1. PICK c : c = admitting.call
  OBVIOUS
<1>2. c \in Calls /\ s.high <= MaxCall
  BY <1>1 DEF ServiceInv, ServiceTypes, PendingInv, Same, SameCalls
<1>4. PICK v : v = Settle(s, c, outcome)
  OBVIOUS
<1>5. /\ v \in TableType /\ TableInv(v, NoCall)
      /\ SameCalls(s, v) /\ SameQueues(s, v) /\ SameWaits(s, v)
      /\ v.directRunning = s.directRunning
      /\ \A d \in Calls \ {c} : v.rec[d] = s.rec[d]
      /\ Phase(v, c) \in {"None", "Terminal"}
      /\ Settled(s, c) => v = s
      /\ ~Settled(s, c) => Freed(s, v, c)
  BY <1>2, <1>4, SettleAt
<1>6. Phase(s, c) = "Received"
  BY <1>1, <1>2 DEF Same, Phase
<1>7. SameBusy(s, v)
  BY <1>5, <1>6 DEF Settled, Freed, SameBusy
<1>8. v.high <= MaxCall
  BY <1>2, <1>5 DEF SameCalls
<1>9. Unlock(Admission, v, "mark")
  BY <1>1, <1>4
<1>10. /\ ServiceTypes' /\ LockInv' /\ Same(v, tbl') /\ lock' = lock
       /\ stage'[Admission] = "mark"
       /\ \A u \in Threads \ {Admission} : stage'[u] = stage[u]
       /\ replies' = replies /\ admitting' = admitting /\ result' = result
  BY <1>5, <1>8, <1>9, UnlockFacts, ThreadsApart DEF AdmissionStages
<1>11. tbl' \in TableType
  BY <1>10 DEF ServiceTypes
<1>12. TableInv(tbl', NoCall)
  BY <1>5, <1>10, <1>11, SameKeeps
<1>13. /\ tbl'.high = tbl.high /\ tbl'.req = tbl.req /\ tbl'.revoked = tbl.revoked
       /\ tbl'.closing = tbl.closing /\ tbl'.closeStarted = tbl.closeStarted
       /\ tbl'.closers = tbl.closers /\ tbl'.pending = tbl.pending
       /\ tbl'.queue = tbl.queue /\ tbl'.directQueue = tbl.directQueue
       /\ SameBusy(tbl, tbl')
  BY <1>2, <1>5, <1>7, <1>10
     DEF Same, SameCalls, SameQueues, SameBusy, SameWaits
<1>14. /\ \A d \in Calls \ {c} : tbl'.rec[d] = tbl.rec[d]
       /\ Phase(tbl', c) \in {"None", "Terminal"} /\ Phase(tbl, c) = "Received"
  BY <1>1, <1>2, <1>5, <1>10 DEF Same, Phase
<1>15. \A d \in Calls : Moved(tbl, tbl', d)
  BY <1>14 DEF Moved, Phase
<1>16. MovedStages /\ stage'[Closer] = stage[Closer]
       /\ stage'[Reader] = stage[Reader]
  BY <1>10, ThreadsApart DEF MovedStages
<1>17. ThreadInv' /\ ClassExclusion' /\ StepOK
  <2>1. tbl.high <= tbl'.high
    BY <1>13 DEF ServiceInv, ServiceTypes, TableType
  <2> QED
    BY <1>10, <1>11, <1>13, <1>15, <1>16, <2>1, MoveKeeps
<1>18. CloseInv' /\ ReaderInv'
  BY <1>10, <1>13, <1>15, <1>16, MoveCloses, ReaderKept
<1>19. ScanInv' /\ StartInv'
  BY <1>10, <1>11, <1>13, FreeKept
<1>20. PendingInv'
  BY <1>1, <1>10, <1>13, <1>14, <1>16, AdmitPending DEF Phase
<1> QED
  BY <1>10, <1>12, <1>17, <1>18, <1>19, <1>20 DEF ServiceInv

\* Resolution ends and the call joins its line.
LEMMA AdmitJoins ==
  ASSUME ServiceInv, stage[Admission] = "resolve", Free,
         Phase(tbl, admitting.call) = "Received",
         NEW v \in TableType, TableInv(v, NoCall), ThenSchedule(Admission, v),
         SameCalls(tbl, v), SameBusy(tbl, v), SameWaits(tbl, v),
         v.pending = tbl.pending,
         Phase(v, admitting.call) \in {"Queued", "DirectWaiting"},
         \A d \in Calls \ {admitting.call} :
           \/ v.rec[d] = tbl.rec[d]
           \/ Phase(tbl, d) = "Terminal" /\ v.rec[d] = NoRecord,
         UNCHANGED readerUnchanged
  PROVE  ServiceInv' /\ StepOK
<1>1. v.high <= MaxCall /\ v.directRunning <= DirectLimit
  BY DEF SameCalls, SameBusy, ServiceInv, ServiceTypes, StartInv
<1>2. /\ ServiceTypes' /\ LockInv' /\ ScanInv' /\ StartInv'
      /\ stage'[Admission] = "sched" /\ tbl' = v
      /\ \A u \in Threads \ {Admission} : stage'[u] = stage[u]
      /\ replies' = replies /\ admitting' = admitting /\ result' = result
  BY <1>1, EnterSchedule, ThreadsApart
<1>3. \A d \in Calls : Moved(tbl, tbl', d)
  BY <1>2 DEF Moved, Phase, NoRecord
<1>4. MovedStages /\ stage'[Closer] = stage[Closer]
      /\ stage'[Reader] = stage[Reader]
  BY <1>2, ThreadsApart DEF MovedStages
<1>5. /\ tbl'.high = tbl.high /\ tbl'.req = tbl.req /\ tbl'.revoked = tbl.revoked
      /\ tbl'.closing = tbl.closing /\ tbl'.closeStarted = tbl.closeStarted
      /\ tbl'.closers = tbl.closers /\ tbl'.pending = tbl.pending
      /\ tbl' \in TableType
  <2>1. /\ v.high = tbl.high /\ v.req = tbl.req /\ v.revoked = tbl.revoked
        /\ v.closing = tbl.closing /\ v.closeStarted = tbl.closeStarted
        /\ v.closers = tbl.closers
    BY DEF SameCalls, SameWaits
  <2> QED
    BY <1>2, <2>1
<1>6. ThreadInv' /\ ClassExclusion' /\ StepOK
  <2>0. tbl.high \in Nat
    BY DEF ServiceInv, ServiceTypes, TableType
  <2>1. tbl.high <= tbl'.high
    BY <1>5, <2>0
  <2> QED
    BY <1>2, <1>3, <1>4, <1>5, <2>1, MoveKeeps
<1>7. CloseInv' /\ ReaderInv'
  BY <1>2, <1>3, <1>4, <1>5, MoveCloses, ReaderKept
<1>8. PendingInv'
  <2>1. \A d \in Calls : Phase(tbl', d) = "Received" =>
          Phase(tbl, d) = "Received" /\ d # admitting.call
    BY <1>2 DEF Phase, NoRecord
  <2> QED
    BY <1>2, <1>4, <1>5, <2>1, AdmitPending
<1> QED
  BY <1>2, <1>6, <1>7, <1>8 DEF ServiceInv

\* The admission thread admits the call it resolved, or settles it.
LEMMA AdmitStep ==
  ASSUME ServiceInv, NEW ok \in BOOLEAN, Admit(ok)
  PROVE  ServiceInv' /\ StepOK
<1>0. stage[Admission] = "resolve" /\ Free /\ UNCHANGED readerUnchanged
  BY DEF Admit
<1>1. PICK c : c = admitting.call
  OBVIOUS
<1>2. PICK s : s = [tbl EXCEPT !.unflushed = @ + 1]
  OBVIOUS
<1>3. /\ s \in TableType /\ TableInv(s, NoCall) /\ Same(tbl, s)
      /\ c \in Calls
      /\ \A i \in 1 .. Len(s.queue) : s.queue[i] < c
      /\ \A j \in 1 .. Len(s.pending) : c < s.pending[j]
  BY <1>0, <1>1, <1>2, AdmitFacts
<1>4. {"Cancelled", "Failed"} \subseteq Outcomes \ {"None"}
  BY DEF Outcomes
<1>5. CASE Phase(tbl, c) # "Received"
  <2>1. Unlock(Admission, s, "mark") /\ scan' = scan
    BY <1>1, <1>2, <1>5 DEF Admit
  <2> QED
    BY <1>0, <1>1, <1>2, <1>5, <2>1, AdmitNone
<1>6. CASE /\ Phase(tbl, c) = "Received"
           /\ \E o \in {"Cancelled", "Failed"} :
                Unlock(Admission, Settle(s, c, o), "mark") /\ scan' = scan
  <2>1. PICK o \in {"Cancelled", "Failed"} :
          Unlock(Admission, Settle(s, c, o), "mark") /\ scan' = scan
    BY <1>6
  <2> QED
    BY <1>0, <1>1, <1>3, <1>4, <1>6, <2>1, AdmitSettles
<1>7. CASE /\ Phase(tbl, c) = "Received" /\ ~IsOperation(tbl.req[c])
           /\ ThenSchedule(Admission, AdmitDirect(s, c))
  <2>1. PICK v : v = AdmitDirect(s, c)
    OBVIOUS
  <2>2. Phase(s, c) = "Received" /\ ~IsOperation(s.req[c])
    BY <1>3, <1>7 DEF Same, SameCalls, Phase
  <2>3. /\ v \in TableType /\ TableInv(v, NoCall)
        /\ SameCalls(s, v) /\ SameBusy(s, v) /\ SameWaits(s, v)
        /\ v.queue = s.queue /\ v.pending = s.pending
        /\ Phase(v, c) = "DirectWaiting"
        /\ \A d \in Calls \ {c} : v.rec[d] = s.rec[d]
    BY <1>3, <2>1, <2>2, AdmitDirectKeeps
  <2>4. /\ SameCalls(tbl, v) /\ SameBusy(tbl, v) /\ SameWaits(tbl, v)
        /\ v.pending = tbl.pending
        /\ \A d \in Calls \ {c} : v.rec[d] = tbl.rec[d]
    BY <1>3, <2>3 DEF Same, SameCalls, SameBusy, SameWaits, SameQueues
  <2> QED
    BY <1>0, <1>1, <1>7, <2>1, <2>3, <2>4, AdmitJoins
<1>8. CASE /\ Phase(tbl, c) = "Received" /\ IsOperation(tbl.req[c])
           /\ ~AdmitRefuses(tbl, c, DetachedOn(tbl.req[c].ws))
           /\ ThenSchedule(Admission, AdmitOperation(s, c))
  <2>1. PICK v : v = AdmitOperation(s, c)
    OBVIOUS
  <2>2. Phase(s, c) = "Received" /\ IsOperation(s.req[c])
    BY <1>3, <1>8 DEF Same, SameCalls, Phase
  <2>3. s.tableEntries >= TableLimit => Evictable(s) # {}
    <3>1. s.tableEntries = tbl.tableEntries /\ s.retained = tbl.retained
          /\ s.rec = tbl.rec /\ s.req = tbl.req
      BY <1>2, <1>3 DEF Same, SameCalls, ServiceInv, ServiceTypes, TableType
    <3>2. Evictable(s) = Evictable(tbl)
      BY <3>1 DEF Evictable, Delivered
    <3> QED
      BY <1>8, <3>1, <3>2 DEF AdmitRefuses
  <2>4. /\ v \in TableType /\ TableInv(v, NoCall)
        /\ SameCalls(s, v) /\ SameBusy(s, v) /\ SameWaits(s, v)
        /\ v.pending = s.pending /\ Phase(v, c) = "Queued"
        /\ \A d \in Calls \ {c} :
             \/ v.rec[d] = s.rec[d]
             \/ Phase(s, d) = "Terminal" /\ v.rec[d] = NoRecord
    BY <1>3, <2>1, <2>2, <2>3, AdmitOperationKeeps
  <2>5. /\ SameCalls(tbl, v) /\ SameBusy(tbl, v) /\ SameWaits(tbl, v)
        /\ v.pending = tbl.pending
        /\ \A d \in Calls \ {c} :
             \/ v.rec[d] = tbl.rec[d]
             \/ Phase(tbl, d) = "Terminal" /\ v.rec[d] = NoRecord
    BY <1>3, <2>4 DEF Same, SameCalls, SameBusy, SameWaits, SameQueues, Phase
  <2> QED
    BY <1>0, <1>1, <1>8, <2>1, <2>4, <2>5, AdmitJoins
<1> QED
  BY <1>1, <1>2, <1>5, <1>6, <1>7, <1>8 DEF Admit


-----------------------------------------------------------------------------
(* `schedule`. *)

\* The thread in `schedule` and what it has passed.
LEMMA ScanFacts ==
  ASSUME ServiceInv, NEW t \in Threads, stage[t] = "sched", lock = t
  PROVE  /\ t \notin {Closer, Reads} /\ lock \notin {NoThread, Closer}
         /\ tbl.queue \in Seq(Calls) /\ Len(tbl.queue) \in Nat
         /\ scan.i \in 1 .. Len(tbl.queue) + 1 /\ scan.i \in Nat
         /\ scan.blocked = {QueuedAt(tbl, j).ws : j \in 1 .. scan.i - 1}
         /\ \A j \in 1 .. scan.i - 1 : j \in 1 .. Len(tbl.queue) /\ Stuck(tbl, j)
<1>1. t \notin {Closer, Reads} /\ t # NoThread
  BY ThreadsApart
     DEF ServiceInv, ServiceTypes, StageTypes, CloserStages, ReadStages
<1>2. tbl.queue \in Seq(Calls) /\ Len(tbl.queue) \in Nat
  BY DEF ServiceInv, ServiceTypes, TableType
<1>3. /\ scan.i \in 1 .. Len(tbl.queue) + 1
      /\ scan.blocked = {QueuedAt(tbl, j).ws : j \in 1 .. scan.i - 1}
      /\ \A j \in 1 .. scan.i - 1 : Stuck(tbl, j)
  BY <1>1 DEF ServiceInv, ScanInv
<1>4. \A j \in 1 .. scan.i - 1 : j \in 1 .. Len(tbl.queue)
  BY <1>2, <1>3
<1> QED
  BY <1>1, <1>2, <1>3, <1>4

\* More running operations admit no more classes.
LEMMA AdmitsLess ==
  ASSUME NEW b \in [Classes -> Nat], NEW u \in [Classes -> Nat],
         \A k \in Classes : u[k] >= b[k], NEW class \in Classes,
         Admits(u, class)
  PROVE  Admits(b, class)
<1>1. \A k \in Classes : u[k] = 0 => b[k] = 0
  <2> SUFFICES ASSUME NEW k \in Classes, u[k] = 0 PROVE b[k] = 0
    OBVIOUS
  <2>1. b[k] \in Nat /\ u[k] \in Nat /\ u[k] >= b[k]
    OBVIOUS
  <2> QED
    BY <2>1
<1>2. {"Fetch", "Push", "Write"} \subseteq Classes
  BY DEF Classes
<1> QED
  BY <1>1, <1>2 DEF Admits, Classes

\* A step of `schedule` that stays at its place in the queue.
SamePlace ==
  scan' \in ScanType /\ scan'.i = scan.i /\ scan'.blocked = scan.blocked

LEMMA SameScan ==
  ASSUME ServiceInv, scan' = scan
  PROVE  SamePlace
BY DEF ServiceInv, ServiceTypes, SamePlace

\* What `schedule` has passed still cannot start.
LEMMA ScanKept ==
  ASSUME ServiceInv, NEW t \in Threads, stage[t] = "sched", lock = t,
         lock' = lock, SamePlace, tbl' \in TableType, tbl'.req = tbl.req,
         \A j \in 1 .. scan.i - 1 : tbl'.queue[j] = tbl.queue[j],
         scan.i <= Len(tbl'.queue) + 1,
         \A w \in Workspaces, k \in Classes : tbl'.busy[w][k] >= tbl.busy[w][k]
  PROVE  ScanInv'
<1>1. /\ scan.i \in Nat /\ scan.i >= 1 /\ tbl.queue \in Seq(Calls)
      /\ scan.blocked = {QueuedAt(tbl, j).ws : j \in 1 .. scan.i - 1}
      /\ \A j \in 1 .. scan.i - 1 : j \in 1 .. Len(tbl.queue) /\ Stuck(tbl, j)
  BY ScanFacts
<1>2. tbl'.queue \in Seq(Calls) /\ tbl \in TableType
  BY DEF TableType, ServiceInv, ServiceTypes
<1>3. scan.i \in 1 .. Len(tbl'.queue) + 1
  BY <1>1, <1>2
<1>4. \A j \in 1 .. scan.i - 1 : QueuedAt(tbl', j) = QueuedAt(tbl, j)
  BY DEF QueuedAt
<1>5. {QueuedAt(tbl', j).ws : j \in 1 .. scan.i - 1}
        = {QueuedAt(tbl, j).ws : j \in 1 .. scan.i - 1}
  BY <1>4
<1>6. ASSUME NEW j \in 1 .. scan.i - 1 PROVE Stuck(tbl', j)
  <2>1. Stuck(tbl, j) /\ j \in 1 .. Len(tbl.queue)
    BY <1>1
  <2>2. PICK q : q = QueuedAt(tbl, j)
    OBVIOUS
  <2>3. q.ws \in Workspaces /\ q.class \in Classes
    <3>1. tbl.queue[j] \in Calls
      BY <1>1, <2>1
    <3> QED
      BY <1>2, <2>2, <3>1, AskType DEF QueuedAt
  <2>4. QueuedAt(tbl', j) = q
    BY <1>4, <2>2
  <2>5. \A i \in 1 .. j - 1 : QueuedAt(tbl', i) = QueuedAt(tbl, i)
    BY <1>1, <1>4
  <2>6. CASE ~Admits(tbl.busy[q.ws], q.class)
    <3>1. /\ tbl.busy[q.ws] \in [Classes -> Nat]
          /\ tbl'.busy[q.ws] \in [Classes -> Nat]
          /\ \A k \in Classes : tbl'.busy[q.ws][k] >= tbl.busy[q.ws][k]
      BY <1>2, <2>3 DEF TableType
    <3>2. ~Admits(tbl'.busy[q.ws], q.class)
      BY <2>3, <2>6, <3>1, AdmitsLess
    <3> QED
      BY <2>4, <3>2 DEF Stuck
  <2>7. CASE \E i \in 1 .. j - 1 : QueuedAt(tbl, i).ws = q.ws
    BY <2>4, <2>5, <2>7 DEF Stuck
  <2> QED
    BY <2>1, <2>2, <2>6, <2>7 DEF Stuck
<1> QED
  BY <1>1, <1>3, <1>5, <1>6 DEF ScanInv, SamePlace

\* A step of `schedule` that starts no thread.
LEMMA ScanStays ==
  ASSUME ServiceInv, NEW t \in Threads, stage[t] = "sched", lock = t,
         Stays(t), stage' = stage, tbl' \in TableType, TableInv(tbl', NoCall),
         SameCalls(tbl, tbl'), SameWaits(tbl, tbl'), tbl'.pending = tbl.pending,
         tbl'.directRunning <= DirectLimit,
         \A i \in 1 .. Len(tbl'.queue) : InSeq(tbl'.queue[i], tbl.queue),
         \A c \in Calls :
           /\ Moved(tbl, tbl', c)
           /\ Phase(tbl', c) = "Received" => Phase(tbl, c) = "Received",
         scan' \in ScanType, ScanInv'
  PROVE  ServiceInv' /\ StepOK
<1>1. lock' = lock /\ batch' = batch /\ UNCHANGED readerUnchanged
  BY DEF Stays
<1>2. StageTypes' /\ LockInv'
  BY <1>1, SameStage
<1>3. /\ tbl'.high = tbl.high /\ tbl'.req = tbl.req /\ tbl'.revoked = tbl.revoked
      /\ tbl'.closing = tbl.closing /\ tbl'.closeStarted = tbl.closeStarted
      /\ tbl'.closers = tbl.closers
  BY DEF SameCalls, SameWaits
<1>4. ServiceTypes'
  BY <1>1, <1>2, <1>3
     DEF ServiceInv, ServiceTypes, readerUnchanged, hostVars, closeVars
<1>5. replies' = replies /\ admitting' = admitting /\ result' = result
  BY <1>1 DEF readerUnchanged, closeVars
<1>6. ThreadInv' /\ ClassExclusion' /\ StepOK
  <2>0. tbl.high \in Nat
    BY DEF ServiceInv, ServiceTypes, TableType
  <2>1. tbl.high <= tbl'.high
    BY <1>3, <2>0
  <2>2. MovedStages
    BY DEF MovedStages
  <2> QED
    BY <1>3, <1>5, <2>1, <2>2, MoveKeeps
<1>7. CloseInv'
  BY <1>3, MoveCloses
<1>8. ReaderInv'
  BY <1>3, <1>5, ReaderKept
<1>9. PendingInv'
  BY <1>3, <1>5, PendingKept
<1>10. StartInv'
  BY <1>1, ThreadsApart DEF StartInv, Free
<1> QED
  BY <1>2, <1>4, <1>6, <1>7, <1>8, <1>9, <1>10 DEF ServiceInv

\* `schedule` passes a call that an earlier one of its workspace or a running one blocks.
LEMMA ScheduleBlockedStep ==
  ASSUME ServiceInv, NEW t \in Threads, ScheduleBlocked(t)
  PROVE  ServiceInv' /\ StepOK
<1>0. /\ stage[t] = "sched" /\ lock = t /\ scan.i <= Len(tbl.queue)
      /\ scan' = [i |-> scan.i + 1, blocked |-> scan.blocked \cup {CandidateWs},
                  clear |-> FALSE]
      /\ tbl' = tbl /\ stage' = stage /\ Stays(t) /\ lock' = lock
  BY DEF ScheduleBlocked, Examined, Scanning, Stays
<1>1. /\ scan.i \in Nat /\ scan.i >= 1 /\ tbl.queue \in Seq(Calls)
      /\ Len(tbl.queue) \in Nat /\ lock \notin {NoThread, Closer}
      /\ scan.blocked = {QueuedAt(tbl, j).ws : j \in 1 .. scan.i - 1}
      /\ \A j \in 1 .. scan.i - 1 : Stuck(tbl, j)
  BY <1>0, ScanFacts
<1>2. /\ tbl \in TableType /\ tbl.directRunning <= DirectLimit
      /\ TableInv(tbl, NoCall) /\ scan.blocked \subseteq Workspaces
  BY DEF ServiceInv, ServiceTypes, ScanType, StartInv
<1>3. QueuedAt(tbl, scan.i).ws = CandidateWs /\ CandidateWs \in Workspaces
  <2>1. tbl.queue[scan.i] \in Calls
    BY <1>0, <1>1
  <2> QED
    BY <1>2, <2>1, AskType DEF QueuedAt, CandidateWs, Candidate
<1>4. Stuck(tbl, scan.i)
  <2>1. \/ CandidateWs \in scan.blocked
        \/ ~Admits(tbl.busy[CandidateWs], tbl.req[Candidate].class)
    BY DEF ScheduleBlocked, Startable
  <2>2. CASE CandidateWs \in scan.blocked
    BY <1>1, <1>3, <2>2 DEF Stuck
  <2>3. CASE ~Admits(tbl.busy[CandidateWs], tbl.req[Candidate].class)
    BY <1>3, <2>3 DEF Stuck, QueuedAt, Candidate
  <2> QED
    BY <2>1, <2>2, <2>3
<1>5. scan'.i = scan.i + 1 /\ scan'.blocked = scan.blocked \cup {CandidateWs}
      /\ scan' \in ScanType
  BY <1>0, <1>1, <1>2, <1>3 DEF ScanType
<1>6. ScanInv'
  <2>1. scan'.i \in 1 .. Len(tbl.queue) + 1 /\ scan'.i - 1 = scan.i
    BY <1>0, <1>1, <1>5
  <2>2. \A j \in 1 .. scan.i : j \in 1 .. scan.i - 1 \/ j = scan.i
    BY <1>1
  <2>3. 1 .. scan.i = (1 .. scan.i - 1) \cup {scan.i}
    BY <1>1
  <2>4. {QueuedAt(tbl, j).ws : j \in 1 .. scan.i}
          = {QueuedAt(tbl, j).ws : j \in 1 .. scan.i - 1} \cup {CandidateWs}
    BY <1>3, <2>3
  <2>5. \A j \in 1 .. scan.i : Stuck(tbl, j)
    BY <1>1, <1>4, <2>2
  <2>6. scan'.blocked = {QueuedAt(tbl, j).ws : j \in 1 .. scan'.i - 1}
    BY <1>1, <1>5, <2>1, <2>4
  <2>7. scan'.blocked = {QueuedAt(tbl', j).ws : j \in 1 .. scan'.i - 1}
    BY <1>0, <2>6
  <2>8. \A j \in 1 .. scan'.i - 1 : Stuck(tbl', j)
    BY <1>0, <2>1, <2>5
  <2> QED
    BY <1>0, <2>1, <2>7, <2>8 DEF ScanInv
<1>7. /\ SameCalls(tbl, tbl') /\ SameWaits(tbl, tbl')
      /\ \A c \in Calls : Moved(tbl, tbl', c) /\ Phase(tbl', c) = Phase(tbl, c)
      /\ \A i \in 1 .. Len(tbl'.queue) : InSeq(tbl'.queue[i], tbl.queue)
  BY <1>0 DEF SameCalls, SameWaits, Moved, InSeq
<1> QED
  BY <1>0, <1>2, <1>5, <1>6, <1>7, ScanStays

\* The operation at the scan's place, and the table without it.
LEMMA CandidateFacts ==
  ASSUME ServiceInv, NEW t \in Threads, Scanning(t),
         NEW c, c = Candidate, NEW u, u = Unqueued
  PROVE  /\ stage[t] = "sched" /\ lock = t /\ c \in Calls
         /\ u \in TableType /\ TableInv(u, c) /\ ~InSeq(c, u.queue)
         /\ u.rec = tbl.rec /\ u.pending = tbl.pending
         /\ SameCalls(tbl, u) /\ SameBusy(tbl, u) /\ SameWaits(tbl, u)
         /\ IsOperation(tbl.req[c])
         /\ Phase(tbl, c) \in {"None", "Queued", "Terminal"}
         /\ \A j \in 1 .. scan.i - 1 : u.queue[j] = tbl.queue[j]
         /\ scan.i <= Len(u.queue) + 1
         /\ \A i \in 1 .. Len(u.queue) : InSeq(u.queue[i], tbl.queue)
         /\ \A d \in Calls : d < c /\ Phase(tbl, d) = "Queued" =>
              tbl.req[d].ws \in scan.blocked
<1>0. stage[t] = "sched" /\ lock = t /\ scan.i <= Len(tbl.queue)
  BY DEF Scanning
<1>1. /\ scan.i \in Nat /\ scan.i >= 1 /\ tbl.queue \in Seq(Calls)
      /\ Len(tbl.queue) \in Nat
      /\ scan.blocked = {QueuedAt(tbl, j).ws : j \in 1 .. scan.i - 1}
  BY <1>0, ScanFacts
<1>2. tbl \in TableType /\ TableInv(tbl, NoCall)
  BY DEF ServiceInv, ServiceTypes
<1>3. PICK i : i = scan.i
  OBVIOUS
<1>4. i \in 1 .. Len(tbl.queue) /\ c = tbl.queue[i]
  BY <1>0, <1>1, <1>3 DEF Candidate
<1>5. PICK s : s = tbl
  OBVIOUS
<1>6. u = [s EXCEPT !.queue = Drop(@, i)]
  BY <1>3, <1>5 DEF Unqueued
<1>7. s \in TableType /\ TableInv(s, NoCall) /\ i \in 1 .. Len(s.queue)
  BY <1>2, <1>4, <1>5
<1>8. /\ u \in TableType /\ TableInv(u, s.queue[i])
      /\ u.rec = s.rec /\ u.others = s.others /\ u.retained = s.retained
      /\ u.queue = Drop(s.queue, i)
      /\ SameCalls(s, u) /\ SameBusy(s, u) /\ SameWaits(s, u)
      /\ u.directQueue = s.directQueue /\ u.pending = s.pending
      /\ s.queue[i] \in Calls /\ ~InSeq(s.queue[i], u.queue)
  BY <1>6, <1>7, UnqueuedKeeps
<1>9. \A j, k \in 1 .. Len(tbl.queue) : j < k => tbl.queue[j] < tbl.queue[k]
  BY <1>2 DEF TableInv, LinesInv
<1>10. /\ u.queue \in Seq(Calls) /\ Len(u.queue) = Len(tbl.queue) - 1
       /\ \A j \in 1 .. Len(tbl.queue) - 1 :
            u.queue[j] = IF j < i THEN tbl.queue[j] ELSE tbl.queue[j + 1]
  <2>1. PICK q : q = tbl.queue
    OBVIOUS
  <2>2. q \in Seq(Calls) /\ i \in 1 .. Len(q) /\ u.queue = Drop(q, i)
    BY <1>1, <1>4, <1>5, <1>8, <2>1
  <2>3. /\ Drop(q, i) \in Seq(Calls) /\ Len(Drop(q, i)) = Len(q) - 1
        /\ \A j \in 1 .. Len(q) - 1 :
             Drop(q, i)[j] = IF j < i THEN q[j] ELSE q[j + 1]
    BY <2>2, DropType
  <2> QED
    BY <2>1, <2>2, <2>3
<1>11. \A j \in 1 .. Len(u.queue) : InSeq(u.queue[j], tbl.queue)
  <2> SUFFICES ASSUME NEW j \in 1 .. Len(u.queue)
               PROVE  InSeq(u.queue[j], tbl.queue)
    OBVIOUS
  <2>1. j \in 1 .. Len(tbl.queue) /\ j + 1 \in 1 .. Len(tbl.queue)
        /\ j \in 1 .. Len(tbl.queue) - 1
    BY <1>1, <1>10
  <2> QED
    BY <1>10, <2>1 DEF InSeq
<1>12. /\ \A j \in 1 .. scan.i - 1 : u.queue[j] = tbl.queue[j]
       /\ scan.i <= Len(u.queue) + 1
  BY <1>0, <1>1, <1>3, <1>10
<1>13. IsOperation(tbl.req[c]) /\ Phase(tbl, c) \in {"None", "Queued", "Terminal"}
  BY <1>2, <1>4 DEF TableInv, LinesInv
<1>14. ASSUME NEW d \in Calls, d < c, Phase(tbl, d) = "Queued"
       PROVE  tbl.req[d].ws \in scan.blocked
  <2>1. InSeq(d, tbl.queue)
    BY <1>2, <1>14, CallsNat DEF TableInv, PlacedInv, NoCall
  <2>2. PICK j \in 1 .. Len(tbl.queue) : tbl.queue[j] = d
    BY <2>1 DEF InSeq
  <2>3. j < i
    <3>1. CASE i < j
      BY <1>4, <1>8, <1>9, <1>5, <1>14, <2>2, <3>1, CallsNat
    <3>2. CASE i = j
      BY <1>4, <1>14, <2>2, <3>2, CallsNat
    <3> QED
      BY <1>1, <1>4, <2>2, <3>1, <3>2
  <2>4. j \in 1 .. scan.i - 1
    BY <1>1, <1>3, <2>2, <2>3
  <2> QED
    BY <1>1, <2>2, <2>4 DEF QueuedAt
<1> QED
  BY <1>0, <1>4, <1>5, <1>8, <1>11, <1>12, <1>13, <1>14

\* A step of `schedule` that takes an operation from the queue and starts no
\* thread.
LEMMA ScanTakes ==
  ASSUME ServiceInv, NEW t \in Threads, Scanning(t), Stays(t),
         stage' = stage, SamePlace, NEW c, c = Candidate,
         NEW u, u = Unqueued,
         tbl' \in TableType, TableInv(tbl', NoCall), SameCalls(u, tbl'),
         SameQueues(u, tbl'), SameWaits(u, tbl'),
         tbl'.directRunning = u.directRunning,
         \A w \in Workspaces, k \in Classes : tbl'.busy[w][k] >= u.busy[w][k],
         \A d \in Calls \ {c} : tbl'.rec[d] = u.rec[d],
         \/ tbl'.rec[c] = u.rec[c]
         \/ /\ Phase(u, c) = "Queued" /\ Phase(tbl', c) \in {"None", "Terminal"}
         \/ /\ Phase(tbl', c) = Phase(u, c)
            /\ tbl'.rec[c].outcome = u.rec[c].outcome
  PROVE  ServiceInv' /\ StepOK
<1>1. /\ stage[t] = "sched" /\ lock = t /\ c \in Calls
      /\ u.rec = tbl.rec /\ u.pending = tbl.pending
      /\ SameCalls(tbl, u) /\ SameBusy(tbl, u) /\ SameWaits(tbl, u)
      /\ \A j \in 1 .. scan.i - 1 : u.queue[j] = tbl.queue[j]
      /\ scan.i <= Len(u.queue) + 1
      /\ \A i \in 1 .. Len(u.queue) : InSeq(u.queue[i], tbl.queue)
  BY CandidateFacts
<1>2. /\ SameCalls(tbl, tbl') /\ SameWaits(tbl, tbl')
      /\ tbl'.pending = tbl.pending /\ tbl'.queue = u.queue
      /\ tbl'.directRunning = tbl.directRunning /\ tbl'.req = tbl.req
      /\ u.busy = tbl.busy
  BY <1>1 DEF SameCalls, SameWaits, SameQueues, SameBusy
<1>3. lock' = lock
  BY DEF Stays
<1>4. ScanInv'
  BY <1>1, <1>2, <1>3, ScanKept
<1>5. \A d \in Calls :
        /\ Moved(tbl, tbl', d)
        /\ Phase(tbl', d) = "Received" => Phase(tbl, d) = "Received"
  BY <1>1 DEF Moved, Phase
<1>6. /\ tbl.directRunning <= DirectLimit
      /\ scan' \in ScanType
  BY DEF ServiceInv, SamePlace, StartInv
<1>7. \A i \in 1 .. Len(tbl'.queue) : InSeq(tbl'.queue[i], tbl.queue)
  BY <1>1, <1>2
<1> QED
  BY <1>1, <1>2, <1>4, <1>5, <1>6, <1>7, ScanStays

\* `schedule` drops a queued call whose record is gone.
LEMMA ScheduleSkipStep ==
  ASSUME ServiceInv, NEW t \in Threads, ScheduleSkip(t)
  PROVE  ServiceInv' /\ StepOK
<1>1. /\ Scanning(t) /\ Stays(t) /\ stage' = stage /\ SamePlace
      /\ Phase(tbl, Candidate) = "None" /\ tbl' = Unqueued
  BY SameScan DEF ScheduleSkip
<1>2. PICK c : c = Candidate
  OBVIOUS
<1>3. PICK u : u = Unqueued
  OBVIOUS
<1>4. /\ u \in TableType /\ TableInv(u, c) /\ u.rec = tbl.rec
  BY <1>1, <1>2, <1>3, CandidateFacts
<1>5. TableInv(u, NoCall)
  BY <1>1, <1>2, <1>4 DEF TableInv, PlacedInv, Phase
<1>6. SameCalls(u, u) /\ SameQueues(u, u) /\ SameWaits(u, u)
  BY DEF SameCalls, SameQueues, SameWaits
<1>7. \A w \in Workspaces, k \in Classes : u.busy[w][k] >= u.busy[w][k]
  <2> SUFFICES ASSUME NEW w \in Workspaces, NEW k \in Classes
               PROVE  u.busy[w][k] >= u.busy[w][k]
    OBVIOUS
  <2>1. u.busy[w][k] \in Nat
    BY <1>4 DEF TableType
  <2> QED
    BY <2>1
<1>8. tbl' = u
  BY <1>1, <1>3
<1> QED
  BY <1>1, <1>2, <1>3, <1>4, <1>5, <1>6, <1>7, <1>8, ScanTakes

\* A step of `schedule` that leaves the queue and the classes.
LEMMA ScanSame ==
  ASSUME ServiceInv, NEW t \in Threads, stage[t] = "sched", lock = t,
         lock' = lock, SamePlace, tbl' \in TableType, tbl'.req = tbl.req,
         tbl'.queue = tbl.queue, tbl'.busy = tbl.busy
  PROVE  ScanInv' /\ \A i \in 1 .. Len(tbl'.queue) : InSeq(tbl'.queue[i], tbl.queue)
<1>1. scan.i \in 1 .. Len(tbl.queue) + 1 /\ Len(tbl.queue) \in Nat
  BY ScanFacts
<1>2. scan.i <= Len(tbl'.queue) + 1
  BY <1>1
<1>3. ASSUME NEW w \in Workspaces, NEW k \in Classes
      PROVE  tbl'.busy[w][k] >= tbl.busy[w][k]
  <2>1. tbl.busy[w][k] \in Nat
    BY DEF ServiceInv, ServiceTypes, TableType
  <2> QED
    BY <2>1
<1>4. ScanInv'
  BY <1>2, <1>3, ScanKept
<1> QED
  BY <1>4 DEF InSeq

\* `schedule` finds no worker detached on a call's workspace.
LEMMA ScheduleClearStep ==
  ASSUME ServiceInv, NEW t \in Threads, ScheduleClear(t)
  PROVE  ServiceInv' /\ StepOK
<1>1. /\ stage[t] = "sched" /\ lock = t /\ Stays(t) /\ lock' = lock
      /\ scan' = [i |-> scan.i, blocked |-> scan.blocked, clear |-> TRUE]
      /\ tbl' = tbl /\ stage' = stage
  BY DEF ScheduleClear, Unexamined, Scanning, Stays
<1>2. /\ tbl \in TableType /\ tbl.directRunning <= DirectLimit
      /\ TableInv(tbl, NoCall) /\ scan \in ScanType
  BY DEF ServiceInv, ServiceTypes, StartInv
<1>3. SamePlace
  BY <1>1, <1>2 DEF SamePlace, ScanType
<1>4. /\ ScanInv'
      /\ \A i \in 1 .. Len(tbl'.queue) : InSeq(tbl'.queue[i], tbl.queue)
  BY <1>1, <1>2, <1>3, ScanSame
<1>5. /\ SameCalls(tbl, tbl') /\ SameWaits(tbl, tbl')
      /\ \A c \in Calls : Moved(tbl, tbl', c) /\ Phase(tbl', c) = Phase(tbl, c)
  BY <1>1 DEF SameCalls, SameWaits, Moved
<1> QED
  BY <1>1, <1>2, <1>3, <1>4, <1>5, ScanStays DEF SamePlace

\* `schedule` fails an exclusive call beside a detached worker.
LEMMA ScheduleBusyStep ==
  ASSUME ServiceInv, NEW t \in Threads, ScheduleBusy(t)
  PROVE  ServiceInv' /\ StepOK
<1>1. /\ Scanning(t) /\ Stays(t) /\ stage' = stage /\ SamePlace
      /\ Phase(tbl, Candidate) # "None"
      /\ tbl' = Settle(Unqueued, Candidate, "Failed")
  BY SameScan DEF ScheduleBusy, Unexamined
<1>2. PICK c : c = Candidate
  OBVIOUS
<1>3. PICK u : u = Unqueued
  OBVIOUS
<1>4. /\ u \in TableType /\ TableInv(u, c) /\ u.rec = tbl.rec /\ c \in Calls
      /\ Phase(tbl, c) \in {"None", "Queued", "Terminal"}
  BY <1>1, <1>2, <1>3, CandidateFacts
<1>5. "Failed" \in Outcomes \ {"None"}
  BY DEF Outcomes
<1>6. PICK v : v = Settle(u, c, "Failed")
  OBVIOUS
<1>7. /\ v \in TableType /\ TableInv(v, NoCall)
      /\ SameCalls(u, v) /\ SameQueues(u, v) /\ SameWaits(u, v)
      /\ v.directRunning = u.directRunning
      /\ \A d \in Calls \ {c} : v.rec[d] = u.rec[d]
      /\ Phase(v, c) \in {"None", "Terminal"}
      /\ Settled(u, c) => v = u
      /\ ~Settled(u, c) => Freed(u, v, c)
  BY <1>4, <1>5, <1>6, SettleLeaves
<1>8. v.busy = u.busy
  BY <1>4, <1>7 DEF Settled, Freed, Phase
<1>9. \A w \in Workspaces, k \in Classes : v.busy[w][k] >= u.busy[w][k]
  <2> SUFFICES ASSUME NEW w \in Workspaces, NEW k \in Classes
               PROVE  u.busy[w][k] >= u.busy[w][k]
    BY <1>8
  <2>1. u.busy[w][k] \in Nat
    BY <1>4 DEF TableType
  <2> QED
    BY <2>1
<1>10. \/ v.rec[c] = u.rec[c]
       \/ Phase(u, c) = "Queued" /\ Phase(v, c) \in {"None", "Terminal"}
  BY <1>4, <1>7 DEF Settled, Phase
<1>11. tbl' = v
  BY <1>1, <1>2, <1>3, <1>6
<1> QED
  BY <1>1, <1>2, <1>3, <1>7, <1>9, <1>10, <1>11, ScanTakes

\* A call starts on a thread of its own.
LEMMA StartedKeeps ==
  ASSUME ServiceInv, tbl' \in TableType, SameCalls(tbl, tbl'), result' = result,
         stage'[Closer] = stage[Closer], NEW c \in Calls,
         Phase(tbl, c) \in {"Queued", "DirectWaiting"},
         Phase(tbl', c) = "Running", stage'[c] = "run",
         \A d \in Calls \ {c} :
           /\ tbl'.rec[d] = tbl.rec[d]
           /\ \/ stage'[d] = stage[d]
              \/ /\ stage[d] \notin {"none", "run", "reported"}
                 /\ stage'[d] \notin {"none", "run", "reported"},
         IsOperation(tbl.req[c]) =>
           /\ Admits(tbl.busy[tbl.req[c].ws], tbl.req[c].class)
           /\ \A d \in Calls : d < c /\ Phase(tbl, d) = "Queued" =>
                tbl.req[d].ws # tbl.req[c].ws
  PROVE  ThreadInv' /\ ClassExclusion' /\ CloseInv' /\ StepOK
<1>1. /\ tbl'.high = tbl.high /\ tbl'.req = tbl.req /\ tbl'.revoked = tbl.revoked
      /\ tbl'.closing = tbl.closing /\ tbl'.closeStarted = tbl.closeStarted
  BY DEF SameCalls
<1>2. tbl \in TableType /\ TableInv(tbl, NoCall)
  BY DEF ServiceInv, ServiceTypes
<1>3. ~Late /\ tbl.revoked = {}
  <2>1. c \in NotStarted(tbl)
    BY DEF NotStarted
  <2> QED
    BY <2>1 DEF ServiceInv, CloseInv
<1>4. c <= tbl.high
  BY <1>2 DEF TableInv, RecordInv, Phase
<1>5. ThreadInv'
  <2> SUFFICES ASSUME NEW d \in Calls PROVE (ThreadInv!(d))'
    BY DEF ThreadInv
  <2>1. CASE d = c
    BY <1>1, <1>3, <1>4, <2>1
  <2>2. CASE d # c
    <3>1. ThreadInv!(d)
      BY DEF ServiceInv, ThreadInv
    <3>2. Phase(tbl', d) = Phase(tbl, d)
      BY <2>2 DEF Phase
    <3> QED
      BY <1>1, <2>2, <3>1, <3>2
  <2> QED
    BY <2>1, <2>2
<1>6. \A d \in Calls \ {c} : stage'[d] = "run" => stage[d] = "run"
  OBVIOUS
<1>7. ASSUME NEW d \in Calls \ {c}, stage[d] = "run",
             Conflict(tbl.req[c], tbl.req[d])
      PROVE  FALSE
  <2>1. Phase(tbl, d) = "Running"
    BY <1>3, <1>7 DEF ServiceInv, ThreadInv
  <2>2. /\ IsOperation(tbl.req[c]) /\ IsOperation(tbl.req[d])
        /\ tbl.req[d].ws = tbl.req[c].ws
        /\ "Write" \in {tbl.req[c].class, tbl.req[d].class}
           \/ {tbl.req[c].class, tbl.req[d].class} = {"Push"}
    BY <1>7 DEF Conflict
  <2>3. PICK w : w = tbl.req[c].ws
    OBVIOUS
  <2>4. PICK k : k = tbl.req[d].class
    OBVIOUS
  <2>5. w \in Workspaces /\ k \in Classes /\ tbl.req[c].class \in Classes
    BY <1>2, <2>3, <2>4, AskType
  <2>6. tbl.busy[w][k] = 0
    BY <2>2, <2>3, <2>4, <2>5 DEF Admits, Classes
  <2>7. d \in ClassOps(tbl, w, k) /\ ClassOps(tbl, w, k) \subseteq Calls
    BY <2>1, <2>2, <2>3, <2>4 DEF ClassOps
  <2>8. Cardinality(ClassOps(tbl, w, k)) # 0
        /\ Cardinality(ClassOps(tbl, w, k)) \in Nat
    BY <2>7, CountNat, FS_EmptySet
  <2>9. tbl.busy[w][k] >= Cardinality(ClassOps(tbl, w, k))
    BY <1>2, <2>5 DEF TableInv, BusyInv
  <2> QED
    BY <2>6, <2>8, <2>9
<1>8. ClassExclusion'
  <2> SUFFICES ASSUME NEW d \in Calls, NEW e \in Calls, d # e,
                      stage'[d] = "run", stage'[e] = "run",
                      Conflict(tbl.req[d], tbl.req[e])
               PROVE  FALSE
    BY <1>1 DEF ClassExclusion, Executing
  <2>1. CASE d = c
    BY <1>6, <1>7, <2>1
  <2>2. CASE e = c
    <3>1. Conflict(tbl.req[c], tbl.req[d])
      BY <2>2 DEF Conflict
    <3> QED
      BY <1>6, <1>7, <2>2, <3>1
  <2>3. CASE d # c /\ e # c
    BY <1>6, <2>3 DEF ServiceInv, ClassExclusion, Executing
  <2> QED
    BY <2>1, <2>2, <2>3
<1>9. CloseInv'
  <2>1. CloseInv
    BY DEF ServiceInv
  <2> QED
    BY <1>1, <1>3, <2>1 DEF CloseInv, Late
<1>10. StepOK
  <2>1. OutcomeStep
    BY DEF OutcomeStep, Phase
  <2>2. StartStep
    <3> SUFFICES ASSUME NEW d \in Calls, Starts(d) PROVE d = c
      BY DEF StartStep
    <3> QED
      BY <1>6 DEF Starts
  <2> QED
    BY <2>1, <2>2 DEF StepOK
<1> QED
  BY <1>5, <1>8, <1>9, <1>10

\* A step of `schedule` that starts a call.
LEMMA ScanStarts ==
  ASSUME ServiceInv, NEW t \in Threads, stage[t] = "sched", lock = t,
         Stays(t), SamePlace, tbl' \in TableType, TableInv(tbl', NoCall),
         SameCalls(tbl, tbl'), SameWaits(tbl, tbl'), tbl'.pending = tbl.pending,
         tbl'.directRunning <= DirectLimit,
         \A i \in 1 .. Len(tbl'.queue) : InSeq(tbl'.queue[i], tbl.queue),
         ScanInv', NEW c \in Calls, stage' = [stage EXCEPT ![c] = "run"],
         Phase(tbl, c) \in {"Queued", "DirectWaiting"},
         Phase(tbl', c) = "Running",
         \A d \in Calls \ {c} : tbl'.rec[d] = tbl.rec[d],
         IsOperation(tbl.req[c]) =>
           /\ Admits(tbl.busy[tbl.req[c].ws], tbl.req[c].class)
           /\ \A d \in Calls : d < c /\ Phase(tbl, d) = "Queued" =>
                tbl.req[d].ws # tbl.req[c].ws
  PROVE  ServiceInv' /\ StepOK
<1>1. lock' = lock /\ batch' = batch /\ UNCHANGED readerUnchanged
  BY DEF Stays
<1>2. stage[c] = "none" /\ c # t /\ c \in Threads
  BY ThreadsApart DEF ServiceInv, ThreadInv
<1>3. /\ StageTypes' /\ stage'[c] = "run"
      /\ \A u \in Threads \ {c} : stage'[u] = stage[u]
  <2>1. Goto(c, "run")
    BY DEF Goto
  <2> QED
    BY <1>2, <2>1, GotoTypes, ThreadsApart DEF WorkerStages
<1>4. LockInv'
  <2> SUFFICES ASSUME NEW u \in Threads PROVE (lock' = u) <=> Holds(u)'
    BY DEF LockInv
  <2>1. (lock = u) <=> Holds(u)
    BY DEF ServiceInv, LockInv
  <2>2. CASE u = c
    BY <1>1, <1>2, <1>3, <2>2, ThreadsApart DEF Holds
  <2>3. CASE u # c
    BY <1>1, <1>3, <2>1, <2>3 DEF Holds
  <2> QED
    BY <2>2, <2>3
<1>5. /\ tbl'.high = tbl.high /\ tbl'.closeStarted = tbl.closeStarted
      /\ tbl'.closers = tbl.closers
  BY DEF SameCalls, SameWaits
<1>6. ServiceTypes'
  BY <1>1, <1>3, <1>5
     DEF ServiceInv, ServiceTypes, SamePlace, readerUnchanged, hostVars, closeVars
<1>7. replies' = replies /\ admitting' = admitting /\ result' = result
  BY <1>1 DEF readerUnchanged, closeVars
<1>8. /\ stage'[Closer] = stage[Closer] /\ stage'[Reader] = stage[Reader]
      /\ stage'[Admission] = stage[Admission]
      /\ \A d \in Calls \ {c} : stage'[d] = stage[d]
  BY <1>3, ThreadsApart
<1>9. ThreadInv' /\ ClassExclusion' /\ CloseInv' /\ StepOK
  BY <1>3, <1>7, <1>8, StartedKeeps
<1>10. ReaderInv'
  BY <1>5, <1>7, <1>8, ReaderKept
<1>11. PendingInv'
  <2>1. \A d \in Calls : Phase(tbl', d) = "Received" => Phase(tbl, d) = "Received"
    BY DEF Phase
  <2> QED
    BY <1>5, <1>7, <1>8, <2>1, PendingKept
<1>12. StartInv'
  BY <1>1, ThreadsApart DEF StartInv, Free
<1> QED
  BY <1>4, <1>6, <1>9, <1>10, <1>11, <1>12 DEF ServiceInv

\* `schedule` starts an operation, or settles it when no thread can be created.
LEMMA ScheduleStartStep ==
  ASSUME ServiceInv, NEW t \in Threads, NEW spawned \in BOOLEAN,
         ScheduleStart(t, spawned)
  PROVE  ServiceInv' /\ StepOK
<1>1. PICK c : c = Candidate
  OBVIOUS
<1>2. PICK u : u = Unqueued
  OBVIOUS
<1>3. PICK b : b = ChangeBusy(u, c, 1)
  OBVIOUS
<1>4. PICK v : v = Take(b, c)
  OBVIOUS
<1>5. /\ Scanning(t) /\ Startable /\ SamePlace /\ Stays(t)
      /\ tbl' = (IF CanTake(tbl, c) /\ ~spawned
                 THEN Settle(v, c, "Failed") ELSE v)
      /\ stage' = IF CanTake(tbl, c) /\ spawned
                  THEN [stage EXCEPT ![c] = "run"] ELSE stage
  <2>1. /\ scan' = [i |-> scan.i, blocked |-> scan.blocked, clear |-> FALSE]
        /\ scan \in ScanType
    BY DEF ScheduleStart, ServiceInv, ServiceTypes
  <2>2. SamePlace
    BY <2>1 DEF SamePlace, ScanType
  <2> QED
    BY <1>1, <1>2, <1>3, <1>4, <2>2 DEF ScheduleStart, Examined
<1>6. /\ stage[t] = "sched" /\ lock = t /\ c \in Calls
      /\ u \in TableType /\ TableInv(u, c) /\ ~InSeq(c, u.queue)
      /\ u.rec = tbl.rec /\ u.pending = tbl.pending
      /\ SameCalls(tbl, u) /\ SameBusy(tbl, u) /\ SameWaits(tbl, u)
      /\ IsOperation(tbl.req[c])
      /\ Phase(tbl, c) \in {"None", "Queued", "Terminal"}
      /\ \A j \in 1 .. scan.i - 1 : u.queue[j] = tbl.queue[j]
      /\ scan.i <= Len(u.queue) + 1
      /\ \A i \in 1 .. Len(u.queue) : InSeq(u.queue[i], tbl.queue)
      /\ \A d \in Calls : d < c /\ Phase(tbl, d) = "Queued" =>
           tbl.req[d].ws \in scan.blocked
  BY <1>1, <1>2, <1>5, CandidateFacts
<1>7. u.req = tbl.req /\ u.busy = tbl.busy /\ IsOperation(u.req[c])
      /\ u.directRunning = tbl.directRunning
  BY <1>6 DEF SameCalls, SameBusy
<1>8. /\ b \in TableType /\ v \in TableType /\ TableInv(v, NoCall)
      /\ SameCalls(u, v) /\ SameQueues(u, v) /\ SameWaits(u, v)
      /\ v.directRunning = u.directRunning
      /\ CanTake(b, c) <=> CanTake(u, c)
      /\ \A d \in Calls \ {c} : v.rec[d] = u.rec[d]
      /\ Phase(v, c) = IF CanTake(u, c) THEN "Running" ELSE Phase(u, c)
      /\ v.rec[c].outcome = u.rec[c].outcome
      /\ \A w \in Workspaces, l \in Classes : v.busy[w][l] >= u.busy[w][l]
      /\ \A w \in Workspaces, l \in Classes :
           <<w, l>> # <<u.req[c].ws, u.req[c].class>> =>
             v.busy[w][l] = u.busy[w][l]
      /\ v.busy[u.req[c].ws][u.req[c].class]
           = u.busy[u.req[c].ws][u.req[c].class] + 1
  BY <1>3, <1>4, <1>6, <1>7, StartKeeps
<1>9. /\ CanTake(tbl, c) <=> CanTake(u, c)
      /\ CanTake(u, c) <=> Phase(u, c) \in {"Queued", "DirectWaiting"}
      /\ Phase(u, c) = Phase(tbl, c)
  BY <1>6, CanTakeFacts DEF CanTake, Phase
<1>10. CASE ~CanTake(tbl, c)
  <2>1. tbl' = v /\ stage' = stage
    BY <1>5, <1>10
  <2>2. Phase(v, c) = Phase(u, c)
    BY <1>8, <1>9, <1>10
  <2> QED
    BY <1>1, <1>2, <1>5, <1>8, <2>1, <2>2, ScanTakes
<1>11. CASE CanTake(tbl, c) /\ ~spawned
  <2>1. PICK x : x = Settle(v, c, "Failed")
    OBVIOUS
  <2>2. tbl' = x /\ stage' = stage
    BY <1>5, <1>11, <2>1
  <2>3. "Failed" \in Outcomes \ {"None"}
    BY DEF Outcomes
  <2>4. Phase(v, c) = "Running" /\ Phase(u, c) = "Queued"
    BY <1>6, <1>8, <1>9, <1>11
  <2>5. /\ x \in TableType /\ TableInv(x, NoCall)
        /\ SameCalls(v, x) /\ SameQueues(v, x) /\ SameWaits(v, x)
        /\ x.directRunning = v.directRunning
        /\ \A d \in Calls \ {c} : x.rec[d] = v.rec[d]
        /\ Phase(x, c) \in {"None", "Terminal"}
        /\ Settled(v, c) => x = v
        /\ ~Settled(v, c) => Freed(v, x, c)
    BY <1>6, <1>8, <2>1, <2>3, SettleAt
  <2>6. v.req = u.req /\ IsOperation(v.req[c])
    BY <1>7, <1>8 DEF SameCalls
  <2>7. Freed(v, x, c)
    BY <2>4, <2>5 DEF Settled
  <2>8. ASSUME NEW w \in Workspaces, NEW l \in Classes
        PROVE  x.busy[w][l] >= u.busy[w][l]
    <3>1. u.busy[w][l] \in Nat
      BY <1>6 DEF TableType
    <3>2. CASE <<w, l>> # <<u.req[c].ws, u.req[c].class>>
      <4>1. x.busy[w][l] = v.busy[w][l]
        BY <2>4, <2>6, <2>7, <3>2 DEF Freed
      <4> QED
        BY <1>8, <3>1, <3>2, <4>1
    <3>3. CASE <<w, l>> = <<u.req[c].ws, u.req[c].class>>
      <4>1. x.busy[w][l] = Less(v.busy[w][l], 1)
        BY <2>4, <2>6, <2>7, <3>3 DEF Freed
      <4>2. v.busy[w][l] = u.busy[w][l] + 1
        BY <1>8, <3>3
      <4> QED
        BY <3>1, <4>1, <4>2 DEF Less
    <3> QED
      BY <3>2, <3>3
  <2>9. /\ SameCalls(u, x) /\ SameQueues(u, x) /\ SameWaits(u, x)
        /\ x.directRunning = u.directRunning
        /\ \A d \in Calls \ {c} : x.rec[d] = u.rec[d]
    BY <1>8, <2>5 DEF SameCalls, SameQueues, SameWaits
  <2> QED
    BY <1>1, <1>2, <1>5, <2>2, <2>4, <2>5, <2>8, <2>9, ScanTakes
<1>12. CASE CanTake(tbl, c) /\ spawned
  <2>1. tbl' = v /\ stage' = [stage EXCEPT ![c] = "run"]
    BY <1>5, <1>12
  <2>2. /\ SameCalls(tbl, v) /\ SameWaits(tbl, v) /\ v.pending = tbl.pending
        /\ v.queue = u.queue /\ v.req = tbl.req
        /\ \A d \in Calls \ {c} : v.rec[d] = tbl.rec[d]
    BY <1>6, <1>8 DEF SameCalls, SameWaits, SameQueues
  <2>3. v.directRunning <= DirectLimit
    BY <1>7, <1>8 DEF ServiceInv, StartInv
  <2>4. Phase(v, c) = "Running" /\ Phase(tbl, c) \in {"Queued", "DirectWaiting"}
    BY <1>8, <1>9, <1>12
  <2>5. lock' = lock
    BY <1>5 DEF Stays
  <2>6. ScanInv'
    BY <1>5, <1>6, <1>7, <1>8, <2>1, <2>2, <2>5, ScanKept
  <2>7. /\ Admits(tbl.busy[tbl.req[c].ws], tbl.req[c].class)
        /\ tbl.req[c].ws \notin scan.blocked
    BY <1>1, <1>5 DEF Startable, CandidateWs
  <2>8. \A i \in 1 .. Len(tbl'.queue) : InSeq(tbl'.queue[i], tbl.queue)
    BY <1>6, <2>1, <2>2
  <2>9. \A d \in Calls : d < c /\ Phase(tbl, d) = "Queued" =>
          tbl.req[d].ws # tbl.req[c].ws
    BY <1>6, <2>7
  <2>10. /\ tbl' \in TableType /\ TableInv(tbl', NoCall)
         /\ SameCalls(tbl, tbl') /\ SameWaits(tbl, tbl')
         /\ tbl'.pending = tbl.pending /\ tbl'.directRunning <= DirectLimit
         /\ Phase(tbl', c) = "Running"
         /\ \A d \in Calls \ {c} : tbl'.rec[d] = tbl.rec[d]
    BY <1>8, <2>1, <2>2, <2>3, <2>4
  <2>11. Stays(t) /\ SamePlace /\ stage' = [stage EXCEPT ![c] = "run"]
    BY <1>5, <2>1
  <2>12. c \in Calls /\ stage[t] = "sched" /\ lock = t
    BY <1>6
  <2> QED
    BY <2>4, <2>6, <2>7, <2>8, <2>9, <2>10, <2>11, <2>12, ScanStarts
<1> QED
  BY <1>10, <1>11, <1>12

\* `schedule` starts a thread for a direct call, or settles the call.
LEMMA ScheduleDirectStep ==
  ASSUME ServiceInv, NEW t \in Threads, NEW spawned \in BOOLEAN,
         ScheduleDirect(t, spawned)
  PROVE  ServiceInv' /\ StepOK
<1>1. PICK c : c = NextDirect(tbl)
  OBVIOUS
<1>2. PICK u : u = TakeDirect(tbl)
  OBVIOUS
<1>3. /\ stage[t] = "sched" /\ lock = t /\ tbl.directRunning < DirectLimit
      /\ tbl' = (IF c = NoCall THEN u
                 ELSE IF spawned THEN [u EXCEPT !.directRunning = @ + 1]
                 ELSE Settle(u, c, "Failed"))
      /\ stage' = (IF c # NoCall /\ spawned
                   THEN [stage EXCEPT ![c] = "run"] ELSE stage)
      /\ SamePlace /\ Stays(t)
  BY <1>1, <1>2, SameScan DEF ScheduleDirect, Scanned
<1>4. lock' = lock
  BY <1>3 DEF Stays
<1>5. PICK s : s = tbl
  OBVIOUS
<1>6. /\ s \in TableType /\ TableInv(s, NoCall) /\ s.directRunning <= DirectLimit
      /\ scan' \in ScanType
  BY <1>3, <1>5 DEF ServiceInv, ServiceTypes, SamePlace, StartInv
<1>7. /\ u \in TableType /\ TableInv(u, NoCall)
      /\ SameCalls(s, u) /\ SameBusy(s, u) /\ SameWaits(s, u)
      /\ u.queue = s.queue /\ u.pending = s.pending
      /\ c = NoCall => u.rec = s.rec /\ u.directQueue = <<>>
      /\ c # NoCall =>
           /\ c \in Calls /\ Phase(s, c) = "DirectWaiting"
           /\ ~IsOperation(s.req[c]) /\ CanTake(s, c)
           /\ Phase(u, c) = "Running"
           /\ u.rec[c].outcome = s.rec[c].outcome
           /\ \A d \in Calls \ {c} : u.rec[d] = s.rec[d]
           /\ s.directQueue # <<>>
  BY <1>1, <1>2, <1>5, <1>6, TakeDirectKeeps
<1>8. u.req = s.req /\ u.busy = s.busy /\ u.directRunning = s.directRunning
      /\ s.directRunning \in Nat /\ DirectLimit \in Nat
  BY <1>6, <1>7, LimitsAssumption DEF SameCalls, SameBusy, TableType
<1>9. CASE c = NoCall
  <2>1. tbl' = u /\ stage' = stage
    BY <1>3, <1>9
  <2>2. /\ tbl' \in TableType /\ TableInv(tbl', NoCall)
        /\ SameCalls(tbl, tbl') /\ SameWaits(tbl, tbl')
        /\ tbl'.pending = tbl.pending /\ tbl'.directRunning <= DirectLimit
        /\ tbl'.queue = tbl.queue /\ tbl'.busy = tbl.busy /\ tbl'.req = tbl.req
        /\ tbl'.rec = tbl.rec
    BY <1>5, <1>6, <1>7, <1>8, <1>9, <2>1
  <2>3. ScanInv' /\ \A i \in 1 .. Len(tbl'.queue) : InSeq(tbl'.queue[i], tbl.queue)
    BY <1>3, <1>4, <2>2, ScanSame
  <2>4. \A d \in Calls : Moved(tbl, tbl', d) /\ Phase(tbl', d) = Phase(tbl, d)
    BY <2>2 DEF Moved, Phase
  <2> QED
    BY <1>3, <1>6, <2>1, <2>2, <2>3, <2>4, ScanStays
<1>10. CASE c # NoCall /\ ~spawned
  <2>1. PICK x : x = Settle(u, c, "Failed")
    OBVIOUS
  <2>2. tbl' = x /\ stage' = stage
    BY <1>3, <1>10, <2>1
  <2>3. "Failed" \in Outcomes \ {"None"}
    BY DEF Outcomes
  <2>4. /\ x \in TableType /\ TableInv(x, NoCall)
        /\ SameCalls(u, x) /\ SameQueues(u, x) /\ SameWaits(u, x)
        /\ x.directRunning = u.directRunning
        /\ \A d \in Calls \ {c} : x.rec[d] = u.rec[d]
        /\ Phase(x, c) \in {"None", "Terminal"}
        /\ Settled(u, c) => x = u
        /\ ~Settled(u, c) => Freed(u, x, c)
    BY <1>7, <1>10, <2>1, <2>3, SettleAt
  <2>5. x.busy = u.busy
    BY <1>7, <1>8, <1>10, <2>4 DEF Freed
  <2>6. /\ tbl' \in TableType /\ TableInv(tbl', NoCall)
        /\ SameCalls(tbl, tbl') /\ SameWaits(tbl, tbl')
        /\ tbl'.pending = tbl.pending /\ tbl'.directRunning <= DirectLimit
        /\ tbl'.queue = tbl.queue /\ tbl'.busy = tbl.busy /\ tbl'.req = tbl.req
    BY <1>5, <1>6, <1>7, <1>8, <2>2, <2>4, <2>5
       DEF SameCalls, SameWaits, SameQueues
  <2>7. ScanInv' /\ \A i \in 1 .. Len(tbl'.queue) : InSeq(tbl'.queue[i], tbl.queue)
    BY <1>3, <1>4, <2>6, ScanSame
  <2>8. /\ \A d \in Calls \ {c} : tbl'.rec[d] = tbl.rec[d]
        /\ Phase(tbl', c) \in {"None", "Terminal"}
        /\ Phase(tbl, c) = "DirectWaiting"
    BY <1>5, <1>7, <1>10, <2>2, <2>4
  <2>9. \A d \in Calls : Moved(tbl, tbl', d)
          /\ (Phase(tbl', d) = "Received" => Phase(tbl, d) = "Received")
    BY <2>8 DEF Moved, Phase
  <2> QED
    BY <1>3, <1>6, <2>2, <2>6, <2>7, <2>9, ScanStays
<1>11. CASE c # NoCall /\ spawned
  <2>1. PICK n : n = u.directRunning + 1
    OBVIOUS
  <2>2. PICK x : x = [u EXCEPT !.directRunning = n]
    OBVIOUS
  <2>3. tbl' = x /\ stage' = [stage EXCEPT ![c] = "run"]
    BY <1>3, <1>11, <2>1, <2>2
  <2>4. n \in Nat /\ n <= DirectLimit
    BY <1>3, <1>5, <1>8, <2>1
  <2>5. /\ x \in TableType /\ SameCalls(u, x) /\ SameQueues(u, x)
        /\ SameWaits(u, x) /\ x.rec = u.rec /\ x.busy = u.busy
        /\ x.retained = u.retained /\ x.others = u.others
        /\ x.directRunning = n
    BY <1>7, <2>2, <2>4 DEF TableType, SameCalls, SameQueues, SameWaits
  <2>6. TableInv(x, NoCall)
    <3>1. SameRecords(u, x)
      BY <2>5 DEF SameRecords
    <3>2. x.high = u.high /\ x.req = u.req
      BY <2>5 DEF SameCalls
    <3>3. \A d \in x.others :
           \/ d \in x.held \cup x.closers
           \/ d \in u.others /\ d \notin u.held \cup u.closers
      BY <2>5 DEF SameWaits
    <3> QED
      BY <1>7, <2>5, <3>1, <3>2, <3>3, QuietKeeps
  <2>7. /\ tbl' \in TableType /\ TableInv(tbl', NoCall)
        /\ SameCalls(tbl, tbl') /\ SameWaits(tbl, tbl')
        /\ tbl'.pending = tbl.pending /\ tbl'.directRunning <= DirectLimit
        /\ tbl'.queue = tbl.queue /\ tbl'.busy = tbl.busy /\ tbl'.req = tbl.req
    BY <1>5, <1>7, <1>8, <2>3, <2>4, <2>5, <2>6
       DEF SameCalls, SameWaits, SameQueues
  <2>8. ScanInv' /\ \A i \in 1 .. Len(tbl'.queue) : InSeq(tbl'.queue[i], tbl.queue)
    BY <1>3, <1>4, <2>7, ScanSame
  <2>9. /\ \A d \in Calls \ {c} : tbl'.rec[d] = tbl.rec[d]
        /\ Phase(tbl', c) = "Running" /\ c \in Calls
        /\ Phase(tbl, c) \in {"Queued", "DirectWaiting"}
        /\ ~IsOperation(tbl.req[c])
    BY <1>5, <1>7, <1>11, <2>3, <2>5 DEF Phase
  <2> QED
    BY <1>3, <2>3, <2>7, <2>8, <2>9, ScanStarts
<1> QED
  BY <1>9, <1>10, <1>11

\* `schedule` has passed everything it could start, and the lock is free.
LEMMA ScheduleDoneStep ==
  ASSUME ServiceInv, NEW t \in Threads, ScheduleDone(t)
  PROVE  ServiceInv' /\ StepOK
<1>1. /\ stage[t] = "sched" /\ lock = t
      /\ scan.i > Len(tbl.queue) \/ tbl.running >= RunningLimit
      /\ tbl.directRunning >= DirectLimit \/ tbl.directQueue = <<>>
      /\ UNCHANGED <<scan, readerUnchanged>>
  BY DEF ScheduleDone, Scanned
<1>2. /\ tbl' = [tbl EXCEPT !.out = {}] /\ batch' = [batch EXCEPT ![t] = tbl.out]
      /\ lock' = NoThread /\ Goto(t, "mark")
  BY DEF ScheduleDone, Unlock
<1>3. /\ t \notin {Closer, Reads} /\ Len(tbl.queue) \in Nat
      /\ scan.i \in 1 .. Len(tbl.queue) + 1
      /\ \A j \in 1 .. scan.i - 1 : Stuck(tbl, j)
  BY <1>1, ScanFacts
<1>4. tbl \in TableType /\ TableInv(tbl, NoCall)
  BY DEF ServiceInv, ServiceTypes
<1>5. tbl' \in TableType /\ Same(tbl, tbl')
  BY <1>2, <1>4, HandedOut
<1>6. TableInv(tbl', NoCall)
  BY <1>4, <1>5, SameKeeps
<1>7. /\ StageTypes' /\ stage'[t] = "mark"
      /\ \A u \in Threads \ {t} : stage'[u] = stage[u]
  BY <1>2, <1>3, GotoTypes DEF ReaderStages, AdmissionStages, WorkerStages
<1>8. /\ tbl'.high = tbl.high /\ tbl'.req = tbl.req /\ tbl'.revoked = tbl.revoked
      /\ tbl'.closing = tbl.closing /\ tbl'.closeStarted = tbl.closeStarted
      /\ tbl'.closers = tbl.closers /\ tbl'.queue = tbl.queue
      /\ tbl'.directQueue = tbl.directQueue /\ tbl'.pending = tbl.pending
      /\ tbl'.rec = tbl.rec /\ SameBusy(tbl, tbl')
  BY <1>5 DEF Same, SameCalls, SameWaits, SameQueues
<1>9. batch' \in [Threads -> SUBSET ReplyType]
  <2>1. tbl.out \subseteq ReplyType /\ batch \in [Threads -> SUBSET ReplyType]
    BY DEF ServiceInv, ServiceTypes, TableType
  <2> QED
    BY <1>2, <2>1
<1>10. ServiceTypes'
  BY <1>1, <1>2, <1>5, <1>7, <1>8, <1>9
     DEF ServiceInv, ServiceTypes, readerUnchanged, hostVars, closeVars
<1>11. LockInv'
  <2> SUFFICES ASSUME NEW u \in Threads PROVE ~Holds(u)' /\ lock' # u
    BY DEF LockInv
  <2>1. (lock = u) <=> Holds(u)
    BY DEF ServiceInv, LockInv
  <2>2. CASE u = t
    BY <1>2, <1>3, <1>7, <2>2, ThreadsApart DEF Holds
  <2>3. CASE u # t
    BY <1>1, <1>2, <1>7, <2>1, <2>3, ThreadsApart DEF Holds
  <2> QED
    BY <2>2, <2>3
<1>12. replies' = replies /\ admitting' = admitting /\ result' = result
  BY <1>1 DEF readerUnchanged, closeVars
<1>13. MovedStages /\ stage'[Closer] = stage[Closer]
  BY <1>1, <1>3, <1>7, ThreadsApart DEF MovedStages
<1>14. \A d \in Calls : Moved(tbl, tbl', d) /\ Phase(tbl', d) = Phase(tbl, d)
  BY <1>8 DEF Moved, Phase
<1>15. ThreadInv' /\ ClassExclusion' /\ StepOK
  <2>0. tbl.high \in Nat
    BY <1>4 DEF TableType
  <2>1. tbl.high <= tbl'.high
    BY <1>8, <2>0
  <2> QED
    BY <1>5, <1>8, <1>12, <1>13, <1>14, <2>1, MoveKeeps
<1>16. CloseInv'
  BY <1>8, <1>13, <1>14, MoveCloses
<1>17. ReaderInv'
  <2>1. CASE t = Reader
    BY <1>1, <1>7, <1>8, <1>12, <2>1, ReaderMoves
  <2>2. CASE t # Reader
    BY <1>7, <1>8, <1>12, <2>2, ReaderKept, ThreadsApart
  <2> QED
    BY <2>1, <2>2
<1>18. PendingInv'
  <2>1. /\ stage'[Admission] = "resolve" => stage[Admission] = "resolve"
        /\ stage[Admission] = "resolve" => stage'[Admission] = "resolve"
    BY <1>1, <1>7, ThreadsApart
  <2>2. PendingInv
    BY DEF ServiceInv
  <2> QED
    BY <1>8, <1>12, <1>13, <1>14, <2>1, <2>2 DEF PendingInv
<1>19. ScanInv'
  BY <1>2 DEF ScanInv
<1>20. StartInv'
  <2>1. tbl.running < RunningLimit => \A i \in 1 .. Len(tbl.queue) : Stuck(tbl, i)
    <3> SUFFICES ASSUME tbl.running < RunningLimit,
                        NEW i \in 1 .. Len(tbl.queue)
                 PROVE  Stuck(tbl, i)
      OBVIOUS
    <3>1. tbl.running \in Nat /\ RunningLimit \in Nat
      BY <1>4, LimitsAssumption DEF TableType
    <3>2. scan.i > Len(tbl.queue)
      BY <1>1, <3>1
    <3>3. i \in 1 .. scan.i - 1
      BY <1>3, <3>2
    <3> QED
      BY <1>3, <3>3
  <2>2. \A i \in 1 .. Len(tbl.queue) : Stuck(tbl, i) => Stuck(tbl', i)
    BY <1>4, <1>5, <1>8, StartKept
  <2>3. tbl.directRunning <= DirectLimit /\ tbl.directRunning \in Nat
        /\ DirectLimit \in Nat
    BY <1>4, LimitsAssumption DEF ServiceInv, StartInv, TableType
  <2>4. tbl.directQueue # <<>> => tbl.directRunning = DirectLimit
    BY <1>1, <2>3
  <2>5. tbl'.directRunning = tbl.directRunning /\ tbl'.running = tbl.running
    BY <1>8 DEF SameBusy
  <2>6. tbl'.running < RunningLimit =>
          \A i \in 1 .. Len(tbl'.queue) : Stuck(tbl', i)
    BY <1>8, <2>1, <2>2, <2>5
  <2> QED
    BY <1>8, <2>3, <2>4, <2>5, <2>6 DEF StartInv
<1> QED
  BY <1>6, <1>10, <1>11, <1>15, <1>16, <1>17, <1>18, <1>19, <1>20 DEF ServiceInv

-----------------------------------------------------------------------------
(* Workers. *)

\* A handler returns through its gate.
LEMMA WorkerReportsStep ==
  ASSUME ServiceInv, NEW c \in Calls, NEW o \in Returns, WorkerReports(c, o)
  PROVE  ServiceInv' /\ StepOK
<1>1. PICK label : label = IF c \notin tbl.revoked THEN "reported"
                           ELSE IF tbl.req[c].type = "Direct" THEN "next"
                           ELSE "ended"
  OBVIOUS
<1>2. /\ stage[c] = "run" /\ result' = [result EXCEPT ![c] = o]
      /\ Goto(c, label) /\ UNCHANGED <<tbl, lock, batch, workerUnchanged>>
  BY <1>1 DEF WorkerReports
<1>3. /\ label \in {"reported", "next", "ended"}
      /\ label = "reported" <=> c \notin tbl.revoked
  BY <1>1
<1>4. c \in Threads /\ c \notin {Reader, Admission, Reads, Closer}
  BY ThreadsApart
<1>5. /\ StageTypes' /\ stage'[c] = label
      /\ \A u \in Threads \ {c} : stage'[u] = stage[u]
  BY <1>2, <1>3, <1>4, GotoTypes DEF WorkerStages
<1>6. /\ result' \in [Calls -> Outcomes] /\ result'[c] = o
      /\ \A d \in Calls \ {c} : result'[d] = result[d]
  <2>1. result \in [Calls -> Outcomes] /\ o \in Outcomes
    BY DEF ServiceInv, ServiceTypes, Returns, Outcomes
  <2> QED
    BY <1>2, <2>1
<1>7. tbl' = tbl /\ lock' = lock /\ scan' = scan
  BY <1>2 DEF workerUnchanged
<1>8. ServiceTypes'
  BY <1>2, <1>5, <1>6
     DEF ServiceInv, ServiceTypes, workerUnchanged, hostVars, closeVars
<1>9. /\ replies' = replies /\ admitting' = admitting
      /\ stage'[Reader] = stage[Reader] /\ stage'[Admission] = stage[Admission]
      /\ stage'[Closer] = stage[Closer]
  BY <1>2, <1>4, <1>5, ThreadsApart DEF workerUnchanged, closeVars
<1>10. ThreadInv'
  <2> SUFFICES ASSUME NEW d \in Calls PROVE (ThreadInv!(d))'
    BY DEF ThreadInv
  <2>1. ThreadInv!(d)
    BY DEF ServiceInv, ThreadInv
  <2>2. CASE d = c
    BY <1>2, <1>3, <1>5, <1>6, <1>7, <2>1, <2>2
  <2>3. CASE d # c
    BY <1>4, <1>5, <1>6, <1>7, <2>1, <2>3, ThreadsApart
  <2> QED
    BY <2>2, <2>3
<1>11. \A d \in Calls : stage'[d] = "run" => stage[d] = "run"
  BY <1>3, <1>5, ThreadsApart
<1>12. ClassExclusion'
  BY <1>7, <1>11 DEF ServiceInv, ClassExclusion, Executing
<1>13. StepOK
  BY <1>7, <1>11 DEF StepOK, OutcomeStep, StartStep, Starts
<1>14. CloseInv' /\ ReaderInv'
  <2>1. CloseInv
    BY DEF ServiceInv
  <2>2. tbl'.closers \subseteq tbl.closers
    BY <1>7
  <2> QED
    BY <1>7, <1>9, <2>1, <2>2, ReaderKept DEF CloseInv, Late
<1>15. LockInv'
  <2> SUFFICES ASSUME NEW u \in Threads PROVE (lock' = u) <=> Holds(u)'
    BY DEF LockInv
  <2>1. (lock = u) <=> Holds(u)
    BY DEF ServiceInv, LockInv
  <2>2. CASE u = c
    BY <1>2, <1>3, <1>4, <1>5, <1>7, <2>1, <2>2 DEF Holds
  <2>3. CASE u # c
    BY <1>5, <1>7, <2>1, <2>3 DEF Holds
  <2> QED
    BY <2>2, <2>3
<1>16. PendingInv' /\ ScanInv' /\ StartInv' /\ TableInv(tbl', NoCall)
  BY <1>7, <1>9 DEF ServiceInv, PendingInv, ScanInv, StartInv, Free
<1> QED
  BY <1>8, <1>10, <1>12, <1>13, <1>14, <1>15, <1>16 DEF ServiceInv

\* One call is settled, or found settled.
LEMMA SettledKeeps ==
  ASSUME ServiceInv, NEW c \in Calls, result' = result,
         tbl'.high = tbl.high, tbl'.req = tbl.req,
         tbl.revoked \subseteq tbl'.revoked, tbl'.revoked \subseteq tbl.revoked \cup {c},
         \A d \in Calls \ {c} :
           tbl'.rec[d] = tbl.rec[d] /\ stage'[d] = stage[d],
         Phase(tbl', c) \in {"None", "Terminal"},
         Phase(tbl, c) \in {"None", "Terminal"} => tbl'.rec[c] = tbl.rec[c],
         \/ stage'[c] = stage[c]
         \/ stage[c] = "reported" /\ stage'[c] = "sched",
         stage'[c] = "run" => c \in tbl'.revoked
  PROVE  /\ ThreadInv' /\ ClassExclusion' /\ StepOK
         /\ NotStarted(tbl') \subseteq NotStarted(tbl)
         /\ \A d \in Calls : Phase(tbl', d) = "Received" => Phase(tbl, d) = "Received"
<1>1. ThreadInv'
  <2> SUFFICES ASSUME NEW d \in Calls PROVE (ThreadInv!(d))'
    BY DEF ThreadInv
  <2>1. ThreadInv!(d)
    BY DEF ServiceInv, ThreadInv
  <2>2. CASE d = c
    BY <2>1, <2>2
  <2>3. CASE d # c
    <3>1. Phase(tbl', d) = Phase(tbl, d)
      BY <2>3 DEF Phase
    <3> QED
      BY <2>1, <2>3, <3>1
  <2> QED
    BY <2>2, <2>3
<1>2. \A d \in Calls : stage'[d] = "run" => stage[d] = "run"
  OBVIOUS
<1>3. ClassExclusion'
  BY <1>2 DEF ServiceInv, ClassExclusion, Executing
<1>4. StepOK
  <2>1. OutcomeStep
    BY DEF OutcomeStep, Phase
  <2> QED
    BY <1>2, <2>1 DEF StepOK, StartStep, Starts
<1>5. \A d \in Calls : Phase(tbl', d) \in {"Received", "Queued", "DirectWaiting"}
        => Phase(tbl', d) = Phase(tbl, d)
  BY DEF Phase
<1> QED
  BY <1>1, <1>3, <1>4, <1>5 DEF NotStarted

\* The worker settles its call with what the handler returned.
LEMMA WorkerSettlesStep ==
  ASSUME ServiceInv, NEW c \in Calls, WorkerSettles(c)
  PROVE  ServiceInv' /\ StepOK
<1>1. PICK n : n = tbl.unflushed + 1
  OBVIOUS
<1>2. PICK s : s = [tbl EXCEPT !.unflushed = n]
  OBVIOUS
<1>3. PICK v : v = Settle(s, c, result[c])
  OBVIOUS
<1>4. /\ stage[c] = "reported" /\ Free /\ ThenSchedule(c, v)
      /\ UNCHANGED readerUnchanged
  BY <1>1, <1>2, <1>3 DEF WorkerSettles
<1>5. tbl \in TableType /\ TableInv(tbl, NoCall) /\ tbl.high <= MaxCall
      /\ tbl.directRunning <= DirectLimit
  BY DEF ServiceInv, ServiceTypes, StartInv
<1>6. n \in Nat
  BY <1>1, <1>5 DEF TableType
<1>7. s \in TableType /\ Same(tbl, s)
  BY <1>2, <1>5, <1>6, Recounted
<1>8. TableInv(s, NoCall)
  BY <1>5, <1>7, SameKeeps
<1>9. PICK o : o = result[c]
  OBVIOUS
<1>10. o \in Outcomes \ {"None"}
  <2>1. o \in Returns
    BY <1>4, <1>9 DEF ServiceInv, ThreadInv
  <2> QED
    BY <2>1 DEF Returns, Outcomes
<1>11. /\ v \in TableType /\ TableInv(v, NoCall)
       /\ SameCalls(s, v) /\ SameQueues(s, v) /\ SameWaits(s, v)
       /\ v.directRunning = s.directRunning
       /\ \A d \in Calls \ {c} : v.rec[d] = s.rec[d]
       /\ Phase(v, c) \in {"None", "Terminal"}
       /\ Settled(s, c) => v = s
       /\ ~Settled(s, c) => Freed(s, v, c)
  <2>1. s \in TableType /\ TableInv(s, NoCall) /\ o \in Outcomes \ {"None"}
        /\ v = Settle(s, c, o)
    BY <1>3, <1>7, <1>8, <1>9, <1>10
  <2> QED
    BY <2>1, SettleAt
<1>12. /\ SameCalls(tbl, v) /\ SameQueues(tbl, v) /\ SameWaits(tbl, v)
       /\ v.directRunning = tbl.directRunning
       /\ \A d \in Calls \ {c} : v.rec[d] = tbl.rec[d]
       /\ Settled(tbl, c) => v.rec = tbl.rec
  BY <1>7, <1>11
     DEF Same, SameCalls, SameQueues, SameWaits, SameBusy, Settled, Phase
<1>13. c \in Threads /\ c \notin {Reader, Admission, Reads, Closer}
  BY ThreadsApart
<1>14. v.high <= MaxCall /\ v.directRunning <= DirectLimit
  BY <1>5, <1>12 DEF SameCalls
<1>15. /\ ServiceTypes' /\ LockInv' /\ ScanInv' /\ StartInv'
       /\ stage'[c] = "sched" /\ tbl' = v
       /\ \A u \in Threads \ {c} : stage'[u] = stage[u]
       /\ replies' = replies /\ admitting' = admitting /\ result' = result
  BY <1>4, <1>11, <1>13, <1>14, EnterSchedule
<1>16. /\ v.high = tbl.high /\ v.req = tbl.req /\ v.revoked = tbl.revoked
       /\ v.closing = tbl.closing /\ v.closeStarted = tbl.closeStarted
       /\ v.closers = tbl.closers /\ v.pending = tbl.pending
       /\ v.queue = tbl.queue
  BY <1>12 DEF SameCalls, SameWaits, SameQueues
<1>17. /\ \A d \in Calls \ {c} : stage'[d] = stage[d]
       /\ stage'[Reader] = stage[Reader] /\ stage'[Admission] = stage[Admission]
       /\ stage'[Closer] = stage[Closer]
  BY <1>13, <1>15, ThreadsApart
<1>18. Phase(tbl, c) \in {"None", "Terminal"} => v.rec[c] = tbl.rec[c]
  BY <1>12 DEF Settled
<1>19. /\ ThreadInv' /\ ClassExclusion' /\ StepOK
       /\ NotStarted(tbl') \subseteq NotStarted(tbl)
       /\ \A d \in Calls : Phase(tbl', d) = "Received" => Phase(tbl, d) = "Received"
  BY <1>4, <1>11, <1>12, <1>15, <1>16, <1>17, <1>18, SettledKeeps
<1>20. CloseInv'
  <2>1. CloseInv
    BY DEF ServiceInv
  <2> QED
    BY <1>15, <1>16, <1>17, <1>19, <2>1 DEF CloseInv, Late
<1>21. ReaderInv'
  BY <1>15, <1>16, <1>17, ReaderKept
<1>22. PendingInv'
  <2>1. \A i \in 1 .. Len(tbl'.queue) : InSeq(tbl'.queue[i], tbl.queue)
    BY <1>15, <1>16 DEF InSeq
  <2> QED
    BY <1>15, <1>16, <1>17, <1>19, <2>1, PendingKept
<1> QED
  BY <1>11, <1>15, <1>19, <1>20, <1>21, <1>22 DEF ServiceInv

\* A direct worker takes the next direct call, or ends.
LEMMA DirectNextStep ==
  ASSUME ServiceInv, NEW c \in Calls, DirectNext(c)
  PROVE  ServiceInv' /\ StepOK
<1>1. PICK d : d = NextDirect(tbl)
  OBVIOUS
<1>2. PICK u : u = TakeDirect(tbl)
  OBVIOUS
<1>3. PICK n : n = Less(u.directRunning, 1)
  OBVIOUS
<1>4. /\ stage[c] = "next" /\ Free
      /\ tbl' = (IF d # NoCall THEN u ELSE [u EXCEPT !.directRunning = n])
      /\ stage' = [t \in Threads |-> IF t = c THEN "ended"
                                     ELSE IF t = d /\ d # NoCall THEN "run"
                                     ELSE stage[t]]
      /\ UNCHANGED <<lock, batch, result, workerUnchanged>>
  BY <1>1, <1>2, <1>3 DEF DirectNext
<1>5. PICK s : s = tbl
  OBVIOUS
<1>6. /\ s \in TableType /\ TableInv(s, NoCall) /\ s.directRunning <= DirectLimit
  BY <1>5 DEF ServiceInv, ServiceTypes, StartInv
<1>7. /\ u \in TableType /\ TableInv(u, NoCall)
      /\ SameCalls(s, u) /\ SameBusy(s, u) /\ SameWaits(s, u)
      /\ u.queue = s.queue /\ u.pending = s.pending
      /\ d = NoCall => u.rec = s.rec /\ u.directQueue = <<>>
      /\ d # NoCall =>
           /\ d \in Calls /\ Phase(s, d) = "DirectWaiting"
           /\ ~IsOperation(s.req[d]) /\ CanTake(s, d)
           /\ Phase(u, d) = "Running"
           /\ u.rec[d].outcome = s.rec[d].outcome
           /\ \A e \in Calls \ {d} : u.rec[e] = s.rec[e]
           /\ s.directQueue # <<>>
  BY <1>1, <1>2, <1>5, <1>6, TakeDirectKeeps
<1>8. n \in Nat /\ n <= DirectLimit
  <2>1. u.directRunning = s.directRunning /\ s.directRunning \in Nat
        /\ DirectLimit \in Nat
    BY <1>6, <1>7, LimitsAssumption DEF SameBusy, TableType
  <2> QED
    BY <1>3, <1>6, <2>1 DEF Less
<1>9. /\ tbl' \in TableType /\ TableInv(tbl', NoCall) /\ SameCalls(u, tbl')
      /\ SameQueues(u, tbl') /\ SameWaits(u, tbl') /\ tbl'.rec = u.rec
      /\ tbl'.busy = u.busy /\ tbl'.running = u.running
      /\ tbl'.directRunning = IF d # NoCall THEN u.directRunning ELSE n
  <2>1. CASE d # NoCall
    BY <1>4, <1>7, <2>1 DEF SameCalls, SameQueues, SameWaits
  <2>2. CASE d = NoCall
    <3>1. PICK x : x = [u EXCEPT !.directRunning = n]
      OBVIOUS
    <3>2. tbl' = x
      BY <1>4, <2>2, <3>1
    <3>3. /\ x \in TableType /\ SameCalls(u, x) /\ SameQueues(u, x)
          /\ SameWaits(u, x) /\ x.rec = u.rec /\ x.busy = u.busy
          /\ x.running = u.running
          /\ x.retained = u.retained /\ x.others = u.others
          /\ x.directRunning = n
      BY <1>7, <1>8, <3>1 DEF TableType, SameCalls, SameQueues, SameWaits
    <3>4. TableInv(x, NoCall)
      <4>1. SameRecords(u, x)
        BY <3>3 DEF SameRecords
      <4>2. x.high = u.high /\ x.req = u.req
        BY <3>3 DEF SameCalls
      <4>3. \A e \in x.others :
             \/ e \in x.held \cup x.closers
             \/ e \in u.others /\ e \notin u.held \cup u.closers
        BY <3>3 DEF SameWaits
      <4> QED
        BY <1>7, <3>3, <4>1, <4>2, <4>3, QuietKeeps
    <3> QED
      BY <2>2, <3>2, <3>3, <3>4
  <2> QED
    BY <2>1, <2>2
<1>10. /\ SameCalls(tbl, tbl') /\ SameWaits(tbl, tbl')
       /\ tbl'.queue = tbl.queue /\ tbl'.pending = tbl.pending
       /\ tbl'.busy = tbl.busy /\ tbl'.running = tbl.running
       /\ tbl'.directRunning <= DirectLimit
       /\ d # NoCall => tbl'.directRunning = tbl.directRunning
       /\ d = NoCall => tbl'.directQueue = <<>>
  BY <1>5, <1>6, <1>7, <1>8, <1>9 DEF SameCalls, SameWaits, SameQueues, SameBusy
<1>11. /\ tbl'.high = tbl.high /\ tbl'.req = tbl.req /\ tbl'.revoked = tbl.revoked
       /\ tbl'.closing = tbl.closing /\ tbl'.closeStarted = tbl.closeStarted
       /\ tbl'.closers = tbl.closers
  BY <1>10 DEF SameCalls, SameWaits
<1>12. d # NoCall =>
         /\ d \in Calls /\ d # c /\ stage[d] = "none"
         /\ Phase(tbl, d) = "DirectWaiting" /\ Phase(tbl', d) = "Running"
         /\ ~IsOperation(tbl.req[d]) /\ tbl.directQueue # <<>>
         /\ \A e \in Calls \ {d} : tbl'.rec[e] = tbl.rec[e]
  BY <1>4, <1>5, <1>7, <1>9 DEF ServiceInv, ThreadInv, Phase
<1>13. c \in Threads /\ c \notin {Reader, Admission, Reads, Closer}
       /\ d # NoCall => d \in Threads /\ d \notin {Reader, Admission, Reads, Closer}
  BY <1>12, ThreadsApart
<1>14. /\ stage'[c] = "ended"
       /\ d # NoCall => stage'[d] = "run"
       /\ \A t \in Threads : t # c /\ ~(t = d /\ d # NoCall) => stage'[t] = stage[t]
       /\ stage'[Reader] = stage[Reader] /\ stage'[Admission] = stage[Admission]
       /\ stage'[Closer] = stage[Closer] /\ stage'[Reads] = stage[Reads]
  BY <1>4, <1>12, <1>13, ThreadsApart
<1>15. StageTypes'
  <2>1. StageTypes
    BY DEF ServiceInv, ServiceTypes
  <2>2. \A t \in Calls : stage'[t] \in WorkerStages
    BY <1>14, <2>1, ThreadsApart DEF StageTypes, WorkerStages
  <2>3. \A t \in Threads : stage'[t] \in AllStages
    BY <1>14, <2>1, <2>2, ThreadsApart DEF StageTypes, AllStages
  <2>4. stage' \in [Threads -> AllStages]
    BY <1>4, <2>3
  <2> QED
    BY <1>14, <2>1, <2>2, <2>4 DEF StageTypes
<1>16. lock' = lock /\ replies' = replies /\ admitting' = admitting
       /\ result' = result
  BY <1>4 DEF workerUnchanged, closeVars
<1>17. ServiceTypes'
  BY <1>4, <1>9, <1>11, <1>15
     DEF ServiceInv, ServiceTypes, workerUnchanged, hostVars, closeVars
<1>18. LockInv'
  <2> SUFFICES ASSUME NEW t \in Threads PROVE ~Holds(t)' /\ lock' # t
    BY DEF LockInv
  <2>1. ~Holds(t) /\ lock # t
    BY <1>4, ThreadsApart DEF ServiceInv, LockInv, Free
  <2>2. CASE t = c \/ (t = d /\ d # NoCall)
    BY <1>13, <1>14, <1>16, <2>1, <2>2 DEF Holds
  <2>3. CASE t # c /\ ~(t = d /\ d # NoCall)
    BY <1>14, <1>16, <2>1, <2>3 DEF Holds
  <2> QED
    BY <2>2, <2>3
<1>19. \A e \in Calls : ~(e = d /\ d # NoCall) =>
         \/ stage'[e] = stage[e]
         \/ /\ stage[e] \notin {"none", "run", "reported"}
            /\ stage'[e] \notin {"none", "run", "reported"}
  BY <1>4, <1>14, ThreadsApart
<1>20. ThreadInv' /\ ClassExclusion' /\ CloseInv' /\ StepOK
  <2>1. CASE d # NoCall
    BY <1>9, <1>10, <1>12, <1>14, <1>16, <1>19, <2>1, StartedKeeps
  <2>2. CASE d = NoCall
    <3>1. tbl'.rec = tbl.rec
      BY <1>5, <1>7, <1>9, <2>2
    <3>2. \A e \in Calls : Moved(tbl, tbl', e)
      BY <3>1 DEF Moved, Phase
    <3>3. MovedStages
      BY <1>19, <2>2 DEF MovedStages
    <3>4. tbl.high \in Nat
      BY <1>5, <1>6 DEF TableType
    <3>5. tbl.high <= tbl'.high
      BY <1>11, <3>4
    <3> QED
      BY <1>9, <1>11, <1>14, <1>16, <3>2, <3>3, <3>5, MoveKeeps, MoveCloses
  <2> QED
    BY <2>1, <2>2
<1>21. ReaderInv'
  BY <1>11, <1>14, <1>16, ReaderKept
<1>22. PendingInv'
  <2>1. \A e \in Calls : Phase(tbl', e) = "Received" => Phase(tbl, e) = "Received"
    BY <1>5, <1>7, <1>9, <1>12 DEF Phase
  <2>2. \A i \in 1 .. Len(tbl'.queue) : InSeq(tbl'.queue[i], tbl.queue)
    BY <1>10 DEF InSeq
  <2> QED
    BY <1>10, <1>11, <1>14, <1>16, <2>1, <2>2, PendingKept
<1>23. ScanInv'
  BY <1>4, <1>16 DEF ScanInv, Free
<1>24. StartInv'
  <2>1. \A i \in 1 .. Len(tbl.queue) : Stuck(tbl, i) => Stuck(tbl', i)
    BY <1>10, <1>11 DEF Stuck, QueuedAt
  <2>2. Free /\ ~tbl'.closing =>
          /\ tbl.directQueue # <<>> => tbl.directRunning = DirectLimit
          /\ tbl.running < RunningLimit =>
               \A i \in 1 .. Len(tbl.queue) : Stuck(tbl, i)
    BY <1>11 DEF ServiceInv, StartInv
  <2>3. ~tbl'.closing => (tbl'.directQueue # <<>> => tbl'.directRunning = DirectLimit)
    BY <1>4, <1>10, <1>12, <2>2
  <2>4. ~tbl'.closing => (tbl'.running < RunningLimit =>
               \A i \in 1 .. Len(tbl'.queue) : Stuck(tbl', i))
    BY <1>4, <1>10, <2>1, <2>2
  <2> QED
    BY <1>10, <2>3, <2>4 DEF StartInv
<1> QED
  BY <1>9, <1>17, <1>18, <1>20, <1>21, <1>22, <1>23, <1>24 DEF ServiceInv

-----------------------------------------------------------------------------
(* The close settles, cancels and detaches. *)

\* The least call of a set is in it.
LEMMA LeastIn ==
  ASSUME NEW S, S \subseteq Calls, S # {}
  PROVE  Least(S) \in S
<1>1. S \subseteq Nat
  BY CallsNat
<1>2. \E c \in S : \A d \in S : c <= d
  BY <1>1, LeastExists
<1> QED
  BY <1>2, Zenon DEF Least

\* What holds of `schedule` and of starts while the session closes.
LEMMA ClosingKept ==
  ASSUME tbl'.closing, lock' \in {NoThread, Closer},
         tbl'.directRunning <= DirectLimit
  PROVE  ScanInv' /\ StartInv'
BY DEF ScanInv, StartInv

\* The close thread settles one call and keeps the lock.
LEMMA CloserSettles ==
  ASSUME ServiceInv, stage[Closer] \in {"settle", "detach"},
         stage' = stage, lock' = lock, NEW c \in Calls,
         NEW s \in TableType, TableInv(s, NoCall), s.rec = tbl.rec,
         s.high = tbl.high, s.req = tbl.req, s.closing = tbl.closing,
         s.closeStarted = tbl.closeStarted, SameQueues(tbl, s),
         SameWaits(tbl, s), s.directRunning = tbl.directRunning,
         tbl.revoked \subseteq s.revoked, s.revoked \subseteq tbl.revoked \cup {c},
         s.revoked # tbl.revoked => stage[Closer] = "detach",
         stage[c] = "run" => c \in s.revoked,
         NEW o \in Outcomes \ {"None"}, tbl' = Settle(s, c, o),
         UNCHANGED <<batch, after, closerUnchanged, foreign>>,
         recorded' \subseteq Calls
  PROVE  ServiceInv' /\ StepOK
<1>1. PICK v : v = Settle(s, c, o)
  OBVIOUS
<1>2. /\ v \in TableType /\ TableInv(v, NoCall)
      /\ SameCalls(s, v) /\ SameQueues(s, v) /\ SameWaits(s, v)
      /\ v.directRunning = s.directRunning
      /\ \A d \in Calls \ {c} : v.rec[d] = s.rec[d]
      /\ Phase(v, c) \in {"None", "Terminal"}
      /\ Settled(s, c) => v = s
      /\ ~Settled(s, c) => Freed(s, v, c)
  BY <1>1, SettleAt
<1>3. tbl' = v
  BY <1>1
<1>4. /\ v.high = tbl.high /\ v.req = tbl.req /\ v.revoked = s.revoked
      /\ v.closing = tbl.closing /\ v.closeStarted = tbl.closeStarted
      /\ v.closers = tbl.closers /\ v.pending = tbl.pending
      /\ v.queue = tbl.queue /\ v.directRunning = tbl.directRunning
  BY <1>2 DEF SameCalls, SameWaits, SameQueues
<1>5. /\ \A d \in Calls \ {c} : v.rec[d] = tbl.rec[d]
      /\ Phase(tbl, c) \in {"None", "Terminal"} => v.rec[c] = tbl.rec[c]
  BY <1>2 DEF Settled, Phase
<1>6. result' = result /\ admitting' = admitting /\ replies' = replies
      /\ scan' = scan /\ incoming' = incoming /\ after' = after /\ batch' = batch
      /\ foreign' = foreign
  BY DEF closerUnchanged
<1>7. StageTypes' /\ LockInv'
  BY SameStage
<1>8. ServiceTypes'
  BY <1>2, <1>3, <1>4, <1>6, <1>7 DEF ServiceInv, ServiceTypes
<1>9. /\ ThreadInv' /\ ClassExclusion' /\ StepOK
      /\ NotStarted(tbl') \subseteq NotStarted(tbl)
      /\ \A d \in Calls : Phase(tbl', d) = "Received" => Phase(tbl, d) = "Received"
  <2>1. /\ tbl'.high = tbl.high /\ tbl'.req = tbl.req
        /\ tbl.revoked \subseteq tbl'.revoked
        /\ tbl'.revoked \subseteq tbl.revoked \cup {c}
        /\ \A d \in Calls \ {c} :
             tbl'.rec[d] = tbl.rec[d] /\ stage'[d] = stage[d]
        /\ Phase(tbl', c) \in {"None", "Terminal"}
        /\ Phase(tbl, c) \in {"None", "Terminal"} => tbl'.rec[c] = tbl.rec[c]
        /\ stage'[c] = stage[c]
        /\ stage'[c] = "run" => c \in tbl'.revoked
    BY <1>2, <1>3, <1>4, <1>5
  <2> QED
    BY <1>6, <2>1, SettledKeeps
<1>10. CloseInv'
  <2>1. CloseInv
    BY DEF ServiceInv
  <2>2. Late' <=> Late
    BY DEF Late
  <2>3. v.revoked # {} => Late
    BY <1>4, <2>1 DEF CloseInv, Late
  <2> QED
    BY <1>3, <1>4, <1>9, <2>1, <2>2, <2>3 DEF CloseInv
<1>11. ReaderInv'
  BY <1>3, <1>4, <1>6, ReaderKept
<1>12. PendingInv'
  <2>1. \A i \in 1 .. Len(tbl'.queue) : InSeq(tbl'.queue[i], tbl.queue)
    BY <1>3, <1>4 DEF InSeq
  <2> QED
    BY <1>3, <1>4, <1>6, <1>9, <2>1, PendingKept
<1>13. lock = Closer /\ tbl.closing /\ tbl.directRunning <= DirectLimit
  BY ThreadsApart DEF ServiceInv, LockInv, Holds, CloseInv, StartInv
<1>14. ScanInv' /\ StartInv'
  BY <1>3, <1>4, <1>13, ClosingKept
<1> QED
  BY <1>2, <1>3, <1>7, <1>8, <1>9, <1>10, <1>11, <1>12, <1>14 DEF ServiceInv

\* The close settles a call that has not started.
LEMMA CloseSettlesStep ==
  ASSUME ServiceInv, CloseSettles
  PROVE  ServiceInv' /\ StepOK
<1>1. PICK c : c = Least(NotStarted(tbl))
  OBVIOUS
<1>2. PICK x : x = tbl.cancelled \cup {c}
  OBVIOUS
<1>3. PICK s : s = [tbl EXCEPT !.cancelled = x]
  OBVIOUS
<1>4. /\ stage[Closer] = "settle" /\ NotStarted(tbl) # {}
      /\ tbl' = Settle(s, c, "Cancelled")
      /\ UNCHANGED <<lock, stage, batch, after, hostVars, closerUnchanged>>
  BY <1>1, <1>2, <1>3 DEF CloseSettles
<1>5. c \in NotStarted(tbl) /\ c \in Calls
  <2>1. NotStarted(tbl) \subseteq Calls
    BY DEF NotStarted
  <2> QED
    BY <1>1, <1>4, <2>1, LeastIn
<1>6. tbl \in TableType /\ TableInv(tbl, NoCall)
      /\ recorded \subseteq Calls
  BY DEF ServiceInv, ServiceTypes
<1>7. x \subseteq Calls
  BY <1>2, <1>5, <1>6 DEF TableType
<1>8. s \in TableType /\ Same(tbl, s)
  BY <1>3, <1>6, <1>7
     DEF TableType, Same, SameCalls, SameQueues, SameBusy, SameWaits
<1>9. TableInv(s, NoCall)
  BY <1>6, <1>8, SameKeeps
<1>10. /\ s.rec = tbl.rec /\ s.high = tbl.high /\ s.req = tbl.req
       /\ s.closing = tbl.closing /\ s.closeStarted = tbl.closeStarted
       /\ SameQueues(tbl, s) /\ SameWaits(tbl, s)
       /\ s.directRunning = tbl.directRunning /\ s.revoked = tbl.revoked
  BY <1>8 DEF Same, SameCalls, SameBusy
<1>11. stage[c] = "none"
  BY <1>5 DEF NotStarted, ServiceInv, ThreadInv
<1>12. "Cancelled" \in Outcomes \ {"None"}
  BY DEF Outcomes
<1>13. recorded' \subseteq Calls /\ foreign' = foreign
  BY <1>4, <1>6 DEF hostVars
<1> QED
  BY <1>4, <1>5, <1>8, <1>9, <1>10, <1>11, <1>12, <1>13, CloserSettles

\* The close revokes and settles a call that runs.
LEMMA CloseDetachesStep ==
  ASSUME ServiceInv, CloseDetaches
  PROVE  ServiceInv' /\ StepOK
<1>1. PICK c : c = Least(RunningCalls(tbl))
  OBVIOUS
<1>2. PICK x : x = tbl.cancelled \cup {c}
  OBVIOUS
<1>a. PICK y : y = tbl.revoked \cup {c}
  OBVIOUS
<1>b. PICK n : n = tbl.detached + 1
  OBVIOUS
<1>3. PICK s : s = [tbl EXCEPT !.revoked = y, !.cancelled = x, !.detached = n]
  OBVIOUS
<1>4. /\ stage[Closer] = "detach" /\ RunningCalls(tbl) # {}
      /\ tbl' = Settle(s, c, "Detached") /\ recorded' = recorded \cup {c}
      /\ UNCHANGED <<lock, stage, batch, after, foreign, closerUnchanged>>
  BY <1>1, <1>2, <1>a, <1>b, <1>3 DEF CloseDetaches
<1>5. c \in RunningCalls(tbl) /\ c \in Calls
  <2>1. RunningCalls(tbl) \subseteq Calls
    BY DEF RunningCalls
  <2> QED
    BY <1>1, <1>4, <2>1, LeastIn
<1>6. tbl \in TableType /\ TableInv(tbl, NoCall) /\ recorded \subseteq Calls
  BY DEF ServiceInv, ServiceTypes
<1>7. x \subseteq Calls /\ y \subseteq Calls /\ n \in Nat
  BY <1>2, <1>a, <1>b, <1>5, <1>6 DEF TableType
<1>8. s \in TableType
  BY <1>3, <1>6, <1>7 DEF TableType
<1>9. /\ s.rec = tbl.rec /\ s.high = tbl.high /\ s.req = tbl.req
      /\ s.closing = tbl.closing /\ s.closeStarted = tbl.closeStarted
      /\ SameQueues(tbl, s) /\ SameWaits(tbl, s)
      /\ s.directRunning = tbl.directRunning /\ s.revoked = y
      /\ s.busy = tbl.busy /\ s.retained = tbl.retained /\ s.others = tbl.others
  BY <1>3, <1>6 DEF TableType, SameQueues, SameWaits
<1>10. TableInv(s, NoCall)
  <2>1. SameRecords(tbl, s)
    BY <1>9 DEF SameRecords
  <2>2. \A e \in s.others :
          \/ e \in s.held \cup s.closers
          \/ e \in tbl.others /\ e \notin tbl.held \cup tbl.closers
    BY <1>9 DEF SameWaits
  <2> QED
    BY <1>6, <1>8, <1>9, <2>1, <2>2, QuietKeeps
<1>11. "Detached" \in Outcomes \ {"None"}
  BY DEF Outcomes
<1>12. recorded' \subseteq Calls
  BY <1>4, <1>5, <1>6
<1>13. tbl.revoked \subseteq s.revoked /\ s.revoked \subseteq tbl.revoked \cup {c}
       /\ c \in s.revoked
  BY <1>a, <1>9
<1> QED
  BY <1>4, <1>5, <1>8, <1>9, <1>10, <1>11, <1>12, <1>13, CloserSettles

\* The close thread goes on between sections that settle no call.
LEMMA CloserMoves ==
  ASSUME ServiceInv, stage[Closer] \in {"start", "settle"},
         NEW label \in {"settle", "mark"}, Goto(Closer, label),
         lock \in {NoThread, Closer},
         lock' = IF label = "settle" THEN Closer ELSE NoThread,
         label = "mark" => NotStarted(tbl) = {},
         tbl' \in TableType, TableInv(tbl', NoCall), SameCalls(tbl, tbl'),
         SameWaits(tbl, tbl'), tbl'.rec = tbl.rec, tbl'.queue = tbl.queue,
         tbl'.directRunning = tbl.directRunning,
         \A i \in 1 .. Len(tbl'.pending) : InSeq(tbl'.pending[i], tbl.pending),
         batch' \in [Threads -> SUBSET ReplyType],
         after' \in {"wait", "spools", "drain"},
         UNCHANGED <<hostVars, closerUnchanged>>
  PROVE  ServiceInv' /\ StepOK
<1>1. /\ StageTypes' /\ stage'[Closer] = label
      /\ \A u \in Threads \ {Closer} : stage'[u] = stage[u]
  BY GotoTypes, ThreadsApart DEF CloserStages
<1>2. /\ tbl'.high = tbl.high /\ tbl'.req = tbl.req /\ tbl'.revoked = tbl.revoked
      /\ tbl'.closing = tbl.closing /\ tbl'.closeStarted = tbl.closeStarted
      /\ tbl'.closers = tbl.closers
  BY DEF SameCalls, SameWaits
<1>3. result' = result /\ admitting' = admitting /\ replies' = replies
      /\ scan' = scan /\ incoming' = incoming /\ foreign' = foreign
      /\ recorded' = recorded
  BY DEF closerUnchanged, hostVars
<1>4. ServiceTypes'
  <2>1. lock' \in Threads \cup {NoThread}
    BY ThreadsApart
  <2> QED
    BY <1>1, <1>2, <1>3, <2>1 DEF ServiceInv, ServiceTypes
<1>5. LockInv'
  <2> SUFFICES ASSUME NEW t \in Threads PROVE (lock' = t) <=> Holds(t)'
    BY DEF LockInv
  <2>1. CASE t = Closer
    BY <1>1, <2>1, ThreadsApart DEF Holds
  <2>2. CASE t # Closer
    <3>1. (lock = t) <=> Holds(t)
      BY DEF ServiceInv, LockInv
    <3>2. Holds(t)' <=> Holds(t)
      BY <1>1, <2>2 DEF Holds
    <3> QED
      BY <2>2, <3>1, <3>2, ThreadsApart
  <2> QED
    BY <2>1, <2>2
<1>6. \A d \in Calls : Moved(tbl, tbl', d) /\ Phase(tbl', d) = Phase(tbl, d)
  BY DEF Moved, Phase
<1>7. ThreadInv' /\ ClassExclusion' /\ StepOK
  <2>0. tbl.high \in Nat
    BY DEF ServiceInv, ServiceTypes, TableType
  <2>1. tbl.high <= tbl'.high
    BY <1>2, <2>0
  <2>2. MovedStages
    BY <1>1, ThreadsApart DEF MovedStages
  <2> QED
    BY <1>2, <1>3, <1>6, <2>1, <2>2, MoveKeeps
<1>8. CloseInv'
  <2>1. CloseInv /\ ~Late
    BY DEF ServiceInv, Late
  <2>2. tbl.revoked = {} /\ tbl.closing /\ tbl.closeStarted
    BY <2>1 DEF CloseInv
  <2>3. Late' => NotStarted(tbl) = {}
    BY <1>1 DEF Late
  <2>4. NotStarted(tbl') = NotStarted(tbl)
    BY <1>6 DEF NotStarted
  <2> QED
    BY <1>1, <1>2, <2>2, <2>3, <2>4 DEF CloseInv
<1>9. ReaderInv'
  <2>1. stage'[Reader] = stage[Reader]
    BY <1>1, ThreadsApart
  <2> QED
    BY <1>2, <1>3, <2>1, ReaderKept
<1>10. PendingInv'
  <2>1. \A d \in Calls : Phase(tbl', d) = "Received" => stage'[Closer] = "settle"
    BY <1>1, <1>6 DEF NotStarted
  <2>2. PendingInv /\ stage'[Admission] = stage[Admission]
    BY <1>1, ThreadsApart DEF ServiceInv
  <2>3. stage[Admission] = "resolve" =>
          \A j \in 1 .. Len(tbl'.pending) : admitting.call < tbl'.pending[j]
    BY <2>2 DEF PendingInv, InSeq
  <2> QED
    BY <1>2, <1>3, <2>1, <2>2, <2>3 DEF PendingInv
<1>11. ScanInv' /\ StartInv'
  <2>1. tbl.closing /\ tbl.directRunning <= DirectLimit
    BY DEF ServiceInv, CloseInv, StartInv
  <2>2. lock' \in {NoThread, Closer}
    OBVIOUS
  <2> QED
    BY <1>2, <2>1, <2>2, ClosingKept
<1> QED
  BY <1>4, <1>5, <1>7, <1>8, <1>9, <1>10, <1>11 DEF ServiceInv

\* The close takes the table and empties the pending calls.
LEMMA CloseEntersStep ==
  ASSUME ServiceInv, CloseEnters
  PROVE  ServiceInv' /\ StepOK
<1>1. PICK n : n = tbl.unflushed + 1
  OBVIOUS
<1>2. /\ stage[Closer] = "start" /\ lock = NoThread
      /\ tbl' = [tbl EXCEPT !.unflushed = n, !.pending = <<>>]
      /\ lock' = Closer /\ Goto(Closer, "settle")
      /\ UNCHANGED <<batch, after, hostVars, closerUnchanged>>
  BY <1>1 DEF CloseEnters, Free
<1>3. tbl \in TableType /\ TableInv(tbl, NoCall)
      /\ batch \in [Threads -> SUBSET ReplyType]
      /\ after \in {"wait", "spools", "drain"}
  BY DEF ServiceInv, ServiceTypes
<1>4. n \in Nat /\ <<>> \in Seq(Calls)
  BY <1>1, <1>3 DEF TableType
<1>5. /\ tbl' \in TableType /\ tbl'.pending = <<>>
  BY <1>2, <1>3, <1>4 DEF TableType
<1>6. /\ SameCalls(tbl, tbl') /\ SameWaits(tbl, tbl') /\ SameBusy(tbl, tbl')
      /\ tbl'.rec = tbl.rec /\ tbl'.queue = tbl.queue
      /\ tbl'.directQueue = tbl.directQueue
      /\ tbl'.retained = tbl.retained /\ tbl'.others = tbl.others
  BY <1>2, <1>3 DEF TableType, SameCalls, SameWaits, SameBusy
<1>7. /\ \A i \in 1 .. Len(tbl'.pending) : InSeq(tbl'.pending[i], tbl.pending)
      /\ \A i, j \in 1 .. Len(tbl'.pending) :
           i < j => tbl'.pending[i] < tbl'.pending[j]
  BY <1>5
<1>8. TableInv(tbl', NoCall)
  <2>1. tbl'.high = tbl.high /\ tbl'.req = tbl.req /\ tbl'.busy = tbl.busy
    BY <1>6 DEF SameCalls, SameBusy
  <2> QED
    BY <1>3, <1>5, <1>6, <1>7, <2>1, LinesCut
<1>9. tbl'.directRunning = tbl.directRunning
  BY <1>6 DEF SameBusy
<1> QED
  BY <1>2, <1>3, <1>5, <1>6, <1>7, <1>8, <1>9, CloserMoves

\* The close cancels every running call once nothing is left to start.
LEMMA CloseCancelsStep ==
  ASSUME ServiceInv, CloseCancels
  PROVE  ServiceInv' /\ StepOK
<1>1. PICK x : x = tbl.cancelled \cup RunningCalls(tbl)
  OBVIOUS
<1>2. PICK s : s = [tbl EXCEPT !.directQueue = <<>>, !.cancelled = x]
  OBVIOUS
<1>3. /\ stage[Closer] = "settle" /\ NotStarted(tbl) = {}
      /\ tbl' = [s EXCEPT !.out = {}] /\ batch' = [batch EXCEPT ![Closer] = s.out]
      /\ lock' = NoThread /\ Goto(Closer, "mark") /\ after' = "wait"
      /\ UNCHANGED <<hostVars, closerUnchanged>>
  BY <1>1, <1>2 DEF CloseCancels, CloseUnlock, Unlock
<1>4. tbl \in TableType /\ TableInv(tbl, NoCall)
      /\ batch \in [Threads -> SUBSET ReplyType]
  BY DEF ServiceInv, ServiceTypes
<1>5. x \subseteq Calls /\ <<>> \in Seq(Calls)
  BY <1>1, <1>4 DEF TableType, RunningCalls
<1>6. s \in TableType /\ s.directQueue = <<>>
  BY ZenonT(60), <1>2, <1>4, <1>5 DEF TableType
<1>7. /\ SameCalls(tbl, s) /\ SameWaits(tbl, s) /\ SameBusy(tbl, s)
      /\ s.rec = tbl.rec /\ s.queue = tbl.queue /\ s.pending = tbl.pending
      /\ s.retained = tbl.retained /\ s.others = tbl.others
  BY <1>2, <1>4 DEF TableType, SameCalls, SameWaits, SameBusy
<1>8. \A c \in Calls : Phase(tbl, c) # "DirectWaiting"
  BY <1>3 DEF NotStarted
<1>9. TableInv(s, NoCall)
  <2>1. s.high = tbl.high /\ s.req = tbl.req /\ s.busy = tbl.busy
    BY <1>7 DEF SameCalls, SameBusy
  <2>2. \A i \in 1 .. Len(s.pending) : InSeq(s.pending[i], tbl.pending)
    BY <1>7 DEF InSeq
  <2>3. \A i, j \in 1 .. Len(s.pending) : i < j => s.pending[i] < s.pending[j]
    BY <1>4, <1>7 DEF TableInv, LinesInv
  <2> QED
    BY <1>4, <1>6, <1>7, <1>8, <2>1, <2>2, <2>3, LinesCut
<1>10. tbl' \in TableType /\ Same(s, tbl')
  BY <1>3, <1>6, HandedOut
<1>11. TableInv(tbl', NoCall)
  BY <1>6, <1>9, <1>10, SameKeeps
<1>12. /\ SameCalls(tbl, tbl') /\ SameWaits(tbl, tbl') /\ tbl'.rec = tbl.rec
       /\ tbl'.queue = tbl.queue /\ tbl'.pending = tbl.pending
       /\ tbl'.directRunning = tbl.directRunning
  BY <1>7, <1>10 DEF Same, SameCalls, SameWaits, SameQueues, SameBusy
<1>13. \A i \in 1 .. Len(tbl'.pending) : InSeq(tbl'.pending[i], tbl.pending)
  BY <1>12 DEF InSeq
<1>14. batch' \in [Threads -> SUBSET ReplyType]
  <2>1. s.out \subseteq ReplyType
    BY <1>6 DEF TableType
  <2> QED
    BY <1>3, <1>4, <2>1
<1>15. lock = Closer
  BY <1>3, ThreadsApart DEF ServiceInv, LockInv, Holds
<1> QED
  BY <1>3, <1>10, <1>11, <1>12, <1>13, <1>14, <1>15, CloserMoves

-----------------------------------------------------------------------------
(* The invariant and what it gives. *)

\* The table of a new session satisfies the table's invariant.
LEMMA EmptyTableKept ==
  ASSUME NEW ask \in Requests
  PROVE  LET s == EmptyTable(ask) IN s \in TableType /\ TableInv(s, NoCall)
<1> DEFINE s == EmptyTable(ask)
<1>1. NoRecord \in RecordType /\ EmptyBusy \in [Workspaces -> [Classes -> Nat]]
  BY DEF NoRecord, RecordType, Phases, Outcomes, EmptyBusy
<1>2. /\ [c \in Calls |-> ask] \in [Calls -> Requests]
      /\ [c \in Calls |-> NoRecord] \in [Calls -> RecordType]
      /\ [r \in RequestIds |-> NoCall] \in [RequestIds -> Calls \cup {NoCall}]
      /\ [c \in Calls |-> 0] \in [Calls -> Nat] /\ <<>> \in Seq(Calls)
  BY <1>1
<1>3. s \in TableType
  BY <1>1, <1>2 DEF EmptyTable, TableType
<1>4. /\ s.queue = <<>> /\ s.directQueue = <<>> /\ s.pending = <<>>
      /\ s.retained = <<>> /\ s.others = {} /\ s.busy = EmptyBusy
      /\ s.rec = [c \in Calls |-> NoRecord]
  BY DEF EmptyTable
<1> HIDE DEF s
<1>5. \A c \in Calls : s.rec[c] = NoRecord /\ Phase(s, c) = "None"
  BY <1>4 DEF Phase, NoRecord
<1>6. RecordInv(s)
  BY <1>5 DEF RecordInv, NoRecord
<1>7. LinesInv(s)
  <2>1. Len(s.queue) = 0 /\ Len(s.directQueue) = 0 /\ Len(s.pending) = 0
        /\ Len(s.retained) = 0 /\ 1 .. 0 = {}
    BY <1>4
  <2> QED
    BY <2>1 DEF LinesInv
<1>8. PlacedInv(s, NoCall) /\ WaitInv(s)
  BY <1>4, <1>5 DEF PlacedInv, WaitInv
<1>9. BusyInv(s)
  <2> SUFFICES ASSUME NEW w \in Workspaces, NEW k \in Classes
               PROVE  s.busy[w][k] >= Cardinality(ClassOps(s, w, k))
    BY DEF BusyInv
  <2>1. ClassOps(s, w, k) = {}
    BY <1>5 DEF ClassOps
  <2>2. Cardinality(ClassOps(s, w, k)) = 0
    BY <2>1, FS_EmptySet
  <2>3. s.busy[w][k] = 0
    BY <1>4 DEF EmptyBusy
  <2> QED
    BY <2>2, <2>3
<1> QED
  BY <1>3, <1>6, <1>7, <1>8, <1>9 DEF TableInv, s

\* A session begins in the invariant.
LEMMA ServiceInit == Init => ServiceInv
<1> SUFFICES ASSUME Init PROVE ServiceInv
  OBVIOUS
<1>1. NoRequest \in Requests
  BY ServiceAssumption DEF NoRequest
<1>2. tbl \in TableType /\ TableInv(tbl, NoCall)
  BY <1>1, EmptyTableKept DEF Init
<1>3. /\ tbl.high = 0 /\ tbl.closing = FALSE /\ tbl.closeStarted = FALSE
      /\ tbl.revoked = {} /\ tbl.closers = {} /\ tbl.directRunning = 0
      /\ tbl.queue = <<>> /\ tbl.directQueue = <<>> /\ tbl.pending = <<>>
      /\ tbl.rec = [c \in Calls |-> NoRecord]
  BY DEF Init, EmptyTable
<1>4. \A c \in Calls : Phase(tbl, c) = "None"
  BY <1>3 DEF Phase, NoRecord
<1>5. /\ stage[Reader] = "idle" /\ stage[Admission] = "idle"
      /\ stage[Reads] = "idle" /\ stage[Closer] = "none"
      /\ \A c \in Calls : stage[c] = "none"
  BY ThreadsApart DEF Init
<1>6. StageTypes
  <2>1. stage \in [Threads -> AllStages]
    BY DEF Init, AllStages, ReaderStages, CloserStages
  <2> QED
    BY <1>5, <2>1 DEF StageTypes, ReaderStages, AdmissionStages, ReadStages,
                      CloserStages, WorkerStages
<1>7. ServiceTypes
  <2>1. tbl.high <= MaxCall
    BY <1>3, LimitsAssumption
  <2>2. result \in [Calls -> Outcomes]
    BY DEF Init, Outcomes
  <2>3. batch \in [Threads -> SUBSET ReplyType]
    BY DEF Init
  <2>4. scan \in ScanType
        /\ admitting \in [call : Calls \cup {NoCall}, cancelled : BOOLEAN]
    BY DEF Init, ScanType
  <2> QED
    BY <1>1, <1>2, <1>6, <2>1, <2>2, <2>3, <2>4 DEF ServiceTypes, Init
<1>8. ThreadInv
  BY <1>3, <1>4, <1>5 DEF ThreadInv
<1>9. CloseInv
  BY <1>3, <1>5 DEF CloseInv, Late
<1>10. ReaderInv
  BY <1>3, <1>5 DEF ReaderInv, Init
<1>11. LockInv
  BY <1>5, ThreadsApart DEF LockInv, Holds, Init
<1>12. PendingInv
  BY <1>4, <1>5 DEF PendingInv
<1>13. ScanInv
  BY DEF ScanInv, Init
<1>14. StartInv
  <2>1. tbl.directRunning <= DirectLimit
    BY <1>3, LimitsAssumption
  <2>2. Len(tbl.queue) = 0 /\ 1 .. 0 = {}
    BY <1>3
  <2> QED
    BY <1>3, <2>1, <2>2 DEF StartInv
<1>15. ClassExclusion
  BY <1>5 DEF ClassExclusion, Executing
<1> QED
  BY <1>2, <1>7, <1>8, <1>9, <1>10, <1>11, <1>12, <1>13, <1>14, <1>15
     DEF ServiceInv

\* Every step of the session keeps the invariant and is an allowed step.
LEMMA ServiceNext ==
  ASSUME ServiceInv, [Next]_vars
  PROVE  ServiceInv' /\ StepOK
<1>1. CASE UNCHANGED vars
  <2>1. UNCHANGED <<tbl, lock, scan, stage, batch, incoming, admitting, result>>
        /\ UNCHANGED <<closeVars, recorded, foreign>>
    BY <1>1 DEF vars, hostVars
  <2>2. batch' \in [Threads -> SUBSET ReplyType] /\ foreign' \subseteq Workspaces
    BY <2>1 DEF ServiceInv, ServiceTypes
  <2> QED
    BY <2>1, <2>2, StillStep
<1>2. CASE \E q \in Requests : ReadFrame(q)
  BY <1>2, ReadFrameStep
<1>3. CASE ReaderStep
  <2>1. CASE CountBatch
    BY <2>1, CountBatchStep
  <2>2. CASE ReceiveStale \/ ReceiveEnded \/ ReceiveRefused \/ ReceiveCall
    BY <2>2, ReceiveStaleStep, ReceiveEndedStep, ReceiveRefusedStep,
       ReceiveCallStep
  <2>3. CASE ReceiveRead \/ ReceiveView \/ ReceiveRelease \/ ReceiveCancel
    BY <2>3, ReceiveReadStep, ReceiveViewStep, ReceiveReleaseStep,
       ReceiveCancelStep
  <2>4. CASE ReceiveSpool \/ SpoolAnswered \/ ReceiveClose
    BY <2>4, ReceiveSpoolStep, SpoolAnsweredStep, ReceiveCloseStep
  <2>5. CASE ChannelClosed \/ InlineReturns
    BY <2>5, ChannelClosedStep, InlineReturnsStep
  <2>6. CASE \E spawned \in BOOLEAN : CloseBegins(spawned)
    BY <2>6, CloseBeginsStep
  <2> QED
    BY <1>3, <2>1, <2>2, <2>3, <2>4, <2>5, <2>6 DEF ReaderStep
<1>4. CASE AdmissionStep
  BY <1>4, AdmissionPopStep, AdmitStep, ThreadEndsStep DEF AdmissionStep
<1>5. CASE ReadsStep
  BY <1>5, AnswerHeldStep, ThreadEndsStep DEF ReadsStep
<1>6. CASE CloserStep
  <2>1. CASE CloseEnters \/ CloseSettles \/ CloseCancels
    BY <2>1, CloseEntersStep, CloseSettlesStep, CloseCancelsStep
  <2>2. CASE CloseWaited \/ CloseDetaches \/ CloseAnswersHeld
    BY <2>2, CloseWaitedStep, CloseDetachesStep, CloseAnswersHeldStep
  <2>3. CASE CloseReleasesSpools \/ CloseDrained \/ CloseShuts
    BY <2>3, CloserIdleStep
  <2>4. CASE CloseReports \/ CloseEnds
    BY <2>4, CloseReportsStep, CloseEndsStep
  <2> QED
    BY <1>6, <2>1, <2>2, <2>3, <2>4 DEF CloserStep
<1>7. ASSUME NEW c \in Calls,
             \/ WorkerEvent(c) \/ (\E o \in Returns : WorkerReports(c, o))
             \/ WorkerStep(c)
      PROVE  ServiceInv' /\ StepOK
  BY <1>7, WorkerEventStep, WorkerReportsStep, WorkerSettlesStep, DirectNextStep
     DEF WorkerStep
<1>8. ASSUME NEW t \in Threads, FlushStep(t)
      PROVE  ServiceInv' /\ StepOK
  BY <1>8, FlushMarkStep, FlushSendStep, FlushDoneStep DEF FlushStep
<1>9. ASSUME NEW t \in Threads, ScheduleStep(t)
      PROVE  ServiceInv' /\ StepOK
  BY <1>9, ScheduleSkipStep, ScheduleBusyStep, ScheduleClearStep,
     ScheduleBlockedStep, ScheduleStartStep, ScheduleDirectStep,
     ScheduleDoneStep DEF ScheduleStep
<1>10. CASE \E t \in Threads : \E r \in batch[t] : FlushFull(t, r)
  BY <1>10, FlushSendStep
<1>11. CASE ClientCloses \/ \E w \in Shared : ForeignWorker(w)
  BY <1>11, OutsideStep
<1> QED
  BY <1>1, <1>2, <1>3, <1>4, <1>5, <1>6, <1>7, <1>8, <1>9, <1>10, <1>11 DEF Next

\* The inductive invariant: the table is consistent, each thread is where the
\* table says it is, and `schedule` has left nothing behind that could start.
THEOREM ServiceInvariant == Spec => []ServiceInv
<1>1. Init => ServiceInv
  BY ServiceInit
<1>2. ServiceInv /\ [Next]_vars => ServiceInv'
  BY ServiceNext
<1> QED
  BY <1>1, <1>2, PTL DEF Spec

\* The table's records, counters and queues have their types.
THEOREM ServiceTypeCorrect == Spec => []TypeOK
<1>1. ServiceInv => TypeOK
  <2> SUFFICES ASSUME ServiceInv PROVE TypeOK
    OBVIOUS
  <2>1. tbl \in TableType /\ tbl.high <= MaxCall /\ MaxCall \in Nat
    BY LimitsAssumption DEF ServiceInv, ServiceTypes
  <2>2. tbl.high \in 0 .. MaxCall
    BY <2>1 DEF TableType
  <2>3. ASSUME NEW c \in Calls
        PROVE  /\ tbl.rec[c].phase \in Phases /\ tbl.rec[c].outcome \in Outcomes
               /\ tbl.rec[c].waiters \subseteq Calls
               /\ tbl.rec[c].views \subseteq Views
    BY <2>1 DEF TableType, RecordType
  <2>4. /\ tbl.req \in [Calls -> Requests]
        /\ {tbl.outstanding, tbl.controls, tbl.running, tbl.directRunning,
            tbl.tableEntries, tbl.unflushed, tbl.detached} \subseteq Nat
        /\ tbl.requests \in [RequestIds -> Calls \cup {NoCall}]
        /\ tbl.others \cup tbl.held \cup tbl.closers \subseteq Calls
    BY <2>1 DEF TableType
  <2>5. \A q \in {tbl.pending, tbl.queue, tbl.directQueue, tbl.retained} :
          q \in Seq(Calls)
    BY <2>1 DEF TableType
  <2>6. /\ lock \in Threads \cup {NoThread} /\ stage[Reader] \in ReaderStages
        /\ stage[Admission] \in AdmissionStages /\ stage[Reads] \in ReadStages
        /\ stage[Closer] \in CloserStages
        /\ \A c \in Calls : stage[c] \in WorkerStages
        /\ recorded \subseteq Calls /\ foreign \subseteq Workspaces
    BY DEF ServiceInv, ServiceTypes, StageTypes
  <2> QED
    BY <2>2, <2>3, <2>4, <2>5, <2>6 DEF TypeOK
<1> QED
  BY <1>1, ServiceInvariant, PTL

\* No two handlers run at once whose classes exclude each other on their
\* workspace, detached handlers included (Busy::admits, `schedule`, `settle`).
THEOREM ClassesExclude == Spec => []ClassExclusion
<1>1. ServiceInv => ClassExclusion
  BY DEF ServiceInv
<1> QED
  BY <1>1, ServiceInvariant, PTL

\* Outside the table lock a live record is with the thread or queue that will
\* move it on, and a waiting call is where its answer will come from.
THEOREM NothingIsForgotten == Spec => []NothingForgotten
<1>1. ServiceInv => NothingForgotten
  <2> SUFFICES ASSUME ServiceInv, Free, NEW c \in Calls
               PROVE  NothingForgotten!2!(c)
    BY DEF NothingForgotten
  <2>1. stage[Closer] # "settle"
    BY ThreadsApart DEF ServiceInv, LockInv, Holds, Free
  <2>2. Phase(tbl, c) = "Received" =>
          \/ InSeq(c, tbl.pending)
          \/ stage[Admission] = "resolve" /\ admitting.call = c
    BY <2>1 DEF ServiceInv, PendingInv
  <2>3. /\ Phase(tbl, c) = "Queued" => InSeq(c, tbl.queue)
        /\ Phase(tbl, c) = "DirectWaiting" => InSeq(c, tbl.directQueue)
    BY CallsNat DEF ServiceInv, TableInv, PlacedInv, NoCall
  <2>4. Phase(tbl, c) = "Running" => stage[c] \in {"run", "reported"}
    BY DEF ServiceInv, ThreadInv
  <2>5. c \in tbl.others =>
          \/ c \in tbl.held \cup tbl.closers
          \/ \E d \in Calls : Live(tbl, d) /\ c \in tbl.rec[d].waiters
    BY DEF ServiceInv, TableInv, WaitInv, RecordInv, Live, Phase
  <2> QED
    BY <2>2, <2>3, <2>4, <2>5
<1> QED
  BY <1>1, ServiceInvariant, PTL

\* Outside the table lock an operation waits only for the running limit, for
\* its class or behind an earlier one of its workspace, and a direct call only
\* while every direct worker is busy (`schedule`).
THEOREM NoStartMissed == Spec => []NoMissedStart
<1>1. ServiceInv => NoMissedStart
  BY DEF ServiceInv, StartInv, NoMissedStart, Stuck, QueuedAt
<1> QED
  BY <1>1, ServiceInvariant, PTL

\* Operations of one workspace start in the order they were queued (`schedule`).
THEOREM StartsInOrder == Spec => QueueOrder
<1>1. ServiceInv /\ [Next]_vars =>
        [\A c, d \in Calls :
           /\ Starts(c) /\ IsOperation(tbl.req[c])
           /\ d < c /\ Phase(tbl, d) = "Queued"
           => tbl.req[d].ws # tbl.req[c].ws]_vars
  BY ServiceNext DEF StepOK, StartStep
<1> QED
  BY <1>1, ServiceInvariant, PTL DEF Spec, QueueOrder

\* No handler starts once the close has settled what had not started, and a
\* settled record's outcome never changes (`run_close`, `settle`, `run`).
THEOREM CloseStaysFinal == Spec => CloseIsFinal
<1>1. ServiceInv /\ [Next]_vars =>
        [stage[Closer] \notin {"none", "start", "settle"} =>
           \A c \in Calls : ~Starts(c)]_vars
  <2> SUFFICES ASSUME ServiceInv, [Next]_vars, Late, NEW c \in Calls, Starts(c)
               PROVE  FALSE
    BY DEF Late
  <2>1. Phase(tbl, c) \in {"Queued", "DirectWaiting"}
    BY ServiceNext DEF StepOK, StartStep
  <2>2. c \in NotStarted(tbl)
    BY <2>1 DEF NotStarted
  <2> QED
    BY <2>2 DEF ServiceInv, CloseInv
<1>2. ServiceInv /\ [Next]_vars =>
        [\A c \in Calls :
           Phase(tbl, c) = "Terminal" /\ Phase(tbl', c) # "None" =>
             tbl'.rec[c].outcome = tbl.rec[c].outcome]_vars
  BY ServiceNext DEF StepOK, OutcomeStep
<1> QED
  BY <1>1, <1>2, ServiceInvariant, PTL
     DEF Spec, CloseIsFinal, NoStartAfterClose, OutcomeFinal
====
