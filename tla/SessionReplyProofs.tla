------------------------- MODULE SessionReplyProofs -------------------------
(***************************************************************************)
(* Theorems about what a session answers and counts, for every number of   *)
(* calls, every set of workspaces and every value of the limits, whatever  *)
(* the handlers, the spawns, the channel and the close do.                 *)
(*                                                                         *)
(* The inductive invariant is ReplyInv, beside ServiceInv. Its parts:      *)
(*   Books     the table's counters say what they count: the lanes what is *)
(*             owed on them, the entries and the running operations what   *)
(*             they limit, the request IDs who holds them; and which calls *)
(*             have records and which wait, for whom;                      *)
(*   OnceInv   each reply is in one place (the batch being built, a        *)
(*             thread's batch, past the channel), is the only one to its   *)
(*             call and its call is owed none; and, until the session      *)
(*             ends, a call heard is owed a reply or has one;              *)
(*   PlaceInv  a thread outside mark and send has nothing to send;         *)
(*   TallyInv  the batches under way and the direct workers are counted;   *)
(*   OverInv   past its sixth step the close has left nothing live;        *)
(*   ReportInv the replies to the calls before a close report are out;     *)
(*   FateInv   a view marked delivered was handed over, an accepted        *)
(*             operation has its reply and keeps its record until released *)
(*             or delivered, and the views replied are of no live call.    *)
(*                                                                         *)
(* Books takes the calls in hand, owed a reply but not in the table. The   *)
(* table's operators come first (...Books): each keeps the books and Moves *)
(* what is due to a reply, or keeps it due. Then how a section's replies   *)
(* flow from the table to a thread's batch (Begins, Carries, Flow...), one *)
(* lemma per action (...Reply), and the theorems of the specification.     *)
(***************************************************************************)
EXTENDS SessionServiceProofs

-----------------------------------------------------------------------------
(* What the table owes, and what its counters say. *)

\* The calls that have their reply to come, but for the ones in hand.
Owed(s) ==
  {c \in Calls : c \in s.others \/ (Live(s, c) /\ ~s.rec[c].accepted)}
Due(s, X) == Owed(s) \cup X
OnControl(s, D) == {c \in D : Control(s.req[c])}
OffControl(s, D) == {c \in D : ~Control(s.req[c])}

\* Which calls have records and which wait, for whom.
KindInv(s) ==
  /\ \A c \in Calls :
       LET r == s.rec[c] IN
       /\ r.phase # "None" => s.req[c].type \in {"Direct", "Operation"}
       /\ r.accepted => IsOperation(s.req[c]) /\ s.req[c].submit
       /\ r.accepted => r.phase \in {"Queued", "Running", "Terminal"}
       /\ r.phase = "Terminal" => r.accepted
       /\ r.phase = "Running" => r.resolved
       /\ r.inTable <=> /\ IsOperation(s.req[c])
                        /\ r.phase \in {"Queued", "Running", "Terminal"}
       /\ \A w \in r.waiters :
            w \in s.others /\ s.req[w].target = c /\ s.req[w].type # "Close"
  /\ \A c \in s.others :
       c <= s.high /\ s.req[c].type \notin {"Direct", "Operation"}
  /\ \A c \in s.held : c \in s.others /\ s.req[c].type = "Read"
  /\ \A c \in s.closers : c \in s.others /\ s.req[c].type = "Close"

\* The lanes count what is owed on them.
LaneInv(s, X) ==
  /\ X \cap Owed(s) = {}
  /\ s.outstanding = Cardinality(OffControl(s, Due(s, X)))
  /\ s.controls = Cardinality(OnControl(s, Due(s, X)))

\* The table's entries are counted, and within their limit.
InTable(s) == {c \in Calls : s.rec[c].inTable}
EntryInv(s) ==
  s.tableEntries = Cardinality(InTable(s)) /\ s.tableEntries <= TableLimit

\* The running operations are counted, exactly until the session closes.
Ops(s) == {c \in Calls : Phase(s, c) = "Running" /\ IsOperation(s.req[c])}
RunInv(s) ==
  /\ s.running >= Cardinality(Ops(s)) /\ s.running <= RunningLimit
  /\ ~s.closing =>
       /\ s.running = Cardinality(Ops(s))
       /\ \A w \in Workspaces, k \in Classes :
            s.busy[w][k] = Cardinality(ClassOps(s, w, k))
       /\ \A i \in 1 .. Len(s.queue) : Phase(s, s.queue[i]) = "Queued"
  /\ Len(s.queue) <= QueueLimit

\* The request IDs held are those of the admitted operations.
Holding(s, i) ==
  {c \in Calls : /\ IsOperation(s.req[c]) /\ s.req[c].rid = i
                 /\ Phase(s, c) \in {"Queued", "Running"}}
IdInv(s) ==
  \A i \in RequestIds :
    Holding(s, i) = IF s.requests[i] = NoCall THEN {} ELSE {s.requests[i]}

Books(s, X) ==
  KindInv(s) /\ LaneInv(s, X) /\ EntryInv(s) /\ RunInv(s) /\ IdInv(s)

-----------------------------------------------------------------------------
(* What an operation on a table may do to replies and to records. *)

\* Every call that was due, in hand or not, is due still or has its one reply;
\* and no other call has one. `X` is in hand before, `Y` after.
Answers(s, u, X, Y) ==
  /\ s.out \subseteq u.out
  /\ \A r \in u.out \ s.out : r.to \in Due(s, X) /\ r.to \notin Due(u, Y)
  /\ \A r, m \in u.out \ s.out : r.to = m.to => r = m
  /\ Due(u, Y) \subseteq Due(s, X)
  /\ \A c \in Due(s, X) : c \in Due(u, Y) \/ \E r \in u.out : r.to = c

\* An accepted record goes only delivered or released, no view is delivered,
\* only a call in hand gets a record, and results are of no live call.
Fate(s, u, X) ==
  /\ u.req = s.req /\ u.high = s.high
  /\ \A c \in Calls : s.rec[c].accepted =>
       \/ u.rec[c].accepted
       \/ Delivered(s, c)
       \/ \E r \in u.out : r.what = "released" /\ u.req[r.to].target = c
  /\ \A c \in Calls : u.rec[c].views \subseteq s.rec[c].views
  /\ \A c \in Calls : Live(u, c) => c \in X \/ Live(s, c)
  /\ \A r \in u.out \ s.out : r.owner \in Calls =>
       r.owner <= u.high /\ ~Live(u, r.owner)

Moves(s, u, X, Y) == Answers(s, u, X, Y) /\ Fate(s, u, X)

\* Nothing is accepted, and no new reply says so or reports the close.
Plainly(s, u) ==
  /\ \A r \in u.out \ s.out : r.what \notin {"accepted", "report"}
  /\ \A c \in Calls : u.rec[c].accepted => s.rec[c].accepted

\* What was done first and what was done then.
LEMMA MovesThen ==
  ASSUME NEW s, NEW t, NEW u, NEW X, NEW Y, NEW Z,
         Moves(s, t, X, Y), Moves(t, u, Y, Z),
         \A c \in Y :
           /\ c \in X \/ Live(s, c)
           /\ c \in Calls /\ Live(u, c) => Live(t, c) \/ t.out = s.out
  PROVE  /\ Moves(s, u, X, Z)
         /\ Plainly(s, t) /\ Plainly(t, u) => Plainly(s, u)
<1>1. Answers(s, u, X, Z)
  BY Zenon DEF Moves, Answers
<1>2. Fate(s, u, X)
  <2>1. /\ u.req = s.req /\ u.high = s.high
        /\ \A c \in Calls : u.rec[c].views \subseteq s.rec[c].views
    BY DEF Moves, Fate
  <2>2. ASSUME NEW c \in Calls, s.rec[c].accepted
        PROVE  \/ u.rec[c].accepted
               \/ Delivered(s, c)
               \/ \E r \in u.out : r.what = "released" /\ u.req[r.to].target = c
    BY <2>1, <2>2 DEF Moves, Fate, Answers, Delivered
  <2>3. ASSUME NEW c \in Calls, Live(u, c)
        PROVE  c \in X \/ Live(s, c)
    BY <2>3 DEF Moves, Fate
  <2>4. ASSUME NEW r \in u.out \ s.out, r.owner \in Calls
        PROVE  r.owner <= u.high /\ ~Live(u, r.owner)
    BY <2>1, <2>4 DEF Moves, Fate
  <2> QED
    BY <2>1, <2>2, <2>3, <2>4 DEF Moves, Fate
<1>3. Plainly(s, t) /\ Plainly(t, u) => Plainly(s, u)
  BY DEF Plainly
<1> QED
  BY <1>1, <1>2, <1>3 DEF Moves

\* Nothing done.
LEMMA MovesNot ==
  ASSUME NEW s, NEW X PROVE Moves(s, s, X, X) /\ Plainly(s, s)
  BY DEF Moves, Answers, Fate, Plainly

-----------------------------------------------------------------------------
(* Counting. *)

\* Taking calls from a set, and putting one in.
LEMMA CountLess ==
  ASSUME NEW S \in SUBSET Calls, NEW D \in SUBSET S
  PROVE  /\ Cardinality(S \ D) \in Nat /\ Cardinality(D) \in Nat
         /\ Cardinality(S) \in Nat
         /\ Cardinality(S \ D) = Less(Cardinality(S), Cardinality(D))
         /\ Cardinality(D) <= Cardinality(S)
<1>1. IsFiniteSet(S) /\ IsFiniteSet(D) /\ S \cap D = D /\ IsFiniteSet(S \ D)
  BY CountNat
<1>2. /\ Cardinality(S) \in Nat /\ Cardinality(D) \in Nat
      /\ Cardinality(S \ D) \in Nat
  BY <1>1, FS_CardinalityType
<1>3. Cardinality(S \ D) = Cardinality(S) - Cardinality(D)
  BY <1>1, FS_Difference
<1> QED
  BY <1>2, <1>3 DEF Less

\* A count gains what is added.
LEMMA CountMore ==
  ASSUME NEW S \in SUBSET Calls, NEW c \in Calls, c \notin S
  PROVE  /\ Cardinality(S) \in Nat
         /\ Cardinality(S \cup {c}) = Cardinality(S) + 1
  BY CountNat, FS_AddElement

-----------------------------------------------------------------------------
(* The parts of the books, each with what keeps it. *)

SameLanes(s, u) == u.outstanding = s.outstanding /\ u.controls = s.controls
SameIndex(s, u) == u.tableEntries = s.tableEntries /\ u.requests = s.requests

\* What was due stays due, perhaps in hand, and the counts stay.
LEMMA LaneSame ==
  ASSUME NEW s, NEW u, NEW X, NEW Y, LaneInv(s, X), u.req = s.req,
         Due(u, Y) = Due(s, X), Y \cap Owed(u) = {}, SameLanes(s, u)
  PROVE  LaneInv(u, Y)
  BY DEF LaneInv, SameLanes, OnControl, OffControl

\* The counts lose what is due no longer.
LEMMA LaneLess ==
  ASSUME NEW s, NEW u, NEW X \in SUBSET Calls, NEW Y, NEW D, LaneInv(s, X),
         u.req = s.req, D \subseteq Due(s, X), Due(u, Y) = Due(s, X) \ D,
         Y \cap Owed(u) = {},
         u.outstanding = Less(s.outstanding, Cardinality(OffControl(s, D))),
         u.controls = Less(s.controls, Cardinality(OnControl(s, D)))
  PROVE  LaneInv(u, Y)
<1>1. Due(s, X) \in SUBSET Calls
  BY DEF Due, Owed
<1>2. /\ OffControl(u, Due(u, Y)) = OffControl(s, Due(s, X)) \ OffControl(s, D)
      /\ OnControl(u, Due(u, Y)) = OnControl(s, Due(s, X)) \ OnControl(s, D)
  BY DEF OffControl, OnControl
<1>3. /\ OffControl(s, Due(s, X)) \in SUBSET Calls
      /\ OffControl(s, D) \in SUBSET OffControl(s, Due(s, X))
      /\ OnControl(s, Due(s, X)) \in SUBSET Calls
      /\ OnControl(s, D) \in SUBSET OnControl(s, Due(s, X))
  BY <1>1 DEF OffControl, OnControl
<1>4. /\ Cardinality(OffControl(u, Due(u, Y))) = u.outstanding
      /\ Cardinality(OnControl(u, Due(u, Y))) = u.controls
  BY <1>2, <1>3, CountLess DEF LaneInv
<1> QED
  BY <1>4 DEF LaneInv

\* Of a call alone, a lane has one or none.
LEMMA LaneOne ==
  ASSUME NEW s, NEW c
  PROVE  /\ Cardinality(OffControl(s, {c})) = IF Control(s.req[c]) THEN 0 ELSE 1
         /\ Cardinality(OnControl(s, {c})) = IF Control(s.req[c]) THEN 1 ELSE 0
<1>1. CASE Control(s.req[c])
  <2>1. OffControl(s, {c}) = {} /\ OnControl(s, {c}) = {c}
    BY <1>1 DEF OffControl, OnControl
  <2> QED
    BY <1>1, <2>1, FS_EmptySet, FS_Singleton
<1>2. CASE ~Control(s.req[c])
  <2>1. OffControl(s, {c}) = {c} /\ OnControl(s, {c}) = {}
    BY <1>2 DEF OffControl, OnControl
  <2> QED
    BY <1>2, <2>1, FS_EmptySet, FS_Singleton
<1> QED
  BY <1>1, <1>2

\* Less of nothing.
LEMMA LessNone == ASSUME NEW n \in Nat PROVE Less(n, 0) = n /\ Less(n, 1) \in Nat
  BY DEF Less

\* The records are the same, but for gates, outcomes and views.
SameFacts(s, u) ==
  \A d \in Calls :
    /\ u.rec[d].phase = s.rec[d].phase /\ u.rec[d].accepted = s.rec[d].accepted
    /\ u.rec[d].inTable = s.rec[d].inTable
    /\ u.rec[d].resolved = s.rec[d].resolved
    /\ u.rec[d].waiters = s.rec[d].waiters
SameTable(s, u) ==
  /\ u.high = s.high /\ u.req = s.req
  /\ u.closing = s.closing \/ u.closing
  /\ u.busy = s.busy /\ u.running = s.running
  /\ SameIndex(s, u)
Shorter(p, q) ==
  /\ p \in Seq(Calls) /\ q \in Seq(Calls) /\ Len(p) <= Len(q)
  /\ \A j \in 1 .. Len(p) : InSeq(p[j], q)

\* The same records owe the same.
LEMMA OwedSame ==
  ASSUME NEW s, NEW u, SameFacts(s, u), u.others = s.others
  PROVE  Owed(u) = Owed(s) /\ \A X : Due(u, X) = Due(s, X)
  BY DEF SameFacts, Owed, Due, Live, Phase

\* The table's own parts do not see replies, lanes and gates.
LEMMA QuietParts ==
  ASSUME NEW s \in TableType, NEW u \in TableType, SameFacts(s, u),
         SameTable(s, u), Shorter(u.queue, s.queue)
  PROVE  /\ EntryInv(s) => EntryInv(u)
         /\ RunInv(s) => RunInv(u)
         /\ IdInv(s) => IdInv(u)
<1>1. EntryInv(s) => EntryInv(u)
  BY DEF EntryInv, InTable, SameFacts, SameTable, SameIndex
<1>2. ASSUME RunInv(s) PROVE RunInv(u)
  <2>1. /\ Ops(u) = Ops(s)
        /\ \A w \in Workspaces, k \in Classes : ClassOps(u, w, k) = ClassOps(s, w, k)
    BY DEF Ops, ClassOps, SameFacts, SameTable, Phase
  <2>2. ASSUME NEW j \in 1 .. Len(u.queue), ~s.closing
        PROVE  Phase(u, u.queue[j]) = "Queued"
    <3>1. PICK i \in 1 .. Len(s.queue) : s.queue[i] = u.queue[j]
      BY DEF Shorter, InSeq
    <3>2. s.queue[i] \in Calls
      BY DEF Shorter
    <3> QED
      BY <1>2, <2>2, <3>1, <3>2 DEF RunInv, SameFacts, Phase
  <2>3. Len(u.queue) <= QueueLimit
    <3>1. Len(u.queue) \in Nat /\ Len(s.queue) \in Nat /\ QueueLimit \in Nat
      BY LimitsAssumption DEF Shorter
    <3> QED
      BY <1>2, <3>1 DEF RunInv, Shorter
  <2>4. u.closing \in BOOLEAN /\ s.closing \in BOOLEAN
    BY DEF TableType
  <2> QED
    BY <1>2, <2>1, <2>2, <2>3, <2>4 DEF RunInv, SameTable
<1>3. ASSUME IdInv(s) PROVE IdInv(u)
  <2>1. \A i \in RequestIds : Holding(u, i) = Holding(s, i)
    BY DEF Holding, SameFacts, SameTable, Phase
  <2> QED
    BY <1>3, <2>1 DEF IdInv, SameTable, SameIndex
<1> QED
  BY <1>1, <1>2, <1>3

\* A line is no longer than itself.
LEMMA ShorterSame == ASSUME NEW q \in Seq(Calls) PROVE Shorter(q, q)
  BY DEF Shorter, InSeq

\* A table that changes in nothing the books see keeps them.
LEMMA QuietBooks ==
  ASSUME NEW s \in TableType, NEW u \in TableType, NEW X, Books(s, X),
         SameFacts(s, u), SameTable(s, u), Shorter(u.queue, s.queue),
         u.others = s.others, SameWaits(s, u), SameLanes(s, u)
  PROVE  Books(u, X)
<1>1. KindInv(u)
  BY DEF Books, KindInv, SameFacts, SameTable, SameWaits
<1>2. LaneInv(u, X)
  BY OwedSame, LaneSame DEF Books, SameTable, LaneInv
<1> QED
  BY <1>1, <1>2, QuietParts DEF Books

-----------------------------------------------------------------------------
(* Answering. *)

\* A reply to a call that is counted off its lane.
Answered(s, c, r) == [AnsweredOn(s, c) EXCEPT !.out = @ \cup {r}]

\* The answer of `answered_on` and one reply, field by field.
LEMMA AnsweredFields ==
  ASSUME NEW s \in TableType, NEW c \in Calls, NEW r \in ReplyType
  PROVE  LET u == Answered(s, c, r) IN
         /\ u \in TableType
         /\ SameCalls(s, u) /\ SameQueues(s, u) /\ SameBusy(s, u)
         /\ SameWaits(s, u) /\ SameIndex(s, u)
         /\ u.rec = s.rec /\ u.retained = s.retained
         /\ u.others = s.others \ {c} /\ u.unflushed = s.unflushed
         /\ u.outstanding = IF Control(s.req[c]) THEN s.outstanding
                            ELSE Less(s.outstanding, 1)
         /\ u.controls = IF Control(s.req[c]) THEN Less(s.controls, 1)
                         ELSE s.controls
         /\ u.out = s.out \cup {r}
<1> DEFINE o == IF Control(s.req[c]) THEN s.outstanding
                ELSE Less(s.outstanding, 1)
           k == IF Control(s.req[c]) THEN Less(s.controls, 1) ELSE s.controls
           u == [s EXCEPT !.others = @ \ {c}, !.outstanding = o,
                          !.controls = k, !.out = @ \cup {r}]
<1>1. o \in Nat /\ k \in Nat
  BY LessNone DEF TableType
<1>2. Answered(s, c, r) = u
  BY ZenonT(60) DEF Answered, AnsweredOn, TableType
<1> HIDE DEF o, k
<1>3. u \in TableType
  BY <1>1 DEF TableType
<1>4. /\ SameCalls(s, u) /\ SameQueues(s, u) /\ SameBusy(s, u)
      /\ SameWaits(s, u) /\ SameIndex(s, u)
      /\ u.rec = s.rec /\ u.retained = s.retained
      /\ u.others = s.others \ {c} /\ u.unflushed = s.unflushed
      /\ u.outstanding = o /\ u.controls = k /\ u.out = s.out \cup {r}
  BY DEF TableType, SameCalls, SameQueues, SameBusy, SameWaits, SameIndex
<1> QED
  BY <1>2, <1>3, <1>4 DEF o, k

\* The reply of `Answer`.
LEMMA AnswerReply ==
  ASSUME NEW s, NEW c \in Calls, NEW what \in Says
  PROVE  /\ Answer(s, c, what) = Answered(s, c, Reply(c, what))
         /\ Reply(c, what) \in ReplyType
         /\ Reply(c, what).to = c /\ Reply(c, what).what = what
         /\ Reply(c, what).owner \notin Calls
  BY CallsNat DEF Answer, Answered, Reply, ReplyType, NoCall, Views

\* A call in hand is answered: it is due no longer and its lane has one less.
LEMMA AnsweredAny ==
  ASSUME NEW s \in TableType, NEW c \in Calls, NEW r \in ReplyType,
         NEW X \in SUBSET Calls, c \in X, Books(s, X), r.to = c,
         r.owner \in Calls => r.owner <= s.high /\ ~Live(s, r.owner)
  PROVE  LET u == Answered(s, c, r) IN
         /\ u \in TableType /\ Books(u, X \ {c})
         /\ Moves(s, u, X, X \ {c})
         /\ r.what \notin {"accepted", "report"} => Plainly(s, u)
         /\ u.others = s.others /\ u.rec = s.rec /\ u.out = s.out \cup {r}
         /\ SameCalls(s, u) /\ SameQueues(s, u) /\ SameBusy(s, u)
         /\ SameWaits(s, u) /\ SameIndex(s, u) /\ u.unflushed = s.unflushed
<1> DEFINE u == Answered(s, c, r)
<1>1. /\ u \in TableType
      /\ SameCalls(s, u) /\ SameQueues(s, u) /\ SameBusy(s, u)
      /\ SameWaits(s, u) /\ SameIndex(s, u)
      /\ u.rec = s.rec /\ u.retained = s.retained
      /\ u.others = s.others \ {c} /\ u.unflushed = s.unflushed
      /\ u.outstanding = IF Control(s.req[c]) THEN s.outstanding
                         ELSE Less(s.outstanding, 1)
      /\ u.controls = IF Control(s.req[c]) THEN Less(s.controls, 1)
                      ELSE s.controls
      /\ u.out = s.out \cup {r}
  BY AnsweredFields
<1> HIDE DEF u
<1>2. c \notin Owed(s) /\ c \notin s.others /\ u.others = s.others
  BY <1>1 DEF Books, LaneInv, Owed
<1>3. /\ SameFacts(s, u) /\ SameTable(s, u)
      /\ Shorter(u.queue, s.queue)
  BY <1>1, ShorterSame DEF SameFacts, SameTable, SameCalls, SameBusy,
     SameQueues, TableType
<1>4. Owed(u) = Owed(s) /\ u.req = s.req
  BY <1>1, <1>2, <1>3, OwedSame DEF SameCalls
<1>5. KindInv(u)
  BY <1>1, <1>2, <1>3 DEF Books, KindInv, SameFacts, SameTable, SameWaits
<1>6. LaneInv(u, X \ {c})
  <2>1. s.outstanding \in Nat /\ s.controls \in Nat
    BY DEF TableType
  <2>2. /\ u.outstanding = Less(s.outstanding, Cardinality(OffControl(s, {c})))
        /\ u.controls = Less(s.controls, Cardinality(OnControl(s, {c})))
    <3>1. CASE Control(s.req[c])
      BY <1>1, <2>1, <3>1, LaneOne, LessNone
    <3>2. CASE ~Control(s.req[c])
      BY <1>1, <2>1, <3>2, LaneOne, LessNone
    <3> QED
      BY <3>1, <3>2
  <2>3. {c} \subseteq Due(s, X) /\ Due(u, X \ {c}) = Due(s, X) \ {c}
    BY <1>2, <1>4 DEF Due
  <2>4. LaneInv(s, X) /\ (X \ {c}) \cap Owed(u) = {}
    BY <1>4 DEF Books, LaneInv
  <2> QED
    BY <1>4, <2>2, <2>3, <2>4, LaneLess
<1>7. Books(u, X \ {c})
  BY <1>1, <1>3, <1>5, <1>6, QuietParts DEF Books
<1>8. Moves(s, u, X, X \ {c})
  <2>1. Answers(s, u, X, X \ {c})
    BY <1>1, <1>2, <1>4 DEF Answers, Due
  <2>2. Fate(s, u, X)
    BY <1>1, <1>4 DEF Fate, Live, Phase, SameCalls
  <2> QED
    BY <2>1, <2>2 DEF Moves
<1> QED
  BY <1>1, <1>2, <1>7, <1>8 DEF u, Plainly

\* So it is when it is the only one in hand.
LEMMA AnsweredBooks ==
  ASSUME NEW s \in TableType, NEW c \in Calls, NEW r \in ReplyType,
         Books(s, {c}), r.to = c,
         r.owner \in Calls => r.owner <= s.high /\ ~Live(s, r.owner)
  PROVE  LET u == Answered(s, c, r) IN
         /\ u \in TableType /\ Books(u, {}) /\ Moves(s, u, {c}, {})
         /\ r.what \notin {"accepted", "report"} => Plainly(s, u)
         /\ u.others = s.others /\ u.rec = s.rec /\ u.out = s.out \cup {r}
         /\ SameCalls(s, u) /\ SameQueues(s, u) /\ SameBusy(s, u)
         /\ SameWaits(s, u) /\ SameIndex(s, u) /\ u.unflushed = s.unflushed
<1>1. {c} \ {c} = {} /\ {c} \in SUBSET Calls /\ c \in {c}
  OBVIOUS
<1> HIDE DEF Answered
<1> QED
  BY <1>1, AnsweredAny


-----------------------------------------------------------------------------
(* Hearing a call, and the calls that wait. *)

\* The call is heard: nothing is owed to it yet, and nothing else changes.
LEMMA HearBooks ==
  ASSUME NEW s \in TableType, TableInv(s, NoCall), s.high < MaxCall,
         NEW q \in Requests, Books(s, {})
  PROVE  LET u == Hear(s, q)
             c == s.high + 1
         IN
         /\ u \in TableType /\ TableInv(u, NoCall) /\ c \in Calls
         /\ Books(u, {}) /\ c \notin Owed(u)
         /\ u.high = c /\ u.req[c] = q
         /\ \A d \in Calls : d <= s.high => u.req[d] = s.req[d]
         /\ u.rec = s.rec /\ u.others = s.others /\ u.out = s.out
         /\ SameQueues(s, u) /\ SameBusy(s, u) /\ SameWaits(s, u)
         /\ SameLanes(s, u) /\ SameIndex(s, u) /\ u.unflushed = s.unflushed
         /\ u.closing = s.closing /\ u.closeStarted = s.closeStarted
         /\ u.ended = s.ended /\ u.report = s.report /\ u.revoked = s.revoked
         /\ Phase(u, c) = "None"
<1> DEFINE u == Hear(s, q)
           c == s.high + 1
<1>1. /\ u \in TableType /\ TableInv(u, NoCall) /\ c \in Calls
      /\ u.high = c /\ u.req[c] = q
      /\ \A d \in Calls : d <= s.high => u.req[d] = s.req[d]
      /\ u.rec = s.rec /\ SameQueues(s, u) /\ SameBusy(s, u)
      /\ SameWaits(s, u) /\ u.retained = s.retained /\ u.others = s.others
      /\ u.closing = s.closing /\ u.closeStarted = s.closeStarted
      /\ u.ended = s.ended /\ u.report = s.report /\ u.revoked = s.revoked
      /\ Phase(u, c) = "None"
  BY HearKeeps
<1>2. /\ u.out = s.out /\ SameLanes(s, u) /\ SameIndex(s, u)
      /\ u.unflushed = s.unflushed
  BY DEF Hear, TableType, SameLanes, SameIndex
<1> HIDE DEF u
<1>0. /\ s.high \in Nat /\ s.high < c /\ c \in Nat /\ \A d \in Calls : d \in Nat
      /\ s.others \subseteq Calls
  <2>1. s.high \in Nat /\ s.others \subseteq Calls
    BY DEF TableType
  <2> QED
    BY <2>1, CallsNat
<1>3. /\ \A d \in Calls : Phase(s, d) # "None" => d <= s.high
      /\ \A d \in s.others : d <= s.high
      /\ \A d \in Owed(s) : d <= s.high
  BY DEF TableInv, RecordInv, Phase, Books, KindInv, Owed, Live
<1>4. Owed(u) = Owed(s) /\ c \notin Owed(u) /\ c \notin s.others
  BY <1>0, <1>1, <1>3 DEF Owed, Live, Phase
<1>5. KindInv(u)
  <2>1. ASSUME NEW d \in Calls, Phase(s, d) # "None"
        PROVE  u.req[d] = s.req[d]
    BY <1>1, <1>3, <2>1
  <2>2. ASSUME NEW d \in s.others PROVE u.req[d] = s.req[d] /\ d <= u.high
    BY <1>0, <1>1, <1>3
  <2>3. KindInv(s)
    BY DEF Books
  <2>4. ASSUME NEW d \in Calls PROVE KindInv(u)!1!(d)
    BY <1>1, <2>1, <2>2, <2>3 DEF KindInv, Phase
  <2>5. /\ \A d \in u.others :
             d <= u.high /\ u.req[d].type \notin {"Direct", "Operation"}
        /\ \A d \in u.held : d \in u.others /\ u.req[d].type = "Read"
        /\ \A d \in u.closers : d \in u.others /\ u.req[d].type = "Close"
    BY <1>1, <2>2, <2>3 DEF KindInv, SameWaits
  <2> QED
    BY <2>4, <2>5 DEF KindInv
<1>6. LaneInv(u, {})
  <2>1. \A d \in Owed(s) : u.req[d] = s.req[d]
    BY <1>1, <1>3 DEF Owed
  <2>2. /\ OffControl(u, Due(u, {})) = OffControl(s, Due(s, {}))
        /\ OnControl(u, Due(u, {})) = OnControl(s, Due(s, {}))
    BY <1>4, <2>1 DEF OffControl, OnControl, Due
  <2> QED
    BY <1>2, <2>2 DEF Books, LaneInv, SameLanes
<1>7. EntryInv(u)
  BY <1>1, <1>2 DEF Books, EntryInv, InTable, SameIndex
<1>8. \A d \in Calls : Phase(s, d) # "None" => u.req[d] = s.req[d]
  BY <1>1, <1>3
<1>9. RunInv(u)
  <2>1. /\ Ops(u) = Ops(s)
        /\ \A w \in Workspaces, k \in Classes : ClassOps(u, w, k) = ClassOps(s, w, k)
    BY <1>1, <1>8 DEF Ops, ClassOps, Phase
  <2> QED
    BY <1>1, <2>1 DEF Books, RunInv, SameBusy, SameQueues, Phase
<1>10. IdInv(u)
  <2>1. \A i \in RequestIds : Holding(u, i) = Holding(s, i)
    BY <1>1, <1>8 DEF Holding, Phase
  <2> QED
    BY <1>2, <2>1 DEF Books, IdInv, SameIndex
<1> QED
  BY <1>1, <1>2, <1>4, <1>5, <1>6, <1>7, <1>9, <1>10 DEF Books, u

\* The call is counted, and in hand.
LEMMA CountedBooks ==
  ASSUME NEW s \in TableType, TableInv(s, NoCall), NEW c \in Calls, Books(s, {}),
         c \notin Owed(s)
  PROVE  LET u == Counted(s, s.req[c]) IN
         /\ u \in TableType /\ TableInv(u, NoCall) /\ Books(u, {c})
         /\ SameCalls(s, u) /\ SameQueues(s, u) /\ SameBusy(s, u)
         /\ SameWaits(s, u) /\ SameIndex(s, u) /\ u.unflushed = s.unflushed
         /\ u.rec = s.rec /\ u.others = s.others /\ u.out = s.out
<1> DEFINE u == Counted(s, s.req[c])
<1>1. /\ u \in TableType /\ TableInv(u, NoCall)
      /\ SameCalls(s, u) /\ SameQueues(s, u) /\ SameBusy(s, u)
      /\ SameWaits(s, u)
      /\ u.rec = s.rec /\ u.retained = s.retained /\ u.others = s.others
  BY CountedKeeps
<1>2. /\ u.out = s.out /\ SameIndex(s, u) /\ u.unflushed = s.unflushed
      /\ u.outstanding = IF Control(s.req[c]) THEN s.outstanding
                         ELSE s.outstanding + 1
      /\ u.controls = IF Control(s.req[c]) THEN s.controls + 1 ELSE s.controls
  BY DEF Counted, TableType, SameIndex
<1> HIDE DEF u
<1>3. /\ SameFacts(s, u) /\ SameTable(s, u) /\ Shorter(u.queue, s.queue)
      /\ u.req = s.req
  BY <1>1, <1>2, ShorterSame DEF SameFacts, SameTable, SameCalls, SameBusy,
     SameQueues, TableType
<1>4. Owed(u) = Owed(s)
  BY <1>1, <1>3, OwedSame
<1>5. KindInv(u)
  BY <1>1, <1>3 DEF Books, KindInv, SameFacts, SameTable, SameWaits
<1>6. LaneInv(u, {c})
  <2> DEFINE off == OffControl(s, Due(s, {}))
             on == OnControl(s, Due(s, {}))
  <2>1. /\ off \in SUBSET Calls /\ c \notin off
        /\ on \in SUBSET Calls /\ c \notin on
    BY DEF OffControl, OnControl, Due, Owed
  <2>2. s.outstanding = Cardinality(off) /\ s.controls = Cardinality(on)
    BY DEF Books, LaneInv
  <2>3. CASE Control(s.req[c])
    <3>1. /\ OffControl(u, Due(u, {c})) = off
          /\ OnControl(u, Due(u, {c})) = on \cup {c}
      BY <1>3, <1>4, <2>3 DEF OffControl, OnControl, Due
    <3> HIDE DEF on, off
    <3> QED
      BY <1>2, <1>4, <2>1, <2>2, <2>3, <3>1, CountMore DEF LaneInv
  <2>4. CASE ~Control(s.req[c])
    <3>1. /\ OffControl(u, Due(u, {c})) = off \cup {c}
          /\ OnControl(u, Due(u, {c})) = on
      BY <1>3, <1>4, <2>4 DEF OffControl, OnControl, Due
    <3> HIDE DEF on, off
    <3> QED
      BY <1>2, <1>4, <2>1, <2>2, <2>4, <3>1, CountMore DEF LaneInv
  <2> QED
    BY <2>3, <2>4
<1> QED
  BY <1>1, <1>2, <1>3, <1>5, <1>6, QuietParts DEF Books, u

\* A call gets its record.
LEMMA CreateBooks ==
  ASSUME NEW s \in TableType, NEW c \in Calls, Books(s, {c}),
         Phase(s, c) = "None", s.req[c].type \in {"Direct", "Operation"}
  PROVE  LET u == Create(s, c) IN
         /\ u.out = s.out /\ u.unflushed = s.unflushed /\ u.others = s.others
         /\ u \in TableType => Books(u, {}) /\ Moves(s, u, {c}, {}) /\ Plainly(s, u)
<1> DEFINE u == Create(s, c)
           n == [NoRecord EXCEPT !.phase = "Received", !.gate = TRUE]
<1>1. /\ u.out = s.out /\ u.unflushed = s.unflushed /\ u.others = s.others
      /\ u.high = s.high /\ u.req = s.req /\ u.closing = s.closing
      /\ u.busy = s.busy /\ u.running = s.running /\ u.queue = s.queue
      /\ SameIndex(s, u) /\ SameWaits(s, u) /\ SameLanes(s, u)
      /\ u.rec = [s.rec EXCEPT ![c] = n]
  BY DEF Create, TableType, SameIndex, SameWaits, SameLanes
<1>2. /\ n.phase = "Received" /\ ~n.resolved /\ ~n.accepted /\ ~n.inTable
      /\ n.waiters = {} /\ n.views = {}
  BY DEF NoRecord
<1> HIDE DEF u, n
<1> SUFFICES ASSUME u \in TableType
             PROVE  Books(u, {}) /\ Moves(s, u, {c}, {}) /\ Plainly(s, u)
  BY <1>1 DEF u
<1>3. s.rec \in [Calls -> RecordType] /\ s.queue \in Seq(Calls)
  BY DEF TableType
<1>4. u.rec[c] = n /\ \A d \in Calls \ {c} : u.rec[d] = s.rec[d]
  BY <1>1, <1>3
<1>5. /\ c \notin s.others /\ ~s.rec[c].accepted /\ ~s.rec[c].inTable
      /\ s.rec[c].phase = "None"
  BY DEF Books, LaneInv, Owed, KindInv, Phase
<1>6. KindInv(u)
  <2>1. ASSUME NEW d \in Calls PROVE KindInv(u)!1!(d)
    BY <1>1, <1>2, <1>4 DEF Books, KindInv
  <2> QED
    BY <1>1, <2>1 DEF Books, KindInv, SameWaits
<1>7. Owed(u) = Owed(s) \cup {c}
  BY <1>1, <1>2, <1>4 DEF Owed, Live, Phase
<1>8. LaneInv(u, {})
  <2>1. Due(u, {}) = Due(s, {c}) /\ {} \cap Owed(u) = {}
    BY <1>7 DEF Due
  <2> QED
    BY <1>1, <2>1, LaneSame DEF Books
<1>9. EntryInv(u)
  <2>1. InTable(u) = InTable(s)
    BY <1>2, <1>4, <1>5 DEF InTable
  <2> QED
    BY <1>1, <2>1 DEF Books, EntryInv, SameIndex
<1>10. RunInv(u)
  <2>1. /\ Ops(u) = Ops(s)
        /\ \A w \in Workspaces, k \in Classes : ClassOps(u, w, k) = ClassOps(s, w, k)
    BY <1>1, <1>2, <1>4, <1>5 DEF Ops, ClassOps, Phase
  <2>2. ASSUME NEW i \in 1 .. Len(s.queue), ~s.closing
        PROVE  Phase(u, s.queue[i]) = "Queued"
    <3>1. s.queue[i] \in Calls /\ Phase(s, s.queue[i]) = "Queued"
      BY <1>3, <2>2 DEF Books, RunInv
    <3> QED
      BY <1>4, <1>5, <3>1 DEF Phase
  <2> QED
    BY <1>1, <2>1, <2>2 DEF Books, RunInv
<1>11. IdInv(u)
  <2>1. \A i \in RequestIds : Holding(u, i) = Holding(s, i)
    BY <1>1, <1>2, <1>4, <1>5 DEF Holding, Phase
  <2> QED
    BY <1>1, <2>1 DEF Books, IdInv, SameIndex
<1>12. Moves(s, u, {c}, {}) /\ Plainly(s, u)
  <2>1. Answers(s, u, {c}, {})
    BY <1>1, <1>7 DEF Answers, Due
  <2>2. Fate(s, u, {c})
    BY <1>1, <1>2, <1>4, <1>5 DEF Fate, Live, Phase
  <2> QED
    BY <1>1, <1>2, <1>4, <2>1, <2>2 DEF Moves, Plainly
<1> QED
  BY <1>6, <1>8, <1>9, <1>10, <1>11, <1>12 DEF Books

\* At most the call `c` has joined the waiters of its target.
WaitsOn(s, u, c) ==
  \A d \in Calls :
    /\ u.rec[d].phase = s.rec[d].phase
    /\ u.rec[d].accepted = s.rec[d].accepted
    /\ u.rec[d].inTable = s.rec[d].inTable
    /\ u.rec[d].resolved = s.rec[d].resolved
    /\ u.rec[d].views = s.rec[d].views
    /\ \/ u.rec[d].waiters = s.rec[d].waiters
       \/ /\ u.rec[d].waiters = s.rec[d].waiters \cup {c}
          /\ s.req[c].target = d /\ s.req[c].type # "Close"

\* The call `c` waits, held or as a close or at another call.
Joins(s, u, c) ==
  /\ c <= s.high /\ s.req[c].type \notin {"Direct", "Operation"}
  /\ u.others = s.others \cup {c}
  /\ \/ u.held = s.held
     \/ u.held = s.held \cup {c} /\ s.req[c].type = "Read"
  /\ \/ u.closers = s.closers
     \/ u.closers = s.closers \cup {c} /\ s.req[c].type = "Close"
  /\ SameTable(s, u) /\ SameLanes(s, u) /\ Shorter(u.queue, s.queue)
  /\ u.out = s.out /\ WaitsOn(s, u, c)

\* The call in hand waits for its answer.
LEMMA WaitBooks ==
  ASSUME NEW s \in TableType, NEW u \in TableType, NEW c \in Calls,
         Books(s, {c}), Joins(s, u, c)
  PROVE  Books(u, {}) /\ Moves(s, u, {c}, {}) /\ Plainly(s, u)
<1> USE DEF WaitsOn, Joins
<1>1. u.high = s.high /\ u.req = s.req
  BY DEF SameTable
<1>2. KindInv(u)
  <2>1. ASSUME NEW d \in Calls PROVE KindInv(u)!1!(d)
    BY <1>1 DEF Books, KindInv
  <2> QED
    BY <1>1, <2>1 DEF Books, KindInv
<1>3. Owed(u) = Owed(s) \cup {c}
  BY DEF Owed, Live, Phase
<1>4. LaneInv(u, {})
  <2>1. Due(u, {}) = Due(s, {c}) /\ {} \cap Owed(u) = {}
    BY <1>3 DEF Due
  <2> QED
    BY <1>1, <2>1, LaneSame DEF Books
<1>5. EntryInv(u)
  BY DEF Books, EntryInv, InTable, SameTable, SameIndex
<1>6. RunInv(u)
  <2>1. /\ Ops(u) = Ops(s)
        /\ \A w \in Workspaces, k \in Classes : ClassOps(u, w, k) = ClassOps(s, w, k)
    BY <1>1 DEF Ops, ClassOps, Phase
  <2>2. ASSUME NEW j \in 1 .. Len(u.queue), ~s.closing
        PROVE  Phase(u, u.queue[j]) = "Queued"
    <3>1. PICK i \in 1 .. Len(s.queue) : s.queue[i] = u.queue[j]
      BY DEF Shorter, InSeq
    <3>2. s.queue[i] \in Calls
      BY DEF Shorter
    <3> QED
      BY <2>2, <3>1, <3>2 DEF Books, RunInv, Phase
  <2>3. Len(u.queue) <= QueueLimit
    <3>1. Len(u.queue) \in Nat /\ Len(s.queue) \in Nat /\ QueueLimit \in Nat
      BY LimitsAssumption DEF Shorter
    <3> QED
      BY <3>1 DEF Books, RunInv, Shorter
  <2>4. u.closing \in BOOLEAN /\ s.closing \in BOOLEAN
    BY DEF TableType
  <2> QED
    BY <2>1, <2>2, <2>3, <2>4 DEF Books, RunInv, SameTable
<1>7. IdInv(u)
  <2>1. \A i \in RequestIds : Holding(u, i) = Holding(s, i)
    BY <1>1 DEF Holding, Phase
  <2> QED
    BY <2>1 DEF Books, IdInv, SameTable, SameIndex
<1>8. Moves(s, u, {c}, {}) /\ Plainly(s, u)
  <2>1. Answers(s, u, {c}, {})
    BY <1>3 DEF Answers, Due
  <2>2. Fate(s, u, {c})
    BY <1>1 DEF Fate, Live, Phase
  <2> QED
    BY <2>1, <2>2 DEF Moves, Plainly
<1> QED
  BY <1>2, <1>4, <1>5, <1>6, <1>7, <1>8 DEF Books

-----------------------------------------------------------------------------
(* Discarding and settling. *)

\* What a discard does to the table's index.
LEMMA DiscardFields ==
  ASSUME NEW s \in TableType, NEW c \in Calls
  PROVE  LET u == Discard(s, c) IN
         /\ u \in TableType /\ SameLanes(s, u) /\ u.out = s.out
         /\ u.requests = s.requests /\ u.unflushed = s.unflushed
         /\ u.tableEntries = IF s.rec[c].inTable THEN Less(s.tableEntries, 1)
                             ELSE s.tableEntries
         /\ SameCalls(s, u) /\ SameQueues(s, u) /\ SameBusy(s, u)
         /\ SameWaits(s, u) /\ u.others = s.others
         /\ u.rec[c] = NoRecord
         /\ \A d \in Calls \ {c} : u.rec[d] = s.rec[d]
<1> DEFINE u == Discard(s, c)
<1>1. /\ u \in TableType
      /\ SameCalls(s, u) /\ SameQueues(s, u) /\ SameBusy(s, u)
      /\ SameWaits(s, u)
      /\ u.rec = [s.rec EXCEPT ![c] = NoRecord]
      /\ u.retained = Without(s.retained, c) /\ u.others = s.others
  BY DiscardEffect
<1>2. /\ SameLanes(s, u) /\ u.out = s.out
      /\ u.requests = s.requests /\ u.unflushed = s.unflushed
      /\ u.tableEntries = IF s.rec[c].inTable THEN Less(s.tableEntries, 1)
                          ELSE s.tableEntries
  BY DEF Discard, TableType, SameLanes
<1> HIDE DEF u
<1>3. s.rec \in [Calls -> RecordType]
  BY DEF TableType
<1>4. u.rec[c] = NoRecord /\ \A d \in Calls \ {c} : u.rec[d] = s.rec[d]
  BY <1>1, <1>3
<1> QED
  BY <1>1, <1>2, <1>4 DEF u

\* A terminal record that was delivered or is released goes.
LEMMA DiscardBooks ==
  ASSUME NEW s \in TableType, NEW c \in Calls, NEW X, Books(s, X),
         Phase(s, c) = "Terminal",
         \/ Delivered(s, c)
         \/ \E r \in s.out : r.what = "released" /\ s.req[r.to].target = c
  PROVE  LET u == Discard(s, c) IN
         /\ u \in TableType /\ Books(u, X) /\ Moves(s, u, X, X) /\ Plainly(s, u)
         /\ s.tableEntries = u.tableEntries + 1 /\ u.out = s.out
<1> DEFINE u == Discard(s, c)
<1>1. /\ u \in TableType /\ SameLanes(s, u) /\ u.out = s.out
      /\ u.requests = s.requests /\ u.unflushed = s.unflushed
      /\ u.tableEntries = IF s.rec[c].inTable THEN Less(s.tableEntries, 1)
                          ELSE s.tableEntries
      /\ SameCalls(s, u) /\ SameQueues(s, u) /\ SameBusy(s, u)
      /\ SameWaits(s, u) /\ u.others = s.others
      /\ u.rec[c] = NoRecord
      /\ \A d \in Calls \ {c} : u.rec[d] = s.rec[d]
  BY DiscardFields
<1> HIDE DEF u
<1>2. /\ u.rec[c].phase = "None" /\ ~u.rec[c].resolved /\ ~u.rec[c].accepted
      /\ ~u.rec[c].inTable /\ u.rec[c].waiters = {} /\ u.rec[c].views = {}
  BY <1>1 DEF NoRecord
<1>3. /\ s.rec[c].phase = "Terminal" /\ s.rec[c].inTable
      /\ IsOperation(s.req[c]) /\ c \notin s.others
      /\ u.req = s.req /\ u.high = s.high
  BY <1>1 DEF Books, KindInv, Phase, IsOperation, SameCalls
<1>4. KindInv(u)
  <2>1. ASSUME NEW d \in Calls PROVE KindInv(u)!1!(d)
    BY <1>1, <1>2, <1>3 DEF Books, KindInv
  <2> QED
    BY <1>1, <1>3, <2>1 DEF Books, KindInv, SameWaits
<1>5. Owed(u) = Owed(s)
  BY <1>1, <1>2, <1>3 DEF Owed, Live, Phase
<1>6. LaneInv(u, X)
  <2>1. Due(u, X) = Due(s, X) /\ X \cap Owed(u) = {}
    BY <1>5 DEF Due, Books, LaneInv
  <2> QED
    BY <1>1, <1>3, <2>1, LaneSame DEF Books
<1>7. EntryInv(u) /\ s.tableEntries = u.tableEntries + 1
  <2>1. /\ InTable(u) = InTable(s) \ {c} /\ {c} \in SUBSET InTable(s)
        /\ InTable(s) \in SUBSET Calls
    BY <1>1, <1>2, <1>3 DEF InTable
  <2>2. s.tableEntries = Cardinality(InTable(s)) /\ s.tableEntries <= TableLimit
    BY DEF Books, EntryInv
  <2>3. Cardinality({c}) = 1
    BY FS_Singleton
  <2>4. /\ Cardinality(InTable(s)) \in Nat /\ Cardinality(InTable(u)) \in Nat
        /\ Cardinality(InTable(u)) = Less(Cardinality(InTable(s)), 1)
        /\ 1 <= Cardinality(InTable(s))
    BY <2>1, <2>3, CountLess
  <2>5. u.tableEntries = Less(s.tableEntries, 1) /\ TableLimit \in Nat
    BY <1>1, <1>3, LimitsAssumption
  <2> QED
    BY <2>2, <2>4, <2>5 DEF EntryInv, Less
<1>8. RunInv(u)
  <2>1. /\ Ops(u) = Ops(s)
        /\ \A w \in Workspaces, k \in Classes : ClassOps(u, w, k) = ClassOps(s, w, k)
    BY <1>1, <1>2, <1>3 DEF Ops, ClassOps, Phase
  <2>2. ASSUME NEW i \in 1 .. Len(s.queue), ~s.closing
        PROVE  Phase(u, s.queue[i]) = "Queued"
    <3>1. s.queue[i] \in Calls /\ Phase(s, s.queue[i]) = "Queued"
      BY <2>2 DEF Books, RunInv, TableType
    <3> QED
      BY <1>1, <1>3, <3>1 DEF Phase
  <2> QED
    BY <1>1, <2>1, <2>2 DEF Books, RunInv, SameCalls, SameBusy, SameQueues
<1>9. IdInv(u)
  <2>1. \A i \in RequestIds : Holding(u, i) = Holding(s, i)
    BY <1>1, <1>2, <1>3 DEF Holding, Phase
  <2> QED
    BY <1>1, <2>1 DEF Books, IdInv
<1>10. Moves(s, u, X, X) /\ Plainly(s, u)
  <2>1. Answers(s, u, X, X)
    BY <1>1, <1>5 DEF Answers, Due
  <2>2. Fate(s, u, X)
    BY <1>1, <1>2, <1>3 DEF Fate, Live, Phase
  <2> QED
    BY <1>1, <1>2, <2>1, <2>2 DEF Moves, Plainly
<1> QED
  BY <1>1, <1>4, <1>6, <1>7, <1>8, <1>9, <1>10 DEF Books, u

\* What a change of the busy counts leaves, and what it counts.
LEMMA ChangeBusyFields ==
  ASSUME NEW s \in TableType, NEW c \in Calls, NEW d \in {1, -1}
  PROVE  LET u == ChangeBusy(s, c, d) IN
         /\ SameLanes(s, u) /\ SameIndex(s, u) /\ u.out = s.out
         /\ u.unflushed = s.unflushed /\ u.complete = s.complete
         /\ u.running = IF d = 1 THEN s.running + 1 ELSE Less(s.running, 1)
<1>1. s.req[c].ws \in Workspaces /\ s.req[c].class \in Classes
  BY AskType
<1> QED
  BY <1>1 DEF ChangeBusy, TableType, SameLanes, SameIndex

\* What a settlement does to the counters, the request IDs and the replies.
LEMMA SettleFields ==
  ASSUME NEW s \in TableType, NEW c \in Calls, NEW outcome \in Outcomes,
         ~Settled(s, c),
         \A w \in s.rec[c].waiters : Asks(s.req[w])
  PROVE  LET u == Settle(s, c, outcome)
             W == s.rec[c].waiters
             o == Less(s.outstanding, Cardinality(OffControl(s, W)))
             k == Less(s.controls, Cardinality(OnControl(s, W)))
         IN
         /\ u.out = IF Keeps(s, c)
              THEN s.out \cup {WaiterReply(s, w, c, outcome) : w \in W}
              ELSE (s.out \cup {WaiterReply(s, w, c, outcome) : w \in W})
                     \cup {Reply(c, outcome)}
         /\ u.outstanding = IF Keeps(s, c) \/ Control(s.req[c]) THEN o
                            ELSE Less(o, 1)
         /\ u.controls = IF ~Keeps(s, c) /\ Control(s.req[c]) THEN Less(k, 1)
                         ELSE k
         /\ u.requests = FreeIds(s, c)
         /\ u.tableEntries = IF ~Keeps(s, c) /\ s.rec[c].inTable
                             THEN Less(s.tableEntries, 1) ELSE s.tableEntries
         /\ u.running = IF Phase(s, c) = "Running" /\ IsOperation(s.req[c])
                        THEN Less(s.running, 1) ELSE s.running
         /\ u.unflushed = s.unflushed
<1> DEFINE r == s.rec[c]
           W == r.waiters
           cancels == {w \in W : Control(s.req[w])}
           told == {WaiterReply(s, w, c, outcome) : w \in W}
           ids == FreeIds(s, c)
           k == Less(s.controls, Cardinality(cancels))
           o == Less(s.outstanding, Cardinality(W \ cancels))
           done == TerminalRecord(r, outcome)
           settled ==
             [s EXCEPT !.rec[c] = done,
                       !.complete = @ \cup {c},
                       !.out = @ \cup told,
                       !.others = @ \ r.waiters,
                       !.controls = k,
                       !.outstanding = o,
                       !.requests = ids]
           freed == IF r.phase = "Running" /\ IsOperation(s.req[c])
                    THEN ChangeBusy(settled, c, -1) ELSE settled
<1>1. r \in RecordType /\ W \subseteq Calls /\ s.rec \in [Calls -> RecordType]
  BY DEF TableType, RecordType
<1>2. done \in RecordType /\ done.inTable = r.inTable
  BY <1>1 DEF TerminalRecord, RecordType, Phases
<1>3. told \subseteq ReplyType
  BY <1>1, WaiterReplyType
<1>4. ids \in [RequestIds -> Calls \cup {NoCall}]
  BY DEF FreeIds, TableType
<1>5. k \in Nat /\ o \in Nat
  <2>1. Cardinality(cancels) \in Nat /\ Cardinality(W \ cancels) \in Nat
    BY <1>1, CountNat
  <2> QED
    BY <2>1, LessNat DEF TableType
<1>6. cancels = OnControl(s, W) /\ W \ cancels = OffControl(s, W)
  BY DEF OnControl, OffControl
<1>7. Settle(s, c, outcome) =
        IF Keeps(s, c) THEN [freed EXCEPT !.retained = Append(@, c)]
        ELSE Discard(Answer(freed, c, outcome), c)
  BY DEF Settle
<1> HIDE DEF k, o, ids, told, done, cancels
<1>8. /\ settled \in TableType /\ settled.req = s.req
      /\ settled.rec = [s.rec EXCEPT ![c] = done]
      /\ settled.out = s.out \cup told /\ settled.outstanding = o
      /\ settled.controls = k /\ settled.requests = ids
      /\ settled.tableEntries = s.tableEntries /\ settled.running = s.running
      /\ settled.unflushed = s.unflushed
  BY <1>1, <1>2, <1>3, <1>4, <1>5 DEF TableType
<1> HIDE DEF settled
<1>9. settled.rec[c].inTable = r.inTable
  BY <1>1, <1>2, <1>8
<1>10. /\ freed \in TableType /\ freed.req = s.req
       /\ freed.rec = settled.rec
       /\ freed.out = s.out \cup told /\ freed.outstanding = o
       /\ freed.controls = k /\ freed.requests = ids
       /\ freed.tableEntries = s.tableEntries
       /\ freed.running = IF Phase(s, c) = "Running" /\ IsOperation(s.req[c])
                          THEN Less(s.running, 1) ELSE s.running
       /\ freed.unflushed = s.unflushed
  <2>1. CASE r.phase = "Running" /\ IsOperation(s.req[c])
    <3>1. freed = ChangeBusy(settled, c, -1)
      BY <2>1
    <3>2. /\ ChangeBusy(settled, c, -1) \in TableType
          /\ SameCalls(settled, ChangeBusy(settled, c, -1))
          /\ ChangeBusy(settled, c, -1).rec = settled.rec
      BY <1>8, ChangeBusyEffect
    <3>3. LET u == ChangeBusy(settled, c, -1) IN
         /\ SameLanes(settled, u) /\ SameIndex(settled, u)
         /\ u.out = settled.out
         /\ u.unflushed = settled.unflushed
         /\ u.running = Less(settled.running, 1)
      BY <1>8, ChangeBusyFields
    <3> HIDE DEF freed
    <3> QED
      BY <1>8, <2>1, <3>1, <3>2, <3>3 DEF SameLanes, SameIndex, SameCalls, Phase
  <2>2. CASE ~(r.phase = "Running" /\ IsOperation(s.req[c]))
    BY <1>8, <2>2 DEF Phase
  <2> QED
    BY <2>1, <2>2
<1> HIDE DEF freed
<1>11. CASE Keeps(s, c)
  <2> DEFINE u == [freed EXCEPT !.retained = Append(@, c)]
  <2>1. /\ u.out = freed.out /\ u.outstanding = freed.outstanding
        /\ u.controls = freed.controls /\ u.requests = freed.requests
        /\ u.tableEntries = freed.tableEntries /\ u.running = freed.running
        /\ u.unflushed = freed.unflushed
    BY <1>10 DEF TableType
  <2> QED
    BY <1>6, <1>7, <1>10, <1>11, <2>1 DEF k, o, ids, told
<1>12. CASE ~Keeps(s, c)
  <2> DEFINE a == Answer(freed, c, outcome)
             u == Discard(a, c)
  <2>1. outcome \in Says
    BY DEF Says
  <2>2. /\ a \in TableType /\ SameIndex(freed, a) /\ a.rec = freed.rec
        /\ SameBusy(freed, a) /\ a.unflushed = freed.unflushed
        /\ a.outstanding = IF Control(freed.req[c]) THEN freed.outstanding
                           ELSE Less(freed.outstanding, 1)
        /\ a.controls = IF Control(freed.req[c]) THEN Less(freed.controls, 1)
                        ELSE freed.controls
        /\ a.out = freed.out \cup {Reply(c, outcome)}
    BY <1>10, <2>1, AnswerReply, AnsweredFields
  <2> HIDE DEF a
  <2>3. /\ SameLanes(a, u) /\ u.out = a.out /\ SameBusy(a, u)
        /\ u.requests = a.requests /\ u.unflushed = a.unflushed
        /\ u.tableEntries = IF a.rec[c].inTable THEN Less(a.tableEntries, 1)
                            ELSE a.tableEntries
    BY <2>2, DiscardFields
  <2>4. Settle(s, c, outcome) = u
    BY <1>7, <1>12 DEF a
  <2> HIDE DEF u
  <2> QED
    BY <1>6, <1>9, <1>10, <1>12, <2>2, <2>3, <2>4
       DEF k, o, ids, told, SameLanes, SameIndex, SameBusy
<1> QED
  BY <1>11, <1>12

\* Giving back one more.
LEMMA LessTwice ==
  ASSUME NEW n \in Nat, NEW m \in Nat PROVE Less(Less(n, m), 1) = Less(n, m + 1)
  BY DEF Less

\* Who a waiter's reply goes to, and what it is not.
LEMMA WaiterReplyTo ==
  ASSUME NEW s, NEW w, NEW c, NEW outcome \in Outcomes, Asks(s.req[w])
  PROVE  /\ WaiterReply(s, w, c, outcome).to = w
         /\ WaiterReply(s, w, c, outcome).what \notin {"accepted", "report"}
         /\ WaiterReply(s, w, c, outcome).owner \in {c, NoCall}
<1>1. CASE Control(s.req[w])
  <2>1. WaiterReply(s, w, c, outcome) = Reply(w, "cleanup")
    BY <1>1 DEF WaiterReply, Control
  <2> QED
    BY <2>1 DEF Reply
<1>2. CASE ~Control(s.req[w]) /\ s.req[w].type = "Result"
  BY <1>2 DEF WaiterReply, ViewReply, Outcomes
<1>3. CASE ~Control(s.req[w]) /\ s.req[w].type = "Response"
  BY <1>3 DEF WaiterReply, ViewReply, Outcomes
<1> QED
  BY <1>1, <1>2, <1>3 DEF Asks

\* A settled call and its waiters are answered, its record is terminal or
\* gone, and its place and its request ID are free.
LEMMA SettleBooks ==
  ASSUME NEW s \in TableType, NEW c \in Calls,
         NEW outcome \in Outcomes \ {"None"}, TableInv(s, c),
         NEW X \in SUBSET Calls, Books(s, X), s.closing \/ ~InSeq(c, s.queue)
  PROVE  LET u == Settle(s, c, outcome) IN
         /\ Books(u, X) /\ Moves(s, u, X, X) /\ Plainly(s, u)
         /\ u.unflushed = s.unflushed
<1> DEFINE u == Settle(s, c, outcome)
<1>1. CASE Settled(s, c)
  <2>1. u = s
    BY <1>1 DEF Settle
  <2> HIDE DEF u
  <2> QED
    BY <2>1, MovesNot DEF u
<1>2. CASE ~Settled(s, c)
  <2> DEFINE W == s.rec[c].waiters
             o == Less(s.outstanding, Cardinality(OffControl(s, W)))
             k == Less(s.controls, Cardinality(OnControl(s, W)))
             told == {WaiterReply(s, w, c, outcome) : w \in W}
  <2>1. \A w \in W : Asks(s.req[w])
    BY DEF TableInv, RecordInv
  <2>2. outcome \in Outcomes
    OBVIOUS
  <2>3. /\ u \in TableType
        /\ SameCalls(s, u) /\ SameQueues(s, u) /\ SameWaits(s, u)
        /\ u.rec = [s.rec EXCEPT ![c] = IF Keeps(s, c)
                      THEN TerminalRecord(s.rec[c], outcome) ELSE NoRecord]
        /\ u.others = IF Keeps(s, c) THEN s.others \ W
                      ELSE (s.others \ W) \ {c}
        /\ Freed(s, u, c)
    BY <1>2, <2>1, <2>2, SettleEffect
  <2>4. /\ u.out = IF Keeps(s, c) THEN s.out \cup told
                   ELSE (s.out \cup told) \cup {Reply(c, outcome)}
        /\ u.outstanding = IF Keeps(s, c) \/ Control(s.req[c]) THEN o
                           ELSE Less(o, 1)
        /\ u.controls = IF ~Keeps(s, c) /\ Control(s.req[c]) THEN Less(k, 1)
                        ELSE k
        /\ u.requests = FreeIds(s, c)
        /\ u.tableEntries = IF ~Keeps(s, c) /\ s.rec[c].inTable
                            THEN Less(s.tableEntries, 1) ELSE s.tableEntries
        /\ u.running = IF Phase(s, c) = "Running" /\ IsOperation(s.req[c])
                       THEN Less(s.running, 1) ELSE s.running
        /\ u.unflushed = s.unflushed
    BY <1>2, <2>1, <2>2, SettleFields
  <2> HIDE DEF u
  <2>5. s.rec \in [Calls -> RecordType] /\ s.rec[c] \in RecordType
        /\ W \subseteq Calls /\ s.queue \in Seq(Calls)
    BY DEF TableType, RecordType
  <2>6. /\ KindInv(s) /\ LaneInv(s, X) /\ EntryInv(s) /\ RunInv(s) /\ IdInv(s)
    BY DEF Books
  <2>7. /\ Phase(s, c) \notin {"None", "Terminal"}
        /\ s.req[c].type \in {"Direct", "Operation"} /\ ~Control(s.req[c])
        /\ c \notin s.others /\ W \subseteq s.others /\ c \notin W
        /\ Keeps(s, c) <=> s.rec[c].accepted
    BY <1>2, <2>5, <2>6 DEF Settled, KindInv, Phase, Control, Keeps
  <2> DEFINE D == IF Keeps(s, c) THEN W ELSE W \cup {c}
  <2>8. /\ D \subseteq Owed(s) /\ D \subseteq Due(s, X) /\ X \cap D = {}
        /\ X \cap Owed(s) = {}
    BY <2>5, <2>6, <2>7 DEF Owed, Live, Due, LaneInv
  <2>9. /\ \A d \in Calls \ {c} : u.rec[d] = s.rec[d]
        /\ Keeps(s, c) =>
             /\ u.rec[c].phase = "Terminal" /\ u.rec[c].waiters = {}
             /\ u.rec[c].accepted = s.rec[c].accepted
             /\ u.rec[c].inTable = s.rec[c].inTable
             /\ u.rec[c].resolved = s.rec[c].resolved
             /\ u.rec[c].views = s.rec[c].views
        /\ ~Keeps(s, c) =>
             /\ u.rec[c].phase = "None" /\ u.rec[c].waiters = {}
             /\ ~u.rec[c].accepted /\ ~u.rec[c].inTable
             /\ ~u.rec[c].resolved /\ u.rec[c].views = {}
    <3>1. /\ \A d \in Calls \ {c} : u.rec[d] = s.rec[d]
          /\ u.rec[c] = IF Keeps(s, c) THEN TerminalRecord(s.rec[c], outcome)
                        ELSE NoRecord
      BY <2>3, <2>5
    <3>2. ASSUME NEW r \in RecordType
          PROVE  LET q == TerminalRecord(r, outcome) IN
                 /\ q.phase = "Terminal" /\ q.waiters = {}
                 /\ q.accepted = r.accepted /\ q.inTable = r.inTable
                 /\ q.resolved = r.resolved /\ q.views = r.views
      BY DEF TerminalRecord, RecordType
    <3>3. /\ NoRecord.phase = "None" /\ NoRecord.waiters = {}
          /\ ~NoRecord.accepted /\ ~NoRecord.inTable
          /\ ~NoRecord.resolved /\ NoRecord.views = {}
      BY DEF NoRecord
    <3> QED
      BY <2>5, <3>1, <3>2, <3>3
  <2>10. u.others = s.others \ W /\ u.req = s.req /\ u.high = s.high
    BY <2>3, <2>7 DEF SameCalls
  <2>11. Owed(u) = Owed(s) \ D
    <3>1. \A d \in Calls \ {c} : Live(u, d) /\ ~u.rec[d].accepted
                                 <=> Live(s, d) /\ ~s.rec[d].accepted
      BY <2>9 DEF Live, Phase
    <3>2. ~Live(u, c)
      BY <2>9 DEF Live, Phase
    <3>3. \A d \in W : ~Live(s, d)
      BY <2>5, <2>6, <2>7 DEF KindInv, Live, Phase
    <3> QED
      BY <2>5, <2>7, <2>10, <3>1, <3>2, <3>3 DEF Owed
  <2>12. KindInv(u)
    <3>1. ASSUME NEW d \in Calls, NEW w \in s.rec[d].waiters, d # c
          PROVE  w \notin W
      BY <2>6, <3>1 DEF KindInv
    <3>2. ASSUME NEW d \in Calls PROVE KindInv(u)!1!(d)
      <4>1. CASE d = c
        BY <2>6, <2>7, <2>9, <2>10, <4>1 DEF KindInv, Phase, Keeps
      <4>2. CASE d # c
        BY <2>6, <2>9, <2>10, <3>1, <4>2 DEF KindInv
      <4> QED
        BY <4>1, <4>2
    <3>3. W \cap s.held = {} /\ W \cap s.closers = {}
      BY <2>1, <2>5, <2>6 DEF KindInv, Asks, Control
    <3> QED
      BY SMTT(30), <2>3, <2>6, <2>10, <3>2, <3>3 DEF KindInv, SameWaits
  <2>13. LaneInv(u, X)
    <3>1. Due(u, X) = Due(s, X) \ D /\ X \cap Owed(u) = {}
      BY <2>8, <2>11 DEF Due
    <3>2. /\ Cardinality(OffControl(s, W)) \in Nat
          /\ Cardinality(OnControl(s, W)) \in Nat
      BY <2>5, CountNat DEF OffControl, OnControl
    <3>3. s.outstanding \in Nat /\ s.controls \in Nat
      BY DEF TableType
    <3>4. /\ u.outstanding = Less(s.outstanding, Cardinality(OffControl(s, D)))
          /\ u.controls = Less(s.controls, Cardinality(OnControl(s, D)))
      <4>1. CASE Keeps(s, c)
        BY <2>4, <2>7, <4>1
      <4>2. CASE ~Keeps(s, c)
        <5>1. /\ OffControl(s, D) = OffControl(s, W) \cup {c}
              /\ OnControl(s, D) = OnControl(s, W) /\ c \notin OffControl(s, W)
              /\ OffControl(s, W) \in SUBSET Calls
          BY <2>5, <2>7, <4>2 DEF OffControl, OnControl
        <5>2. Cardinality(OffControl(s, D)) = Cardinality(OffControl(s, W)) + 1
          BY <5>1, CountMore
        <5>3. Less(o, 1) = Less(s.outstanding, Cardinality(OffControl(s, W)) + 1)
          BY <3>2, <3>3, LessTwice
        <5> QED
          BY <2>4, <2>7, <4>2, <5>1, <5>2, <5>3
      <4> QED
        BY <4>1, <4>2
    <3> HIDE DEF D
    <3> QED
      BY <2>6, <2>8, <2>10, <3>1, <3>4, LaneLess
  <2>14. EntryInv(u)
    <3>1. CASE Keeps(s, c) \/ ~s.rec[c].inTable
      <4>1. InTable(u) = InTable(s)
        BY <2>5, <2>7, <2>9, <3>1 DEF InTable, RecordType
      <4> QED
        BY <2>4, <2>6, <3>1, <4>1 DEF EntryInv
    <3>2. CASE ~Keeps(s, c) /\ s.rec[c].inTable
      <4>1. /\ InTable(u) = InTable(s) \ {c} /\ {c} \in SUBSET InTable(s)
            /\ InTable(s) \in SUBSET Calls
        BY <2>9, <3>2 DEF InTable
      <4>2. s.tableEntries = Cardinality(InTable(s)) /\ s.tableEntries <= TableLimit
        BY <2>6 DEF EntryInv
      <4>3. Cardinality({c}) = 1
        BY FS_Singleton
      <4>4. /\ Cardinality(InTable(s)) \in Nat /\ Cardinality(InTable(u)) \in Nat
            /\ Cardinality(InTable(u)) = Less(Cardinality(InTable(s)), 1)
            /\ 1 <= Cardinality(InTable(s))
        BY <4>1, <4>3, CountLess
      <4>5. u.tableEntries = Less(s.tableEntries, 1) /\ TableLimit \in Nat
        BY <2>4, <3>2, LimitsAssumption
      <4> QED
        BY <4>2, <4>4, <4>5 DEF EntryInv, Less
    <3> QED
      BY <3>1, <3>2
  <2>15. RunInv(u)
    <3>1. Ops(u) = Ops(s) \ {c} /\ Ops(s) \in SUBSET Calls
      BY <2>9, <2>10 DEF Ops, Phase
    <3>2. \A w \in Workspaces, l \in Classes :
            /\ ClassOps(u, w, l) = ClassOps(s, w, l) \ {c}
            /\ ClassOps(s, w, l) \in SUBSET Calls
      BY <2>9, <2>10 DEF ClassOps, Phase
    <3>3. ASSUME NEW i \in 1 .. Len(u.queue), ~u.closing
          PROVE  Phase(u, u.queue[i]) = "Queued"
      <4>1. u.queue = s.queue /\ ~s.closing
        BY <2>3, <3>3 DEF SameQueues, SameCalls
      <4>2. s.queue[i] \in Calls /\ s.queue[i] # c
            /\ Phase(s, s.queue[i]) = "Queued"
        BY <2>5, <2>6, <4>1 DEF InSeq, RunInv
      <4> QED
        BY <2>9, <4>1, <4>2 DEF Phase
    <3>4. u.running >= Cardinality(Ops(u)) /\ u.running <= RunningLimit
          /\ (~u.closing => u.running = Cardinality(Ops(u)))
      <4>0. /\ s.running \in Nat /\ RunningLimit \in Nat /\ u.closing = s.closing
        BY <2>3, LimitsAssumption DEF TableType, SameCalls
      <4>1. CASE Phase(s, c) = "Running" /\ IsOperation(s.req[c])
        <5>1. {c} \in SUBSET Ops(s)
          BY <4>1 DEF Ops
        <5>2. Cardinality({c}) = 1
          BY FS_Singleton
        <5>3. /\ Cardinality(Ops(s)) \in Nat /\ Cardinality(Ops(u)) \in Nat
              /\ Cardinality(Ops(u)) = Less(Cardinality(Ops(s)), 1)
              /\ 1 <= Cardinality(Ops(s))
          BY <3>1, <5>1, <5>2, CountLess
        <5>4. u.running = Less(s.running, 1)
          BY <2>4, <4>1
        <5> QED
          BY <2>6, <4>0, <5>3, <5>4 DEF RunInv, Less
      <4>2. CASE ~(Phase(s, c) = "Running" /\ IsOperation(s.req[c]))
        <5>1. Ops(u) = Ops(s)
          BY <3>1, <4>2 DEF Ops
        <5> QED
          BY <2>4, <2>6, <4>0, <4>2, <5>1 DEF RunInv
      <4> QED
        BY <4>1, <4>2
    <3>5. ASSUME NEW w \in Workspaces, NEW l \in Classes, ~u.closing
          PROVE  u.busy[w][l] = Cardinality(ClassOps(u, w, l))
      <4>0. ~s.closing
        BY <2>3, <3>5 DEF SameCalls
      <4>1. s.busy[w][l] = Cardinality(ClassOps(s, w, l))
        BY <2>6, <4>0 DEF RunInv
      <4>2. CASE c \in ClassOps(s, w, l)
        <5>1. /\ Phase(s, c) = "Running" /\ IsOperation(s.req[c])
              /\ s.req[c].ws = w /\ s.req[c].class = l
          BY <4>2 DEF ClassOps
        <5>2. u.busy[w][l] = Less(s.busy[w][l], 1)
          BY <2>3, <5>1 DEF Freed
        <5>3. {c} \in SUBSET ClassOps(s, w, l) /\ Cardinality({c}) = 1
          BY <4>2, FS_Singleton
        <5>4. Cardinality(ClassOps(u, w, l)) = Less(Cardinality(ClassOps(s, w, l)), 1)
          BY <3>2, <5>3, CountLess
        <5> QED
          BY <4>1, <5>2, <5>4
      <4>3. CASE c \notin ClassOps(s, w, l)
        <5>1. ClassOps(u, w, l) = ClassOps(s, w, l)
          BY <3>2, <4>3
        <5>2. u.busy[w][l] = s.busy[w][l]
          <6>1. CASE Phase(s, c) = "Running" /\ IsOperation(s.req[c])
            <7>1. <<w, l>> # <<s.req[c].ws, s.req[c].class>>
              BY <4>3, <6>1 DEF ClassOps
            <7> QED
              BY <2>3, <6>1, <7>1 DEF Freed
          <6>2. CASE ~(Phase(s, c) = "Running" /\ IsOperation(s.req[c]))
            BY <2>3, <6>2 DEF Freed
          <6> QED
            BY <6>1, <6>2
        <5> QED
          BY <4>1, <5>1, <5>2
      <4> QED
        BY <4>2, <4>3
    <3>6. Len(u.queue) <= QueueLimit
      BY <2>3, <2>6 DEF SameQueues, RunInv
    <3> QED
      BY <3>3, <3>4, <3>5, <3>6 DEF RunInv
  <2>16. IdInv(u)
    <3> SUFFICES ASSUME NEW i \in RequestIds
                 PROVE  Holding(u, i) = IF u.requests[i] = NoCall THEN {}
                                        ELSE {u.requests[i]}
      BY DEF IdInv
    <3>1. Holding(u, i) = Holding(s, i) \ {c}
      BY <2>9, <2>10 DEF Holding, Phase
    <3>2. Holding(s, i) = IF s.requests[i] = NoCall THEN {} ELSE {s.requests[i]}
      BY <2>6 DEF IdInv
    <3>3. u.requests[i] = IF s.rec[c].resolved /\ i = s.req[c].rid
                             /\ s.requests[i] = c
                          THEN NoCall ELSE s.requests[i]
      BY <2>4 DEF FreeIds
    <3>4. c # NoCall
      BY CallsNat DEF NoCall
    <3>5. CASE c \in Holding(s, i)
      <4>1. s.requests[i] = c
        BY <3>2, <3>5
      <4>2. s.rec[c].resolved /\ i = s.req[c].rid
        BY <2>6, <3>5 DEF Holding, Phase, KindInv, TableInv, RecordInv
      <4> QED
        BY <3>1, <3>2, <3>3, <3>4, <4>1, <4>2
    <3>6. CASE c \notin Holding(s, i)
      <4>1. s.requests[i] # c
        BY <3>2, <3>4, <3>6
      <4> QED
        BY <3>1, <3>2, <3>3, <3>6, <4>1
    <3> QED
      BY <3>5, <3>6
  <2>17. \A r \in u.out \ s.out :
           /\ r.to \in D /\ r.what \notin {"accepted", "report"}
           /\ \/ r = WaiterReply(s, r.to, c, outcome) /\ r.to \in W
              \/ r = Reply(c, outcome) /\ r.to = c
    <3>1. \A w \in W : /\ WaiterReply(s, w, c, outcome).to = w
                       /\ WaiterReply(s, w, c, outcome).what \notin {"accepted", "report"}
      BY <2>1, <2>2, WaiterReplyTo
    <3>2. Reply(c, outcome).to = c
          /\ Reply(c, outcome).what \notin {"accepted", "report"}
      BY <2>2 DEF Reply, Outcomes
    <3> QED
      BY <2>4, <3>1, <3>2
  <2>18. \A d \in D : \E r \in u.out : r.to = d
    <3>1. \A w \in W : WaiterReply(s, w, c, outcome).to = w
      BY <2>1, <2>2, WaiterReplyTo
    <3>2. Reply(c, outcome).to = c
      BY DEF Reply
    <3>3. \A w \in W : WaiterReply(s, w, c, outcome) \in u.out
      BY <2>4
    <3> QED
      BY <2>4, <3>1, <3>2, <3>3
  <2>19. Answers(s, u, X, X)
    <3>0. Due(u, X) = Due(s, X) \ D
      BY <2>8, <2>11 DEF Due
    <3>1. s.out \subseteq u.out
      BY <2>4
    <3>2. \A r, m \in u.out \ s.out : r.to = m.to => r = m
      BY <2>7, <2>17
    <3> HIDE DEF D
    <3> QED
      BY <2>8, <2>17, <2>18, <3>0, <3>1, <3>2 DEF Answers
  <2>20. Fate(s, u, X)
    <3>1. ASSUME NEW r \in u.out \ s.out, r.owner \in Calls
          PROVE  r.owner <= u.high /\ ~Live(u, r.owner)
      <4>1. r.owner = c
        <5>1. CASE r = Reply(c, outcome)
          BY <3>1, <5>1, CallsNat DEF Reply, NoCall
        <5>2. CASE r = WaiterReply(s, r.to, c, outcome) /\ r.to \in W
          <6>1. r.owner \in {c, NoCall}
            BY <2>1, <2>2, <5>2, WaiterReplyTo
          <6> QED
            BY <3>1, <6>1, CallsNat DEF NoCall
        <5> QED
          BY <2>17, <5>1, <5>2
      <4>2. c <= s.high
        BY <2>7 DEF TableInv, RecordInv, Phase
      <4> QED
        BY <2>9, <2>10, <4>1, <4>2 DEF Live, Phase
    <3> QED
      BY <2>7, <2>9, <2>10, <3>1 DEF Fate, Live, Phase
  <2>21. Plainly(s, u)
    BY <2>9, <2>17 DEF Plainly
  <2> QED
    BY <2>4, <2>12, <2>13, <2>14, <2>15, <2>16, <2>19, <2>20, <2>21
       DEF Books, Moves, u
<1> QED
  BY <1>1, <1>2

-----------------------------------------------------------------------------
(* What the reading thread's calls do. *)

\* A line without one of its calls is no longer.
LEMMA WithoutShorter ==
  ASSUME NEW q \in Seq(Calls), NEW c \in Calls
  PROVE  Len(Without(q, c)) <= Len(q)
<1>1. CASE \E i \in 1 .. Len(q) : q[i] = c
  <2> DEFINE i == CHOOSE i \in 1 .. Len(q) : q[i] = c
  <2>1. i \in 1 .. Len(q) /\ Without(q, c) = Drop(q, i)
    BY <1>1 DEF Without
  <2> HIDE DEF i
  <2>2. Len(q) \in Nat
    OBVIOUS
  <2> QED
    BY <2>1, <2>2, DropType
<1>2. CASE ~\E i \in 1 .. Len(q) : q[i] = c
  BY <1>2 DEF Without
<1> QED
  BY <1>1, <1>2

\* A call joins the waiters of another.
LEMMA JoinBooks ==
  ASSUME NEW s \in TableType, NEW u \in TableType, NEW c \in Calls,
         NEW o \in Calls, Books(s, {c}), c <= s.high,
         Asks(s.req[c]), s.req[c].type # "Close", s.req[c].target = o,
         SameCalls(s, u), SameQueues(s, u), SameBusy(s, u), SameWaits(s, u),
         SameLanes(s, u), SameIndex(s, u), u.out = s.out,
         u.others = s.others \cup {c},
         u.rec = [s.rec EXCEPT ![o].waiters = @ \cup {c}]
  PROVE  Books(u, {}) /\ Moves(s, u, {c}, {}) /\ Plainly(s, u)
<1>1. s.rec \in [Calls -> RecordType] /\ s.rec[o] \in RecordType
      /\ s.queue \in Seq(Calls)
  BY DEF TableType
<1>2. /\ \A d \in Calls \ {o} : u.rec[d] = s.rec[d]
      /\ u.rec[o] = [s.rec[o] EXCEPT !.waiters = @ \cup {c}]
  BY <1>1
<1>3. /\ u.rec[o].phase = s.rec[o].phase
      /\ u.rec[o].accepted = s.rec[o].accepted
      /\ u.rec[o].inTable = s.rec[o].inTable
      /\ u.rec[o].resolved = s.rec[o].resolved
      /\ u.rec[o].views = s.rec[o].views
      /\ u.rec[o].waiters = s.rec[o].waiters \cup {c}
  BY <1>1, <1>2 DEF RecordType
<1>4. SameTable(s, u) /\ Shorter(u.queue, s.queue)
  BY <1>1, ShorterSame DEF SameTable, SameCalls, SameBusy, SameQueues
<1>5. s.req[c].type \notin {"Direct", "Operation"}
  BY DEF Asks, Control
<1>6. /\ \/ u.held = s.held
         \/ u.held = s.held \cup {c} /\ s.req[c].type = "Read"
      /\ \/ u.closers = s.closers
         \/ u.closers = s.closers \cup {c} /\ s.req[c].type = "Close"
  BY DEF SameWaits
<1>7. WaitsOn(s, u, c)
  BY <1>2, <1>3 DEF WaitsOn
<1>8. Joins(s, u, c)
  BY <1>4, <1>5, <1>6, <1>7 DEF Joins
<1> QED
  BY <1>8, WaitBooks

\* An events read is answered or held.
LEMMA ReadEventsBooks ==
  ASSUME NEW s \in TableType, TableInv(s, NoCall), NEW c \in Calls,
         Books(s, {c}), c <= s.high, s.req[c].type \in {"Read", "EndStream"}
  PROVE  LET u == ReadEvents(s, c) IN
         /\ Books(u, {}) /\ Moves(s, u, {c}, {}) /\ Plainly(s, u)
         /\ u.unflushed = s.unflushed
<1> DEFINE u == ReadEvents(s, c)
           h == [s EXCEPT !.others = @ \cup {c}, !.held = @ \cup {c}]
<1>1. "refused" \in Says /\ "events" \in Says
  BY DEF Says
<1>2. \/ u \in {Answer(s, c, "refused"), Answer(s, c, "events")}
      \/ u = h /\ s.req[c].type = "Read"
  BY DEF ReadEvents
<1>3. u \in TableType
  BY ReadEventsKeeps
<1>4. ASSUME NEW what \in {"refused", "events"}, u = Answer(s, c, what)
      PROVE  /\ Books(u, {}) /\ Moves(s, u, {c}, {}) /\ Plainly(s, u)
             /\ u.unflushed = s.unflushed
  <2> HIDE DEF u
  <2>1. what \in Says
    BY <1>1
  <2> QED
    BY <1>4, <2>1, AnswerReply, AnsweredBooks
<1>5. ASSUME u = h, s.req[c].type = "Read"
      PROVE  /\ Books(u, {}) /\ Moves(s, u, {c}, {}) /\ Plainly(s, u)
             /\ u.unflushed = s.unflushed
  <2>1. /\ h.others = s.others \cup {c} /\ h.held = s.held \cup {c}
        /\ h.closers = s.closers /\ SameCalls(s, h) /\ SameQueues(s, h)
        /\ SameBusy(s, h) /\ SameLanes(s, h) /\ SameIndex(s, h)
        /\ h.out = s.out /\ h.rec = s.rec /\ h.unflushed = s.unflushed
    BY DEF TableType, SameCalls, SameQueues, SameBusy, SameLanes, SameIndex
  <2> HIDE DEF h, u
  <2>2. SameTable(s, u) /\ Shorter(u.queue, s.queue) /\ SameLanes(s, u)
    BY <1>5, <2>1, ShorterSame DEF SameTable, SameCalls, SameBusy, SameQueues,
       TableType, SameLanes, SameIndex
  <2> QED
    BY <1>3, <1>5, <2>1, <2>2, WaitBooks DEF WaitsOn, Joins
<1> QED
  BY <1>2, <1>4, <1>5

\* A view is told, refused, or waits for its operation.
LEMMA ViewBooks ==
  ASSUME NEW s \in TableType, TableInv(s, NoCall), NEW c \in Calls,
         Books(s, {c}), c <= s.high, s.req[c].type \in {"Result", "Response"}
  PROVE  LET u == View(s, c) IN
         /\ Books(u, {}) /\ Moves(s, u, {c}, {}) /\ Plainly(s, u)
         /\ u.unflushed = s.unflushed
<1> DEFINE u == View(s, c)
           q == s.req[c]
           o == q.target
           v == ViewReply(c, o, q.type, s.rec[o].outcome)
           j == [s EXCEPT !.rec[o].waiters = @ \cup {c}, !.others = @ \cup {c}]
<1>0. u \in TableType
  BY ViewKeeps
<1>1. CASE ~Known(s, o)
  <2>1. u = Answer(s, c, "refused") /\ "refused" \in Says
    BY <1>1 DEF View, Says
  <2> HIDE DEF u
  <2> QED
    BY <2>1, AnswerReply, AnsweredBooks DEF u
<1>2. CASE Known(s, o) /\ s.rec[o].outcome # "None"
  <2>1. u = Answered(s, c, v)
    BY <1>2 DEF View, Answered
  <2>2. o \in Calls /\ s.rec[o].outcome \in Outcomes
    BY <1>2 DEF Known, TableType, RecordType
  <2>3. v \in ReplyType /\ v.to = c /\ v.what = s.rec[o].outcome /\ v.owner = o
    BY <2>2 DEF ViewReply, ReplyType, Views, Says
  <2>4. v.what \notin {"accepted", "report"}
    BY <2>2, <2>3 DEF Outcomes
  <2>5. o <= s.high /\ ~Live(s, o)
    BY <1>2, <2>2 DEF TableInv, RecordInv, Live, Phase
  <2> HIDE DEF u, v, o
  <2> QED
    BY <2>1, <2>3, <2>4, <2>5, AnsweredBooks DEF u
<1>3. CASE Known(s, o) /\ s.rec[o].outcome = "None"
  <2>1. u = j
    BY <1>3 DEF View
  <2>2. o \in Calls /\ s.rec \in [Calls -> RecordType]
    BY <1>3 DEF Known, TableType
  <2> HIDE DEF o, u
  <2>3. /\ SameCalls(s, j) /\ SameQueues(s, j) /\ SameBusy(s, j)
        /\ SameWaits(s, j) /\ SameLanes(s, j) /\ SameIndex(s, j)
        /\ j.out = s.out /\ j.unflushed = s.unflushed
        /\ j.others = s.others \cup {c}
        /\ j.rec = [s.rec EXCEPT ![o].waiters = @ \cup {c}]
    BY <2>2 DEF TableType, SameCalls, SameQueues, SameBusy, SameWaits,
       SameLanes, SameIndex
  <2>4. Asks(q) /\ q.type # "Close"
    BY DEF Asks
  <2> HIDE DEF j
  <2> QED
    BY <1>0, <2>1, <2>2, <2>3, <2>4, JoinBooks DEF u, o
<1> QED
  BY <1>1, <1>2, <1>3

\* A release is refused, or the terminal record goes.
LEMMA ReleaseBooks ==
  ASSUME NEW s \in TableType, TableInv(s, NoCall), NEW c \in Calls,
         Books(s, {c})
  PROVE  LET u == Release(s, c) IN
         /\ Books(u, {}) /\ Moves(s, u, {c}, {}) /\ Plainly(s, u)
         /\ u.unflushed = s.unflushed
<1> DEFINE u == Release(s, c)
           o == s.req[c].target
           a == Answer(s, c, "released")
<1>0. "released" \in Says /\ "refused" \in Says
  BY DEF Says
<1>1. CASE ~Known(s, o) \/ Live(s, o)
  <2>1. u = Answer(s, c, "refused")
    BY <1>1 DEF Release
  <2> HIDE DEF u
  <2> QED
    BY <1>0, <2>1, AnswerReply, AnsweredBooks DEF u
<1>2. CASE Known(s, o) /\ ~Live(s, o)
  <2>1. u = Discard(a, o) /\ o \in Calls /\ Phase(s, o) = "Terminal"
    BY <1>2 DEF Release, Known, Live
  <2>2. /\ a \in TableType /\ Books(a, {}) /\ Moves(s, a, {c}, {})
        /\ Plainly(s, a) /\ a.rec = s.rec
        /\ a.out = s.out \cup {Reply(c, "released")}
        /\ SameCalls(s, a) /\ a.unflushed = s.unflushed
        /\ Reply(c, "released").to = c /\ Reply(c, "released").what = "released"
    BY <1>0, AnswerReply, AnsweredBooks
  <2> HIDE DEF a, u
  <2>3. \E r \in a.out : r.what = "released" /\ a.req[r.to].target = o
    BY <2>2 DEF SameCalls
  <2>4. Phase(a, o) = "Terminal"
    BY <2>1, <2>2 DEF Phase
  <2> HIDE DEF o
  <2>5. Books(u, {}) /\ Moves(a, u, {}, {}) /\ Plainly(a, u)
    BY <2>1, <2>2, <2>3, <2>4, DiscardBooks
  <2>6. u.unflushed = a.unflushed
    BY <2>1, <2>2, DiscardFields
  <2>7. Moves(s, u, {c}, {}) /\ Plainly(s, u)
    BY <2>2, <2>5, MovesThen
  <2> QED
    BY <2>2, <2>5, <2>6, <2>7 DEF u
<1> QED
  BY <1>1, <1>2

\* A cancellation is refused, told that nothing is left to cancel, or waits;
\* what it cancels before it runs is settled.
LEMMA CancelBooks ==
  ASSUME NEW s \in TableType, TableInv(s, NoCall), NEW c \in Calls,
         Books(s, {c}), c <= s.high, s.req[c].type \in {"Cancel", "CancelOp"}
  PROVE  LET u == Cancel(s, c) IN
         /\ Books(u, {}) /\ Moves(s, u, {c}, {}) /\ Plainly(s, u)
         /\ u.unflushed = s.unflushed
<1> DEFINE u == Cancel(s, c)
           o == s.req[c].target
           j == [s EXCEPT !.rec[o].waiters = @ \cup {c},
                          !.others = @ \cup {c},
                          !.cancelled = @ \cup {o}]
           l == [j EXCEPT !.queue = Without(@, o),
                          !.directQueue = Without(@, o)]
<1>0. "refused" \in Says /\ "cleanup" \in Says
  BY DEF Says
<1>1. CASE ~CancelFinds(s, c)
  <2>1. u = Answer(s, c, "refused")
    BY <1>1 DEF Cancel
  <2> HIDE DEF u
  <2> QED
    BY <1>0, <2>1, AnswerReply, AnsweredBooks DEF u
<1>2. CASE CancelFinds(s, c) /\ Phase(s, o) = "Terminal"
  <2>1. u = Answer(s, c, "cleanup")
    BY <1>2 DEF Cancel
  <2> HIDE DEF u
  <2> QED
    BY <1>0, <2>1, AnswerReply, AnsweredBooks DEF u
<1>3. CASE CancelFinds(s, c) /\ Phase(s, o) # "Terminal"
  <2>1. o \in Calls /\ Phase(s, o) \notin {"None", "Terminal"}
    BY <1>3 DEF CancelFinds, Known
  <2>2. [s.rec EXCEPT ![o].waiters = @ \cup {c}] \in [Calls -> RecordType]
    <3>1. s.rec \in [Calls -> RecordType] /\ s.rec[o] \in RecordType
      BY <2>1 DEF TableType
    <3>2. [s.rec[o] EXCEPT !.waiters = @ \cup {c}] \in RecordType
      BY <3>1 DEF RecordType
    <3> QED
      BY <2>1, <3>1, <3>2
  <2>3. u = IF Waiting(s, o) THEN Settle(l, o, "Cancelled") ELSE j
    BY <1>3 DEF Cancel
  <2>4. Asks(s.req[c]) /\ s.req[c].type # "Close"
    BY DEF Asks, Control
  <2> HIDE DEF u, o
  <2>5. /\ j \in TableType
        /\ SameCalls(s, j) /\ SameQueues(s, j) /\ SameBusy(s, j)
        /\ SameWaits(s, j) /\ SameLanes(s, j) /\ SameIndex(s, j)
        /\ j.rec = [s.rec EXCEPT ![o].waiters = @ \cup {c}]
        /\ j.retained = s.retained /\ j.others = s.others \cup {c}
        /\ j.out = s.out /\ j.unflushed = s.unflushed
    BY <2>1, <2>2 DEF TableType, SameCalls, SameQueues, SameBusy, SameWaits,
       SameLanes, SameIndex
  <2> HIDE DEF j
  <2>6. TableInv(j, NoCall)
    BY <2>1, <2>4, <2>5, JoinKeeps
  <2>7. Books(j, {}) /\ Moves(s, j, {c}, {}) /\ Plainly(s, j)
    BY <2>1, <2>4, <2>5, JoinBooks DEF o
  <2>8. CASE ~Waiting(s, o)
    BY <2>3, <2>5, <2>7, <2>8 DEF u
  <2>9. CASE Waiting(s, o)
    <3>1. /\ l \in TableType /\ TableInv(l, o)
          /\ SameCalls(j, l) /\ SameBusy(j, l) /\ SameWaits(j, l)
          /\ l.rec = j.rec /\ l.pending = j.pending
      BY <2>1, <2>5, <2>6, LeaveKeeps
    <3>2. /\ l.queue = Without(j.queue, o) /\ l.others = j.others
          /\ SameLanes(j, l) /\ SameIndex(j, l) /\ l.out = j.out
          /\ l.unflushed = j.unflushed
      BY <2>5 DEF TableType, SameLanes, SameIndex
    <3> HIDE DEF l
    <3>3. j.queue \in Seq(Calls) /\ l.queue \in Seq(Calls)
      BY <2>5, <3>1 DEF TableType
    <3>4. \A i, k \in 1 .. Len(j.queue) : i < k => j.queue[i] # j.queue[k]
      <4>1. \A i, k \in 1 .. Len(j.queue) : i < k => j.queue[i] < j.queue[k]
        BY <2>6 DEF TableInv, LinesInv
      <4>2. \A i \in 1 .. Len(j.queue) : j.queue[i] \in Nat
        BY <3>3, CallsNat
      <4> QED
        BY <4>1, <4>2
    <3>5. Shorter(l.queue, j.queue) /\ ~InSeq(o, l.queue)
      <4>1. ~InSeq(o, l.queue) /\ \A i \in 1 .. Len(l.queue) : InSeq(l.queue[i], j.queue)
        BY ZenonT(60), <2>1, <3>2, <3>3, <3>4, WithoutFacts
      <4>2. Len(l.queue) <= Len(j.queue)
        BY <2>1, <3>2, <3>3, WithoutShorter
      <4> QED
        BY <3>3, <4>1, <4>2 DEF Shorter
    <3>6. SameFacts(j, l) /\ SameTable(j, l)
      BY <3>1, <3>2 DEF SameFacts, SameTable, SameCalls, SameBusy
    <3>7. Books(l, {})
      BY <2>5, <2>7, <3>1, <3>2, <3>5, <3>6, QuietBooks
    <3>8. Moves(j, l, {}, {}) /\ Plainly(j, l)
      <4>1. Owed(l) = Owed(j)
        BY <3>2, <3>6, OwedSame
      <4> QED
        BY <3>1, <3>2, <4>1 DEF Moves, Answers, Fate, Plainly, Due, SameCalls,
           Live, Phase
    <3>9. "Cancelled" \in Outcomes \ {"None"} /\ {} \in SUBSET Calls
      BY DEF Outcomes
    <3>10. u = Settle(l, o, "Cancelled")
      BY <2>3, <2>9
    <3>11. /\ Books(u, {}) /\ Moves(l, u, {}, {}) /\ Plainly(l, u)
           /\ u.unflushed = l.unflushed
      BY <2>1, <3>1, <3>5, <3>7, <3>9, <3>10, SettleBooks
    <3>12. Moves(s, l, {c}, {}) /\ Plainly(s, l)
      BY <2>7, <3>8, MovesThen
    <3>13. Moves(s, u, {c}, {}) /\ Plainly(s, u)
      BY <3>11, <3>12, MovesThen
    <3> QED
      BY <2>5, <3>2, <3>11, <3>13 DEF u
  <2> QED
    BY <2>8, <2>9
<1> QED
  BY <1>1, <1>2, <1>3

-----------------------------------------------------------------------------
(* Admitting and taking direct calls. *)

\* A direct call goes on, to the line of the direct calls or from it.
Shifts(s, u, c) ==
  /\ s.rec[c].phase \in {"Received", "DirectWaiting"}
  /\ u.rec[c].phase \in {"DirectWaiting", "Running"} /\ u.rec[c].resolved
  /\ u.rec[c].accepted = s.rec[c].accepted
  /\ u.rec[c].inTable = s.rec[c].inTable
  /\ u.rec[c].waiters = s.rec[c].waiters
  /\ u.rec[c].views = s.rec[c].views
  /\ \A d \in Calls \ {c} : u.rec[d] = s.rec[d]
  /\ u.others = s.others /\ u.out = s.out /\ u.queue = s.queue
  /\ SameTable(s, u) /\ SameWaits(s, u) /\ SameLanes(s, u)

\* The books do not see which of the live phases a direct call is in.
LEMMA ShiftBooks ==
  ASSUME NEW s \in TableType, NEW u \in TableType, NEW c \in Calls, NEW X,
         Books(s, X), ~IsOperation(s.req[c]), Shifts(s, u, c)
  PROVE  Books(u, X) /\ Moves(s, u, X, X) /\ Plainly(s, u)
<1> USE DEF Shifts
<1>1. u.high = s.high /\ u.req = s.req /\ s.queue \in Seq(Calls)
  BY DEF SameTable, TableType
<1>2. KindInv(u)
  <2>1. ASSUME NEW d \in Calls PROVE KindInv(u)!1!(d)
    BY <1>1 DEF Books, KindInv
  <2> QED
    BY <1>1, <2>1 DEF Books, KindInv, SameWaits
<1>3. Owed(u) = Owed(s)
  BY DEF Owed, Live, Phase
<1>4. LaneInv(u, X)
  <2>1. Due(u, X) = Due(s, X) /\ X \cap Owed(u) = {}
    BY <1>3 DEF Due, Books, LaneInv
  <2> QED
    BY <1>1, <2>1, LaneSame DEF Books
<1>5. EntryInv(u)
  <2>1. InTable(u) = InTable(s)
    BY DEF InTable
  <2> QED
    BY <2>1 DEF Books, EntryInv, SameTable, SameIndex
<1>6. RunInv(u)
  <2>1. /\ Ops(u) = Ops(s)
        /\ \A w \in Workspaces, k \in Classes : ClassOps(u, w, k) = ClassOps(s, w, k)
    BY <1>1 DEF Ops, ClassOps, Phase
  <2>2. ASSUME NEW i \in 1 .. Len(s.queue), ~s.closing
        PROVE  Phase(u, s.queue[i]) = "Queued"
    <3>1. s.queue[i] \in Calls /\ Phase(s, s.queue[i]) = "Queued"
      BY <1>1, <2>2 DEF Books, RunInv
    <3> QED
      BY <3>1 DEF Phase
  <2>3. u.closing \in BOOLEAN /\ s.closing \in BOOLEAN
    BY DEF TableType
  <2> QED
    BY <2>1, <2>2, <2>3 DEF Books, RunInv, SameTable
<1>7. IdInv(u)
  <2>1. \A i \in RequestIds : Holding(u, i) = Holding(s, i)
    BY <1>1 DEF Holding, Phase
  <2> QED
    BY <2>1 DEF Books, IdInv, SameTable, SameIndex
<1>8. Moves(s, u, X, X) /\ Plainly(s, u)
  <2>1. Answers(s, u, X, X)
    BY <1>3 DEF Answers, Due
  <2>2. Fate(s, u, X)
    BY <1>1 DEF Fate, Live, Phase
  <2> QED
    BY <2>1, <2>2 DEF Moves, Plainly
<1> QED
  BY <1>2, <1>4, <1>5, <1>6, <1>7, <1>8 DEF Books

\* A direct call is admitted.
LEMMA AdmitDirectBooks ==
  ASSUME NEW s \in TableType, TableInv(s, NoCall), NEW c \in Calls,
         Phase(s, c) = "Received", ~IsOperation(s.req[c]), NEW X, Books(s, X)
  PROVE  LET u == AdmitDirect(s, c) IN
         /\ Books(u, X) /\ Moves(s, u, X, X) /\ Plainly(s, u)
         /\ u.unflushed = s.unflushed
<1> DEFINE u == AdmitDirect(s, c)
           r == [s.rec[c] EXCEPT !.resolved = TRUE, !.phase = "DirectWaiting"]
<1>1. /\ u \in TableType
      /\ SameCalls(s, u) /\ SameBusy(s, u) /\ SameWaits(s, u)
      /\ u.queue = s.queue /\ \A d \in Calls \ {c} : u.rec[d] = s.rec[d]
  BY AdmitDirectKeeps
<1>2. s.rec \in [Calls -> RecordType] /\ s.rec[c] \in RecordType
  BY DEF TableType
<1>3. /\ r.phase = "DirectWaiting" /\ r.resolved
      /\ r.accepted = s.rec[c].accepted /\ r.inTable = s.rec[c].inTable
      /\ r.waiters = s.rec[c].waiters /\ r.views = s.rec[c].views
  BY <1>2 DEF RecordType
<1>4. /\ u.rec[c] = r /\ u.others = s.others /\ u.out = s.out
      /\ SameIndex(s, u) /\ SameLanes(s, u) /\ u.unflushed = s.unflushed
  BY <1>2 DEF AdmitDirect, TableType, SameIndex, SameLanes
<1> HIDE DEF u, r
<1>5. Shifts(s, u, c)
  BY <1>1, <1>3, <1>4 DEF Shifts, SameTable, SameCalls, SameBusy, Phase
<1> QED
  BY <1>1, <1>4, <1>5, ShiftBooks DEF u

\* What taking a record leaves.
LEMMA TakeFields ==
  ASSUME NEW s \in TableType, NEW c \in Calls
  PROVE  LET u == Take(s, c) IN
         /\ u.out = s.out /\ SameLanes(s, u) /\ SameIndex(s, u)
         /\ u.unflushed = s.unflushed
         /\ u.rec[c].accepted = s.rec[c].accepted
         /\ u.rec[c].inTable = s.rec[c].inTable
         /\ u.rec[c].views = s.rec[c].views
<1> DEFINE r == [s.rec[c] EXCEPT !.gate = FALSE, !.phase = "Running"]
<1>1. s.rec \in [Calls -> RecordType] /\ s.rec[c] \in RecordType
  BY DEF TableType
<1>2. /\ r.accepted = s.rec[c].accepted /\ r.inTable = s.rec[c].inTable
      /\ r.views = s.rec[c].views
  BY <1>1 DEF RecordType
<1>3. CASE CanTake(s, c)
  <2>1. Take(s, c) = [s EXCEPT !.rec[c] = r]
    BY <1>3 DEF Take
  <2> HIDE DEF r
  <2> QED
    BY <1>1, <1>2, <2>1 DEF TableType, SameLanes, SameIndex
<1>4. CASE ~CanTake(s, c)
  BY <1>4 DEF Take, SameLanes, SameIndex
<1> QED
  BY <1>3, <1>4

\* The first direct call that can be taken is.
LEMMA TakeDirectBooks ==
  ASSUME NEW s \in TableType, TableInv(s, NoCall), NEW X, Books(s, X)
  PROVE  LET u == TakeDirect(s) IN
         /\ Books(u, X) /\ Moves(s, u, X, X) /\ Plainly(s, u)
         /\ u.unflushed = s.unflushed /\ u.out = s.out /\ u.others = s.others
<1> DEFINE u == TakeDirect(s)
           c == NextDirect(s)
<1>1. /\ u \in TableType
      /\ SameCalls(s, u) /\ SameBusy(s, u) /\ SameWaits(s, u)
      /\ u.queue = s.queue /\ u.pending = s.pending
      /\ c = NoCall => u.rec = s.rec /\ u.directQueue = <<>>
      /\ c # NoCall =>
           /\ c \in Calls /\ Phase(s, c) = "DirectWaiting"
           /\ ~IsOperation(s.req[c]) /\ CanTake(s, c)
           /\ Phase(u, c) = "Running"
           /\ u.rec[c].outcome = s.rec[c].outcome
           /\ \A d \in Calls \ {c} : u.rec[d] = s.rec[d]
           /\ s.directQueue # <<>>
  BY TakeDirectKeeps
<1>2. CASE c = NoCall
  <2>1. Takeable(s) = {}
    <3> SUFFICES ASSUME Takeable(s) # {} PROVE FALSE
      OBVIOUS
    <3>0. s.directQueue \in Seq(Calls) /\ Takeable(s) \subseteq Nat
      BY DEF Takeable, TableType
    <3>1. \E i \in Takeable(s) : \A j \in Takeable(s) : i <= j
      BY <3>0, LeastExists
    <3> DEFINE i == CHOOSE i \in Takeable(s) : \A j \in Takeable(s) : i <= j
    <3>a. i \in Takeable(s) /\ c = s.directQueue[i]
      BY <3>1 DEF NextDirect
    <3> HIDE DEF i, c
    <3>b. i \in 1 .. Len(s.directQueue)
      BY <3>a DEF Takeable
    <3>2. c \in Calls
      BY <3>0, <3>a, <3>b
    <3> QED
      BY <1>2, <3>2, CallsNat DEF NoCall
  <2>2. u = [s EXCEPT !.directQueue = <<>>]
    BY <2>1 DEF TakeDirect
  <2>3. /\ u.others = s.others /\ u.out = s.out /\ u.rec = s.rec
        /\ SameIndex(s, u) /\ SameLanes(s, u) /\ u.unflushed = s.unflushed
    BY <2>2 DEF TableType, SameIndex, SameLanes
  <2> HIDE DEF u, c
  <2>4. /\ SameFacts(s, u) /\ SameTable(s, u) /\ Shorter(u.queue, s.queue)
    BY <1>1, <2>3, ShorterSame DEF SameFacts, SameTable, SameCalls, SameBusy,
       TableType
  <2>5. Books(u, X)
    BY <1>1, <2>3, <2>4, QuietBooks
  <2>6. \A Y : Due(u, Y) = Due(s, Y)
    BY <2>3, <2>4, OwedSame
  <2>7. Moves(s, u, X, X) /\ Plainly(s, u)
    BY <1>1, <2>3, <2>6 DEF Moves, Answers, Fate, Plainly, SameCalls, Live, Phase
  <2> QED
    BY <2>3, <2>5, <2>7 DEF u
<1>3. CASE c # NoCall
  <2> DEFINE t == Take(s, c)
             i == CHOOSE i \in Takeable(s) : \A j \in Takeable(s) : i <= j
             p == SubSeq(t.directQueue, i + 1, Len(t.directQueue))
  <2>1. u = [t EXCEPT !.directQueue = p]
    <3>1. Takeable(s) # {} /\ c = s.directQueue[i]
      BY <1>3 DEF NextDirect
    <3>2. u = [Take(s, s.directQueue[i]) EXCEPT
                 !.directQueue = SubSeq(@, i + 1, Len(@))]
      BY <3>1 DEF TakeDirect
    <3> HIDE DEF c, i, u
    <3> QED
      BY <3>1, <3>2
  <2>2. /\ t \in TableType /\ t.others = s.others
        /\ t.rec[c].waiters = s.rec[c].waiters
        /\ t.rec[c].resolved = s.rec[c].resolved
    BY <1>1, <1>3, TakeEffect
  <2>3. /\ t.out = s.out /\ SameLanes(s, t) /\ SameIndex(s, t)
        /\ t.unflushed = s.unflushed
        /\ t.rec[c].accepted = s.rec[c].accepted
        /\ t.rec[c].inTable = s.rec[c].inTable
        /\ t.rec[c].views = s.rec[c].views
    BY <1>1, <1>3, TakeFields
  <2> HIDE DEF t, p, i
  <2>4. /\ u.others = t.others /\ u.out = t.out /\ u.rec = t.rec
        /\ SameIndex(t, u) /\ SameLanes(t, u) /\ u.unflushed = t.unflushed
    BY <2>1, <2>2 DEF TableType, SameIndex, SameLanes
  <2> HIDE DEF u, c
  <2>5. s.rec[c].resolved
    BY <1>1, <1>3 DEF CanTake
  <2>a. SameTable(s, u) /\ SameLanes(s, u) /\ SameWaits(s, u)
    BY <1>1, <2>3, <2>4 DEF SameTable, SameCalls, SameBusy, SameIndex, SameLanes
  <2>b. /\ s.rec[c].phase = "DirectWaiting" /\ u.rec[c].phase = "Running"
        /\ \A d \in Calls \ {c} : u.rec[d] = s.rec[d]
    BY <1>1, <1>3 DEF Phase
  <2>6. Shifts(s, u, c)
    BY <1>1, <2>2, <2>3, <2>4, <2>5, <2>a, <2>b DEF Shifts
  <2> QED
    BY <1>1, <1>3, <2>2, <2>3, <2>4, <2>6, ShiftBooks DEF u
<1> QED
  BY <1>2, <1>3

-----------------------------------------------------------------------------
(* Admitting and starting operations. *)

\* No new reply reports the close, what one accepts is accepted, and what is
\* accepted has its reply.
News(s, u) ==
  /\ \A r \in u.out \ s.out :
       /\ r.what # "report"
       /\ r.what = "accepted" => u.rec[r.to].accepted
  /\ \A c \in Calls : u.rec[c].accepted =>
       s.rec[c].accepted \/ Reply(c, "accepted") \in u.out

\* The evicted record is a delivered one.
LEMMA EvictDelivers ==
  ASSUME NEW s \in TableType, TableInv(s, NoCall), Evictable(s) # {}
  PROVE  \E o \in Calls :
           /\ Evict(s) = Discard(s, o) /\ Delivered(s, o)
           /\ Phase(s, o) = "Terminal"
<1> DEFINE i == CHOOSE i \in Evictable(s) : \A j \in Evictable(s) : i <= j
           o == s.retained[i]
<1>1. s.retained \in Seq(Calls) /\ Evictable(s) \subseteq Nat
  BY DEF TableType, Evictable
<1>2. \E j \in Evictable(s) : \A k \in Evictable(s) : j <= k
  BY <1>1, LeastExists
<1>3. i \in Evictable(s)
  BY <1>2
<1>4. Evict(s) = Discard(s, o)
  BY DEF Evict
<1> HIDE DEF i
<1>5. i \in 1 .. Len(s.retained) /\ Delivered(s, s.retained[i])
  BY <1>3 DEF Evictable
<1>6. o \in Calls /\ Phase(s, o) = "Terminal"
  BY <1>1, <1>5 DEF TableInv, LinesInv
<1> QED
  BY <1>4, <1>5, <1>6

\* The operation `c` is at the end of the queue, entered under its request ID.
Enqueued(s, u, c, submit) ==
  /\ u.high = s.high /\ u.req = s.req /\ u.closing = s.closing
  /\ u.busy = s.busy /\ u.running = s.running /\ u.queue = Append(s.queue, c)
  /\ u.others = s.others /\ u.out = s.out /\ u.unflushed = s.unflushed
  /\ SameWaits(s, u) /\ SameLanes(s, u)
  /\ u.tableEntries = s.tableEntries + 1
  /\ \A j \in RequestIds :
       u.requests[j] = IF j = s.req[c].rid THEN c ELSE s.requests[j]
  /\ u.rec[c].phase = "Queued" /\ u.rec[c].resolved /\ u.rec[c].inTable
  /\ u.rec[c].accepted = submit /\ u.rec[c].waiters = s.rec[c].waiters
  /\ u.rec[c].views = s.rec[c].views
  /\ \A d \in Calls \ {c} : u.rec[d] = s.rec[d]

\* What joining the queue does to the table.
LEMMA JoinQueueFields ==
  ASSUME NEW s \in TableType, NEW c \in Calls, NEW submit \in BOOLEAN
  PROVE  Enqueued(s, JoinQueue(s, c, submit), c, submit)
<1> DEFINE u == JoinQueue(s, c, submit)
           r == [s.rec[c] EXCEPT !.inTable = TRUE, !.resolved = TRUE,
                                 !.phase = "Queued", !.accepted = submit]
           i == s.req[c].rid
           ids == [s.requests EXCEPT ![i] = c]
           f == [s.rec EXCEPT ![c] = r]
<1>1. /\ s.rec \in [Calls -> RecordType] /\ s.rec[c] \in RecordType
      /\ s.requests \in [RequestIds -> Calls \cup {NoCall}]
      /\ i \in RequestIds
  BY AskType DEF TableType
<1>2. /\ r.phase = "Queued" /\ r.resolved /\ r.inTable
      /\ r.accepted = submit /\ r.waiters = s.rec[c].waiters
      /\ r.views = s.rec[c].views
  BY <1>1 DEF RecordType
<1>3. u = [s EXCEPT !.tableEntries = @ + 1, !.requests = ids, !.rec = f,
                    !.queue = Append(@, c)]
  BY DEF JoinQueue
<1>4. /\ f[c] = r /\ \A d \in Calls \ {c} : f[d] = s.rec[d]
      /\ \A j \in RequestIds : ids[j] = IF j = i THEN c ELSE s.requests[j]
  BY <1>1
<1> HIDE DEF r, ids, f, u
<1>5. /\ u.high = s.high /\ u.req = s.req /\ u.closing = s.closing
      /\ u.busy = s.busy /\ u.running = s.running
      /\ u.queue = Append(s.queue, c)
      /\ u.others = s.others /\ u.out = s.out /\ u.unflushed = s.unflushed
      /\ SameWaits(s, u) /\ SameLanes(s, u)
      /\ u.tableEntries = s.tableEntries + 1 /\ u.requests = ids
      /\ u.rec = f
  BY <1>3 DEF TableType, SameWaits, SameLanes
<1> HIDE DEF i
<1> QED
  BY <1>2, <1>4, <1>5 DEF Enqueued, u, i

\* An operation joins the queue; a submit is then in hand, to be accepted.
LEMMA QueueBooks ==
  ASSUME NEW s \in TableType, NEW c \in Calls, NEW submit \in BOOLEAN,
         NEW u, Enqueued(s, u, c, submit), submit = s.req[c].submit,
         NEW X \in SUBSET Calls, Books(s, X),
         Phase(s, c) = "Received", IsOperation(s.req[c]),
         s.requests[s.req[c].rid] = NoCall,
         Len(s.queue) < QueueLimit, s.tableEntries < TableLimit
  PROVE  LET Y == IF submit THEN X \cup {c} ELSE X IN
         Books(u, Y) /\ Moves(s, u, X, Y)
<1> DEFINE i == s.req[c].rid
           p == Append(s.queue, c)
           Y == IF submit THEN X \cup {c} ELSE X
<1>1. /\ s.queue \in Seq(Calls) /\ s.tableEntries \in Nat /\ i \in RequestIds
  BY AskType DEF TableType
<1> USE DEF Enqueued
<1> HIDE DEF i
<1>5. /\ u.requests[i] = c
      /\ \A j \in RequestIds \ {i} : u.requests[j] = s.requests[j]
  BY <1>1 DEF i
<1>6. /\ s.rec[c].phase = "Received" /\ ~s.rec[c].accepted
      /\ ~s.rec[c].inTable /\ c \notin X /\ c \in Owed(s) /\ c \notin s.others
  BY DEF Books, KindInv, LaneInv, Owed, Live, Phase, IsOperation
<1>7. KindInv(u)
  <2>1. ASSUME NEW d \in Calls PROVE KindInv(u)!1!(d)
    <3>1. CASE d = c
      BY <1>6, <3>1 DEF Books, KindInv, IsOperation
    <3>2. CASE d # c
      BY <3>2 DEF Books, KindInv
    <3> QED
      BY <3>1, <3>2
  <2> QED
    BY <2>1 DEF Books, KindInv, SameWaits
<1>8. /\ Owed(u) = IF submit THEN Owed(s) \ {c} ELSE Owed(s)
      /\ Due(u, Y) = Due(s, X) /\ Y \cap Owed(u) = {} /\ Y \in SUBSET Calls
  <2>1. Owed(u) = IF submit THEN Owed(s) \ {c} ELSE Owed(s)
    <3>1. ASSUME NEW d \in Calls, d # c PROVE d \in Owed(u) <=> d \in Owed(s)
      BY <3>1 DEF Owed, Live, Phase
    <3>2. c \in Owed(u) <=> ~submit
      BY <1>6 DEF Owed, Live, Phase
    <3>3. Owed(u) \subseteq Calls /\ Owed(s) \subseteq Calls
      BY DEF Owed
    <3> HIDE DEF Enqueued
    <3>4. CASE submit
      <4>1. c \notin Owed(u)
        BY <3>2, <3>4
      <4>2. Owed(u) = Owed(s) \ {c}
        BY <3>1, <3>3, <4>1
      <4> QED
        BY <3>4, <4>2
    <3>5. CASE ~submit
      <4>1. c \in Owed(u)
        BY <3>2, <3>5
      <4>2. Owed(u) = Owed(s)
        <5>1. c \in Owed(s)
          BY <1>6
        <5>2. \A d \in Calls : d \in Owed(u) <=> d \in Owed(s)
          BY <3>1, <4>1, <5>1, Zenon
        <5> QED
          BY <3>3, <5>2, Zenon
      <4> QED
        BY <3>5, <4>2
    <3> QED
      BY <3>4, <3>5
  <2>2. X \cap Owed(s) = {}
    BY DEF Books, LaneInv
  <2> QED
    BY <1>6, <2>1, <2>2 DEF Due
<1>9. LaneInv(u, Y)
  <2> HIDE DEF Y
  <2> QED
    BY <1>8, LaneSame DEF Books
<1>10. EntryInv(u)
  <2>1. InTable(u) = InTable(s) \cup {c} /\ c \notin InTable(s)
    BY <1>6 DEF InTable
  <2>2. InTable(s) \in SUBSET Calls
    BY DEF InTable
  <2>3. Cardinality(InTable(u)) = Cardinality(InTable(s)) + 1
    BY <2>1, <2>2, CountMore
  <2>4. TableLimit \in Nat
    BY LimitsAssumption
  <2> QED
    BY <1>1, <2>3, <2>4 DEF Books, EntryInv
<1>11. RunInv(u)
  <2>1. /\ Ops(u) = Ops(s)
        /\ \A w \in Workspaces, k \in Classes : ClassOps(u, w, k) = ClassOps(s, w, k)
    BY <1>6 DEF Ops, ClassOps, Phase
  <2>2. /\ Len(p) = Len(s.queue) + 1 /\ Len(s.queue) \in Nat
        /\ p[Len(s.queue) + 1] = c
        /\ \A j \in 1 .. Len(s.queue) : p[j] = s.queue[j]
        /\ \A j \in 1 .. Len(s.queue) + 1 : j \in 1 .. Len(s.queue) \/ j = Len(s.queue) + 1
    BY <1>1, AppendFacts DEF p
  <2>3. ASSUME NEW j \in 1 .. Len(p), ~s.closing
        PROVE  Phase(u, p[j]) = "Queued"
    <3>1. CASE j \in 1 .. Len(s.queue)
      <4>1. s.queue[j] \in Calls /\ Phase(s, s.queue[j]) = "Queued"
        BY <1>1, <2>3, <3>1 DEF Books, RunInv
      <4> QED
        BY <1>6, <2>2, <3>1, <4>1 DEF Phase
    <3>2. CASE j = Len(s.queue) + 1
      BY <2>2, <3>2 DEF Phase
    <3> QED
      BY <2>2, <3>1, <3>2
  <2>4. Len(p) <= QueueLimit
    BY <2>2, LimitsAssumption
  <2> QED
    BY <2>1, <2>3, <2>4 DEF Books, RunInv
<1>12. IdInv(u)
  <2>1. ASSUME NEW j \in RequestIds
        PROVE  Holding(u, j) = IF j = i THEN Holding(s, j) \cup {c} ELSE Holding(s, j)
    BY <1>6 DEF Holding, Phase, i
  <2>2. c # NoCall /\ Holding(s, i) = {}
    BY <1>1, CallsNat DEF NoCall, Books, IdInv, i
  <2>3. ASSUME NEW j \in RequestIds
        PROVE  Holding(u, j) = IF u.requests[j] = NoCall THEN {} ELSE {u.requests[j]}
    <3>1. CASE j = i
      BY <1>5, <2>1, <2>2, <3>1
    <3>2. CASE j # i
      <4>1. Holding(s, j) = IF s.requests[j] = NoCall THEN {} ELSE {s.requests[j]}
        BY DEF Books, IdInv
      <4> QED
        BY <1>5, <2>1, <3>2, <4>1
    <3> QED
      BY <3>1, <3>2
  <2> QED
    BY <2>3 DEF IdInv
<1>13. Moves(s, u, X, Y)
  <2>1. Answers(s, u, X, Y)
    <3> HIDE DEF Y
    <3> QED
      BY <1>8 DEF Answers
  <2>2. Fate(s, u, X)
    BY <1>6 DEF Fate, Live, Phase
  <2> QED
    BY <2>1, <2>2 DEF Moves
<1> QED
  BY <1>7, <1>9, <1>10, <1>11, <1>12, <1>13 DEF Books

\* An operation is admitted: a full table makes room, and a submit is accepted.
LEMMA AdmitOperationBooks ==
  ASSUME NEW s \in TableType, TableInv(s, NoCall), NEW c \in Calls,
         Phase(s, c) = "Received", IsOperation(s.req[c]),
         ~AdmitRefuses(s, c, FALSE),
         \A i \in 1 .. Len(s.queue) : s.queue[i] < c,
         \A j \in 1 .. Len(s.pending) : c < s.pending[j],
         NEW X \in SUBSET Calls, Books(s, X)
  PROVE  LET u == AdmitOperation(s, c) IN
         /\ Books(u, X) /\ Moves(s, u, X, X) /\ News(s, u)
         /\ u.unflushed = s.unflushed
<1> DEFINE roomy == IF s.tableEntries >= TableLimit THEN Evict(s) ELSE s
           submit == s.req[c].submit
           queued ==
             [roomy EXCEPT
                !.tableEntries = @ + 1,
                !.requests[s.req[c].rid] = c,
                !.rec[c] = [@ EXCEPT !.inTable = TRUE, !.resolved = TRUE,
                                     !.phase = "Queued", !.accepted = submit],
                !.queue = Append(@, c)]
           u == AdmitOperation(s, c)
           Y == IF submit THEN X \cup {c} ELSE X
<1>1. u = IF submit THEN Answer(queued, c, "accepted") ELSE queued
  BY DEF AdmitOperation
<1>2. submit \in BOOLEAN
  <2>1. s.req[c] \in Request
    BY AskType, ServiceAssumption
  <2> QED
    BY <2>1 DEF Request
<1>3. /\ s.requests[s.req[c].rid] = NoCall /\ ~(Len(s.queue) >= QueueLimit)
      /\ s.tableEntries >= TableLimit => Evictable(s) # {}
      /\ Len(s.queue) \in Nat /\ QueueLimit \in Nat /\ s.tableEntries \in Nat
      /\ TableLimit \in Nat /\ s.tableEntries <= TableLimit
  BY LimitsAssumption DEF AdmitRefuses, TableType, Books, EntryInv
<1>4. /\ roomy \in TableType /\ TableInv(roomy, NoCall) /\ Books(roomy, X)
      /\ Moves(s, roomy, X, X) /\ roomy.tableEntries < TableLimit
      /\ SameCalls(s, roomy) /\ SameQueues(s, roomy)
      /\ roomy.requests = s.requests /\ roomy.unflushed = s.unflushed
      /\ roomy.out = s.out /\ Plainly(s, roomy)
      /\ Phase(roomy, c) = "Received"
  <2>1. CASE s.tableEntries >= TableLimit
    <3>1. roomy = Evict(s)
      BY <2>1
    <3>2. PICK o \in Calls :
           /\ Evict(s) = Discard(s, o) /\ Delivered(s, o)
           /\ Phase(s, o) = "Terminal"
      BY <1>3, <2>1, EvictDelivers
    <3>3. LET d == Discard(s, o) IN
          /\ d \in TableType /\ Books(d, X) /\ Moves(s, d, X, X)
          /\ Plainly(s, d)
          /\ s.tableEntries = d.tableEntries + 1 /\ d.out = s.out
      BY <3>2, DiscardBooks
    <3>4. LET d == Discard(s, o) IN
          /\ d \in TableType
          /\ d.requests = s.requests /\ d.unflushed = s.unflushed
          /\ SameCalls(s, d) /\ SameQueues(s, d)
          /\ \A e \in Calls \ {o} : d.rec[e] = s.rec[e]
      BY DiscardFields
    <3>5. TableInv(Discard(s, o), NoCall)
      BY <3>2, DiscardKeeps
    <3>6. o # c /\ Discard(s, o).tableEntries \in Nat
      BY <3>2, <3>4 DEF TableType
    <3>7. roomy = Discard(s, o)
      BY <3>1, <3>2
    <3> HIDE DEF roomy
    <3> QED
      BY <1>3, <3>3, <3>4, <3>5, <3>6, <3>7 DEF Phase
  <2>2. CASE ~(s.tableEntries >= TableLimit)
    <3>1. roomy = s
      BY <2>2
    <3>2. s.tableEntries < TableLimit
      BY <1>3, <2>2
    <3> HIDE DEF roomy
    <3> QED
      BY <3>1, <3>2, MovesNot DEF SameCalls, SameQueues
  <2> QED
    BY <2>1, <2>2
<1> HIDE DEF roomy
<1>5. /\ roomy.req = s.req /\ roomy.queue = s.queue
      /\ roomy.pending = s.pending
  BY <1>4 DEF SameCalls, SameQueues
<1>6. queued = JoinQueue(roomy, c, submit)
  BY <1>5 DEF JoinQueue
<1> HIDE DEF queued
<1>7. queued \in TableType
  <2>1. JoinQueue(roomy, c, submit) \in TableType
    <3> HIDE DEF submit
    <3> QED
      BY <1>2, <1>4, <1>5, QueuedKeeps
  <2> QED
    BY <1>6, <2>1
<1>8. Enqueued(roomy, queued, c, submit)
  <2> HIDE DEF submit
  <2> QED
    BY <1>2, <1>4, <1>6, JoinQueueFields
<1>9. Books(queued, Y) /\ Moves(roomy, queued, X, Y)
  <2>1. /\ IsOperation(roomy.req[c]) /\ submit = roomy.req[c].submit
        /\ roomy.requests[roomy.req[c].rid] = NoCall
        /\ Len(roomy.queue) < QueueLimit
    BY <1>3, <1>4, <1>5
  <2> HIDE DEF submit
  <2> QED
    BY <1>2, <1>4, <1>8, <2>1, QueueBooks
<1>10. /\ queued.out = s.out /\ queued.unflushed = s.unflushed
       /\ queued.rec[c].accepted = submit
       /\ \A d \in Calls \ {c} : queued.rec[d].accepted => s.rec[d].accepted
  BY <1>4, <1>8 DEF Enqueued, Plainly
<1>11. Moves(s, queued, X, Y)
  <2>1. \A d \in X : /\ d \in X \/ Live(s, d)
                     /\ Live(queued, d) => Live(roomy, d)
    BY <1>4, <1>8 DEF Enqueued, Live, Phase
  <2> HIDE DEF Y
  <2> QED
    BY <1>4, <1>9, <2>1, MovesThen
<1>12. CASE ~submit
  <2>1. u = queued /\ Y = X
    BY <1>1, <1>12
  <2> HIDE DEF u, Y
  <2>2. News(s, queued)
    BY <1>10, <1>12 DEF News
  <2> QED
    BY <1>9, <1>10, <1>11, <2>1, <2>2 DEF u
<1>13. CASE submit
  <2> DEFINE r == Reply(c, "accepted")
             a == Answered(queued, c, r)
             Z == X \cup {c}
  <2>1. "accepted" \in Says
    BY DEF Says
  <2>2. /\ Answer(queued, c, "accepted") = a /\ r \in ReplyType /\ r.to = c
        /\ r.what = "accepted" /\ r.owner \notin Calls
    BY <2>1, AnswerReply
  <2>3. u = a /\ Y = Z
    BY <1>1, <1>13, <2>2
  <2>4. c \notin X
    BY DEF Books, LaneInv, Owed, Live, Phase, KindInv
  <2>5. Z \ {c} = X /\ Z \in SUBSET Calls /\ c \in Z
    BY <2>4
  <2> HIDE DEF u, Y, Z, r
  <2>6. /\ Books(a, Z \ {c}) /\ Moves(queued, a, Z, Z \ {c})
        /\ a.rec = queued.rec /\ a.out = queued.out \cup {r}
        /\ a.unflushed = queued.unflushed
    BY <1>7, <1>9, <2>2, <2>3, <2>5, AnsweredAny
  <2> HIDE DEF a
  <2>7. Moves(s, a, X, X)
    <3>1. \A d \in Z : /\ d \in X \/ Live(s, d)
                       /\ Live(a, d) => Live(queued, d)
      BY <2>6 DEF Z, Live, Phase
    <3> QED
      BY <1>11, <2>3, <2>5, <2>6, <3>1, MovesThen
  <2>8. News(s, a)
    BY <1>10, <1>13, <2>2, <2>6 DEF News, r
  <2> QED
    BY <1>10, <2>3, <2>5, <2>6, <2>7, <2>8 DEF u
<1> QED
  BY <1>12, <1>13

\* What counting an operation as running and taking its record does.
Started(s, u, c) ==
  /\ u.high = s.high /\ u.req = s.req /\ u.closing = s.closing
  /\ u.queue = s.queue /\ u.others = s.others /\ u.out = s.out
  /\ SameWaits(s, u) /\ SameLanes(s, u) /\ SameIndex(s, u)
  /\ u.running = s.running + 1
  /\ \A w \in Workspaces, k \in Classes :
       u.busy[w][k] = IF w = s.req[c].ws /\ k = s.req[c].class
                      THEN s.busy[w][k] + 1 ELSE s.busy[w][k]
  /\ u.rec[c].phase = IF s.rec[c].phase = "Queued" THEN "Running"
                      ELSE s.rec[c].phase
  /\ u.rec[c].accepted = s.rec[c].accepted
  /\ u.rec[c].inTable = s.rec[c].inTable
  /\ u.rec[c].resolved = s.rec[c].resolved
  /\ u.rec[c].waiters = s.rec[c].waiters
  /\ u.rec[c].views = s.rec[c].views
  /\ \A d \in Calls \ {c} : u.rec[d] = s.rec[d]

\* What starting an operation changes.
LEMMA StartFields ==
  ASSUME NEW s \in TableType, NEW c \in Calls, TableInv(s, c),
         ~InSeq(c, s.queue), IsOperation(s.req[c])
  PROVE  LET u == Take(ChangeBusy(s, c, 1), c) IN
         Started(s, u, c) /\ u.unflushed = s.unflushed
<1> DEFINE b == ChangeBusy(s, c, 1)
           u == Take(b, c)
           w == s.req[c].ws
           k == s.req[c].class
<1>1. /\ b \in TableType /\ u \in TableType
      /\ SameCalls(s, u) /\ SameQueues(s, u) /\ SameWaits(s, u)
      /\ CanTake(b, c) <=> CanTake(s, c)
      /\ \A d \in Calls \ {c} : u.rec[d] = s.rec[d]
      /\ Phase(u, c) = IF CanTake(s, c) THEN "Running" ELSE Phase(s, c)
      /\ \A v \in Workspaces, l \in Classes :
           <<v, l>> # <<w, k>> => u.busy[v][l] = s.busy[v][l]
      /\ u.busy[w][k] = s.busy[w][k] + 1
  BY StartKeeps
<1>2. /\ SameLanes(s, b) /\ SameIndex(s, b) /\ b.out = s.out
      /\ b.unflushed = s.unflushed /\ b.running = s.running + 1
  BY ChangeBusyFields
<1>3. b.rec = s.rec /\ b.others = s.others
  BY ChangeBusyEffect
<1> HIDE DEF b
<1>4. /\ u.out = b.out /\ SameLanes(b, u) /\ SameIndex(b, u)
      /\ u.unflushed = b.unflushed
      /\ u.rec[c].accepted = b.rec[c].accepted
      /\ u.rec[c].inTable = b.rec[c].inTable
      /\ u.rec[c].views = b.rec[c].views
  BY <1>1, TakeFields
<1>5. /\ SameBusy(b, u) /\ u.others = b.others
      /\ u.rec[c].waiters = b.rec[c].waiters
      /\ u.rec[c].resolved = b.rec[c].resolved
  BY <1>1, TakeEffect
<1>6. CanTake(s, c) <=> Phase(s, c) = "Queued"
  <2>1. CanTake(s, c) <=> Phase(s, c) \in {"Queued", "DirectWaiting"}
    BY CanTakeFacts
  <2>2. Phase(s, c) # "DirectWaiting"
    BY DEF TableInv, RecordInv, Phase
  <2> QED
    BY <2>1, <2>2
<1> HIDE DEF u
<1>7. \A v \in Workspaces, l \in Classes :
        u.busy[v][l] = IF v = w /\ l = k THEN s.busy[v][l] + 1 ELSE s.busy[v][l]
  BY <1>1
<1> HIDE DEF w, k
<1>8. /\ u.high = s.high /\ u.req = s.req /\ u.closing = s.closing
      /\ u.queue = s.queue /\ u.running = s.running + 1
      /\ SameLanes(s, u) /\ SameIndex(s, u)
  BY <1>1, <1>2, <1>4, <1>5 DEF SameCalls, SameQueues, SameBusy, SameLanes, SameIndex
<1>9. u.rec[c].phase = IF s.rec[c].phase = "Queued" THEN "Running"
                       ELSE s.rec[c].phase
  BY <1>1, <1>6 DEF Phase
<1>10. Started(s, u, c)
  BY <1>1, <1>2, <1>3, <1>4, <1>5, <1>7, <1>8, <1>9 DEF Started, w, k
<1> QED
  BY <1>2, <1>4, <1>10 DEF u, b

\* An operation starts: it is one more running, and of its class; after the
\* close began it may be counted although it was settled.
LEMMA StartBooks ==
  ASSUME NEW s \in TableType, NEW c \in Calls, NEW u, Started(s, u, c),
         ~InSeq(c, s.queue), IsOperation(s.req[c]), NEW X, Books(s, X),
         s.running < RunningLimit, s.closing \/ Phase(s, c) = "Queued",
         s.rec[c].phase \in {"None", "Queued", "Terminal"},
         s.rec[c].phase = "Queued" => s.rec[c].resolved
  PROVE  Books(u, X) /\ Moves(s, u, X, X) /\ Plainly(s, u)
<1> USE DEF Started
<1>1. /\ s.queue \in Seq(Calls) /\ s.running \in Nat
      /\ s.busy \in [Workspaces -> [Classes -> Nat]]
      /\ s.req[c].ws \in Workspaces /\ s.req[c].class \in Classes
      /\ RunningLimit \in Nat
  BY AskType, LimitsAssumption DEF TableType
<1>2. KindInv(u)
  <2>1. ASSUME NEW d \in Calls PROVE KindInv(u)!1!(d)
    <3>1. CASE d = c
      BY <3>1 DEF Books, KindInv
    <3>2. CASE d # c
      BY <3>2 DEF Books, KindInv
    <3> QED
      BY <3>1, <3>2
  <2> QED
    BY <2>1 DEF Books, KindInv, SameWaits
<1>3. Owed(u) = Owed(s)
  BY DEF Owed, Live, Phase
<1>4. LaneInv(u, X)
  <2>1. Due(u, X) = Due(s, X) /\ X \cap Owed(u) = {}
    BY <1>3 DEF Due, Books, LaneInv
  <2> QED
    BY <2>1, LaneSame DEF Books
<1>5. EntryInv(u)
  <2>1. InTable(u) = InTable(s)
    BY DEF InTable
  <2> QED
    BY <2>1 DEF Books, EntryInv, SameIndex
<1>6. RunInv(u)
  <2>1. ASSUME NEW i \in 1 .. Len(s.queue), ~s.closing
        PROVE  Phase(u, s.queue[i]) = "Queued"
    <3>1. s.queue[i] \in Calls /\ Phase(s, s.queue[i]) = "Queued" /\ s.queue[i] # c
      BY <1>1, <2>1 DEF Books, RunInv, InSeq
    <3> QED
      BY <3>1 DEF Phase
  <2>2. /\ Ops(s) \in SUBSET Calls
        /\ \A w \in Workspaces, k \in Classes : ClassOps(s, w, k) \in SUBSET Calls
    BY DEF Ops, ClassOps
  <2>3. CASE s.rec[c].phase = "Queued"
    <3>1. Ops(u) = Ops(s) \cup {c} /\ c \notin Ops(s)
      BY <2>3 DEF Ops, Phase
    <3>2. Cardinality(Ops(s)) \in Nat /\ Cardinality(Ops(u)) = Cardinality(Ops(s)) + 1
      BY <2>2, <3>1, CountMore
    <3>3. ASSUME NEW w \in Workspaces, NEW k \in Classes, ~s.closing
          PROVE  u.busy[w][k] = Cardinality(ClassOps(u, w, k))
      <4>1. s.busy[w][k] = Cardinality(ClassOps(s, w, k))
        BY <3>3 DEF Books, RunInv
      <4>2. CASE w = s.req[c].ws /\ k = s.req[c].class
        <5>1. ClassOps(u, w, k) = ClassOps(s, w, k) \cup {c} /\ c \notin ClassOps(s, w, k)
          BY <2>3, <4>2 DEF ClassOps, Phase
        <5>2. Cardinality(ClassOps(u, w, k)) = Cardinality(ClassOps(s, w, k)) + 1
          BY <2>2, <5>1, CountMore
        <5> QED
          BY <4>1, <4>2, <5>2
      <4>3. CASE ~(w = s.req[c].ws /\ k = s.req[c].class)
        <5>1. ClassOps(u, w, k) = ClassOps(s, w, k)
          BY <2>3, <4>3 DEF ClassOps, Phase
        <5> QED
          BY <4>1, <4>3, <5>1
      <4> QED
        BY <4>2, <4>3
    <3> QED
      BY <1>1, <2>1, <3>2, <3>3 DEF Books, RunInv
  <2>4. CASE s.rec[c].phase # "Queued"
    <3>1. Ops(u) = Ops(s) /\ s.closing
      BY <2>4 DEF Ops, Phase
    <3>2. Cardinality(Ops(s)) \in Nat
      BY <2>2, CountNat
    <3> QED
      BY <1>1, <3>1, <3>2 DEF Books, RunInv
  <2> QED
    BY <2>3, <2>4
<1>7. IdInv(u)
  <2>1. \A i \in RequestIds : Holding(u, i) = Holding(s, i)
    BY DEF Holding, Phase
  <2> QED
    BY <2>1 DEF Books, IdInv, SameIndex
<1>8. Moves(s, u, X, X) /\ Plainly(s, u)
  <2>1. Answers(s, u, X, X)
    BY <1>3 DEF Answers, Due
  <2>2. Fate(s, u, X)
    BY DEF Fate, Live, Phase
  <2> QED
    BY <2>1, <2>2 DEF Moves, Plainly
<1> QED
  BY <1>2, <1>4, <1>5, <1>6, <1>7, <1>8 DEF Books

-----------------------------------------------------------------------------
(* Steps that answer many calls, or none. *)

\* Nothing the books see changes, and nothing is replied.
Quiet(s, u) ==
  /\ SameFacts(s, u) /\ SameTable(s, u) /\ Shorter(u.queue, s.queue)
  /\ u.others = s.others /\ SameWaits(s, u) /\ SameLanes(s, u)
  /\ u.out = s.out
  /\ \A d \in Calls : u.rec[d].views = s.rec[d].views

\* Such a change moves nothing.
LEMMA QuietMoves ==
  ASSUME NEW s \in TableType, NEW u \in TableType, Quiet(s, u), NEW X,
         Books(s, X)
  PROVE  Books(u, X) /\ Moves(s, u, X, X) /\ Plainly(s, u)
<1>1. Books(u, X)
  BY QuietBooks DEF Quiet
<1>2. Due(u, X) = Due(s, X)
  BY OwedSame DEF Quiet
<1>3. Answers(s, u, X, X)
  BY <1>2 DEF Answers, Quiet
<1>4. Fate(s, u, X)
  BY DEF Fate, Quiet, SameFacts, SameTable, Live, Phase
<1> QED
  BY <1>1, <1>3, <1>4 DEF Moves, Plainly, Quiet, SameFacts

\* The waiting calls `D` are told `what`.
Tells(s, u, D, what) ==
  /\ D \subseteq s.held \/ D \subseteq s.closers
  /\ u.rec = s.rec /\ SameTable(s, u) /\ Shorter(u.queue, s.queue)
  /\ u.others = s.others \ D
  /\ u.held \subseteq s.held \ D /\ u.closers \subseteq s.closers \ D
  /\ u.outstanding = Less(s.outstanding, Cardinality(OffControl(s, D)))
  /\ u.controls = Less(s.controls, Cardinality(OnControl(s, D)))
  /\ u.out = s.out \cup {Reply(c, what) : c \in D}

\* They are due no longer, and their lanes lose as many.
LEMMA TellBooks ==
  ASSUME NEW s \in TableType, NEW u \in TableType, TableInv(s, NoCall),
         NEW D, NEW what, Tells(s, u, D, what), what # "accepted",
         NEW X \in SUBSET Calls, Books(s, X)
  PROVE  /\ Books(u, X) /\ Moves(s, u, X, X)
         /\ \A r \in u.out \ s.out : r.what = what
<1> USE DEF Tells
<1>1. u.high = s.high /\ u.req = s.req /\ KindInv(s)
  BY DEF SameTable, Books
<1>2. ASSUME NEW c \in D
      PROVE  /\ c \in Calls /\ c \in s.others
             /\ ~Live(s, c) /\ \A d \in Calls : c \notin s.rec[d].waiters
  <2>1. c \in s.others /\ s.req[c].type \in {"Read", "Close"} /\ c \in Calls
    BY <1>1 DEF KindInv, TableType
  <2>2. ~Live(s, c)
    BY <1>1, <2>1 DEF KindInv, Live, Phase
  <2>3. ASSUME NEW d \in Calls, c \in s.rec[d].waiters PROVE FALSE
    <3>1. s.req[c].type # "Close"
      BY <1>1, <2>3 DEF KindInv
    <3>2. Asks(s.req[c])
      BY <2>3 DEF TableInv, RecordInv
    <3> QED
      BY <2>1, <3>1, <3>2 DEF Asks, Control
  <2> QED
    BY <2>1, <2>2, <2>3
<1>3. KindInv(u)
  <2>1. ASSUME NEW d \in Calls PROVE KindInv(u)!1!(d)
    <3>1. ASSUME NEW w \in s.rec[d].waiters
          PROVE  w \in u.others /\ s.req[w].target = d /\ s.req[w].type # "Close"
      BY <1>1, <1>2 DEF KindInv
    <3> QED
      BY <1>1, <3>1 DEF KindInv
  <2> QED
    BY <1>1, <2>1 DEF KindInv
<1>4. Owed(u) = Owed(s) \ D /\ D \subseteq Owed(s)
  BY <1>2 DEF Owed, Live, Phase
<1>5. X \cap Owed(s) = {}
  BY DEF Books, LaneInv
<1>6. /\ Due(u, X) = Due(s, X) \ D /\ D \subseteq Due(s, X)
      /\ X \cap Owed(u) = {}
  BY <1>4, <1>5 DEF Due
<1>7. LaneInv(u, X)
  BY <1>1, <1>6, LaneLess DEF Books
<1>8. SameFacts(s, u)
  BY DEF SameFacts
<1>9. Books(u, X)
  BY <1>3, <1>7, <1>8, QuietParts DEF Books
<1>10. /\ \A r \in u.out \ s.out : r.to \in D /\ r = Reply(r.to, what) /\ r.what = what
       /\ \A c \in D : \E r \in u.out : r.to = c
  <2> DEFINE N == {Reply(c, what) : c \in D}
  <2>1. \A c \in D : Reply(c, what).to = c /\ Reply(c, what).what = what
    BY DEF Reply
  <2>2. \A r \in N : r.to \in D /\ r = Reply(r.to, what) /\ r.what = what
    BY <2>1
  <2>3. \A c \in D : Reply(c, what) \in N
    OBVIOUS
  <2>4. u.out = s.out \cup N
    OBVIOUS
  <2> HIDE DEF N, Tells
  <2> QED
    BY <2>1, <2>2, <2>3, <2>4
<1>11. Answers(s, u, X, X)
  BY <1>6, <1>10 DEF Answers
<1>12. Fate(s, u, X)
  <2>1. \A r \in u.out \ s.out : r.owner \notin Calls
    BY <1>10, CallsNat DEF Reply, NoCall
  <2> QED
    BY <1>1, <2>1 DEF Fate, Live, Phase
<1> QED
  BY <1>9, <1>10, <1>11, <1>12 DEF Moves

\* Marking views delivered changes nothing else of a record.
LEMMA MarkBooks ==
  ASSUME NEW s \in TableType, TableInv(s, NoCall), NEW b, b \subseteq ReplyType,
         NEW X, Books(s, X)
  PROVE  LET u == MarkDelivered(s, b) IN
         /\ Books(u, X) /\ SameFacts(s, u)
         /\ u.unflushed = s.unflushed /\ u.out = s.out
         /\ \A c \in Calls : \A v \in u.rec[c].views :
              v \in s.rec[c].views \/ \E r \in b : r.owner = c /\ r.view = v
<1> DEFINE u == MarkDelivered(s, b)
           views(c) == s.rec[c].views \cup {r.view : r \in {q \in b : q.owner = c}}
           f == [c \in Calls |-> IF Phase(s, c) = "None" THEN s.rec[c]
                                 ELSE [s.rec[c] EXCEPT !.views = views(c)]]
<1>1. /\ u \in TableType
      /\ SameCalls(s, u) /\ SameQueues(s, u) /\ SameBusy(s, u)
      /\ SameWaits(s, u) /\ u.others = s.others
  BY MarkDeliveredKeeps
<1>2. u = [s EXCEPT !.rec = f]
  <2>1. \A c \in Calls : s.rec[c] \in RecordType
    BY DEF TableType
  <2> QED
    BY <2>1 DEF MarkDelivered, RecordType
<1>3. ASSUME NEW c \in Calls
      PROVE  /\ f[c].phase = s.rec[c].phase /\ f[c].accepted = s.rec[c].accepted
             /\ f[c].inTable = s.rec[c].inTable
             /\ f[c].resolved = s.rec[c].resolved
             /\ f[c].waiters = s.rec[c].waiters
             /\ f[c].views \subseteq views(c)
  <2>1. s.rec[c] \in RecordType
    BY DEF TableType
  <2>2. s.rec[c].views \subseteq views(c)
    OBVIOUS
  <2> HIDE DEF views
  <2> QED
    BY <2>1, <2>2 DEF RecordType
<1> HIDE DEF f, u
<1>4. /\ u.rec = f /\ u.out = s.out /\ u.unflushed = s.unflushed
      /\ SameLanes(s, u) /\ SameIndex(s, u)
  BY <1>2 DEF TableType, SameLanes, SameIndex
<1>5. SameFacts(s, u)
  BY <1>3, <1>4 DEF SameFacts
<1>6. SameTable(s, u) /\ Shorter(u.queue, s.queue)
  BY <1>1, <1>4, ShorterSame DEF SameTable, SameCalls, SameBusy, SameQueues, TableType
<1>7. Books(u, X)
  BY <1>1, <1>4, <1>5, <1>6, QuietBooks
<1>8. ASSUME NEW c \in Calls, NEW v \in u.rec[c].views
      PROVE  v \in s.rec[c].views \/ \E r \in b : r.owner = c /\ r.view = v
  BY <1>3, <1>4
<1> QED
  BY <1>4, <1>5, <1>7, <1>8 DEF u

\* An entry leaves the queue.
LEMMA UnqueuedQuiet ==
  ASSUME NEW s \in TableType, TableInv(s, NoCall), NEW i \in 1 .. Len(s.queue)
  PROVE  LET u == [s EXCEPT !.queue = Drop(@, i)] IN
         u \in TableType /\ Quiet(s, u) /\ u.unflushed = s.unflushed
<1> DEFINE p == Drop(s.queue, i)
           u == [s EXCEPT !.queue = p]
<1>1. s.queue \in Seq(Calls)
  BY DEF TableType
<1>2. \A m, n \in 1 .. Len(s.queue) : m < n => s.queue[m] < s.queue[n]
  BY DEF TableInv, LinesInv
<1>3. p \in Seq(Calls) /\ \A j \in 1 .. Len(p) : InSeq(p[j], s.queue)
  BY <1>1, <1>2, DropFacts
<1>4. Len(p) <= Len(s.queue)
  BY <1>1, DropType
<1> HIDE DEF p
<1>5. /\ u \in TableType /\ u.queue = p /\ u.rec = s.rec /\ u.high = s.high
      /\ u.req = s.req /\ u.closing = s.closing /\ u.busy = s.busy
      /\ u.running = s.running /\ u.others = s.others /\ u.out = s.out
      /\ SameIndex(s, u) /\ SameWaits(s, u) /\ SameLanes(s, u)
      /\ u.unflushed = s.unflushed
  BY <1>3 DEF TableType, SameIndex, SameWaits, SameLanes
<1> HIDE DEF u
<1>6. Quiet(s, u)
  BY <1>1, <1>3, <1>4, <1>5 DEF Quiet, SameFacts, SameTable, Shorter
<1> QED
  BY <1>5, <1>6 DEF u, p

-----------------------------------------------------------------------------
(* The flow of replies. *)

\* The call the reading thread has in hand while its spool is read.
Hand == IF stage[Reader] = "spool" THEN {tbl.high} ELSE {}

\* Where a reply can be: in the batch being built, in a thread's batch, or
\* past the channel.
Wire == NoThread - 1
Places == Threads \cup {NoThread, Wire}
At(p) ==
  CASE p = NoThread -> tbl.out
    [] p = Wire     -> sent \cup dropped
    [] OTHER        -> batch[p]

\* Every reply is in one place, is the only one to its call, and its call is
\* owed none; until the session ends no call is without.
OnceInv ==
  /\ \A p, q \in Places : \A r \in At(p), m \in At(q) :
       r.to = m.to => p = q /\ r = m
  /\ \A p \in Places : \A r \in At(p) :
       r.to <= tbl.high /\ r.to \notin Due(tbl, Hand)
  /\ ~tbl.ended =>
       \A c \in 1 .. tbl.high :
         c \in Due(tbl, Hand) \/ \E p \in Places : \E r \in At(p) : r.to = c

PlaceInv ==
  /\ Free => tbl.out = {}
  /\ \A t \in Threads : batch[t] # {} => stage[t] \in {"mark", "send"}
  /\ sent \cup dropped \subseteq ReplyType

\* The threads whose batch is counted.
Flushing(t) ==
  CASE t = Reader ->
         \/ stage[t] \in {"counted", "spool", "sched", "close", "mark", "send"}
         \/ stage[t] = "inline" /\ replies
    [] t = Closer -> stage[t] \in {"settle", "mark", "send"}
    [] OTHER      -> stage[t] \in {"sched", "mark", "send"}
InFlight == {t \in Threads : Flushing(t)}

\* The direct workers are counted, and only they go on to another call.
DirectInv ==
  /\ tbl.directRunning = Cardinality(DirectThreads)
  /\ \A c \in Calls : stage[c] = "next" => tbl.req[c].type = "Direct"

TallyInv == tbl.unflushed = Cardinality(InFlight) /\ DirectInv

\* The close has answered the reads and detached what ran.
Over ==
  \/ stage[Closer] \in {"spools", "report", "drain", "shut", "end", "done"}
  \/ stage[Closer] \in {"mark", "send"} /\ after \in {"spools", "drain"}
Reported ==
  \/ stage[Closer] \in {"drain", "shut", "end", "done"}
  \/ stage[Closer] \in {"mark", "send"} /\ after = "drain"

OverInv ==
  /\ Over => RunningCalls(tbl) = {} /\ tbl.held = {}
  /\ tbl.revoked \subseteq recorded
  /\ tbl.ended => stage[Closer] = "done"
  /\ tbl.report <=> Reported

\* The replies to the calls before a close report are out.
Out(c) == tbl.req[c].type = "Close" \/ \E r \in sent \cup dropped : r.to = c
ReportInv ==
  /\ \A p \in Places : \A r \in At(p) : r.what = "report" =>
       \A c \in 1 .. r.to - 1 : Out(c)
  /\ tbl.report /\ ~tbl.ended =>
       \A c \in 1 .. tbl.high : Out(c) \/ \E r \in batch[Reader] : r.to = c

\* What becomes of an accepted operation.
Released(c) ==
  \E p \in Places : \E r \in At(p) :
    r.what = "released" /\ tbl.req[r.to].target = c
Seen(c, v) == \E r \in HandedOver : r.owner = c /\ r.view = v
FateInv ==
  /\ \A c \in Calls : \A v \in tbl.rec[c].views : Seen(c, v)
  /\ \A c \in Calls : \A p \in Places : Reply(c, "accepted") \in At(p) =>
       \/ tbl.rec[c].accepted
       \/ Released(c)
       \/ \A v \in IF tbl.req[c].view THEN Views ELSE {"Result"} : Seen(c, v)
  /\ \A c \in Calls : tbl.rec[c].accepted =>
       \E p \in Places : Reply(c, "accepted") \in At(p)
  /\ \A p \in Places : \A r \in At(p) : r.owner \in Calls =>
       r.owner <= tbl.high /\ ~Live(tbl, r.owner)

ReplyInv ==
  /\ Books(tbl, Hand) /\ OnceInv /\ PlaceInv /\ TallyInv /\ OverInv
  /\ ReportInv /\ FateInv

-----------------------------------------------------------------------------
(* From the table to the threads: where a section's replies go. *)

\* The places are apart, and what is in each.
LEMMA PlaceFacts ==
  /\ NoThread \in Places /\ Wire \in Places /\ Threads \subseteq Places
  /\ Wire \notin Threads /\ NoThread \notin Threads /\ Wire # NoThread
  /\ \A p \in Places : p = NoThread \/ p = Wire \/ p \in Threads
  BY ThreadsApart DEF Places, Wire, NoThread, Threads, Closer

\* What is in each place.
LEMMA AtFacts ==
  /\ At(NoThread) = tbl.out /\ At(Wire) = sent \cup dropped
  /\ \A t \in Threads : At(t) = batch[t]
  BY PlaceFacts DEF At

\* What is in each place of the next state.
LEMMA AtNext ==
  /\ At(NoThread)' = tbl'.out /\ At(Wire)' = sent' \cup dropped'
  /\ \A t \in Threads : At(t)' = batch'[t]
  BY PlaceFacts DEF At

\* The table `s` a section starts from is the state's, or the state's with
\* one call heard, which is then in hand.
Begins(s, X) ==
  /\ s.out = tbl.out /\ s.rec = tbl.rec
  /\ tbl.high <= s.high /\ s.high \in Nat
  /\ \A d \in Calls : d <= tbl.high =>
       s.req[d] = tbl.req[d] /\ (d \in Due(s, X) <=> d \in Due(tbl, Hand))
  /\ \A d \in Due(s, X) : d \in 1 .. s.high
  /\ \A d \in 1 .. s.high : d <= tbl.high \/ d \in Due(s, X)

\* The table `u` a section ends with is the next state's, with its replies
\* built further (NoThread) or in the batch of the thread `H`.
Carries(u, H) ==
  /\ H \in Threads \cup {NoThread}
  /\ tbl'.rec = u.rec /\ tbl'.others = u.others /\ tbl'.req = u.req
  /\ tbl'.high = u.high
  /\ sent' = sent /\ dropped' = dropped
  /\ \A t \in Threads \ {H} : batch'[t] = batch[t]
  /\ H = NoThread => tbl'.out = u.out
  /\ H # NoThread => tbl'.out = {} /\ batch[H] = {} /\ batch'[H] = u.out
  /\ \A t \in Threads : stage[t] = "send" /\ batch[t] # {} => stage'[t] = "send"
  /\ tbl.ended => tbl'.ended

Home(p, H) == IF p = NoThread THEN H ELSE p

\* Where the replies of the next state come from.
LEMMA Carried ==
  ASSUME NEW s, NEW u, NEW H, Carries(u, H), s.out = tbl.out,
         s.out \subseteq u.out
  PROVE  /\ H \in Places
         /\ \A p \in Places : Home(p, H) \in Places
         /\ \A p \in Places : \A r \in At(p) : r \in At(Home(p, H))'
         /\ \A p \in Places : \A r \in At(p)' :
              \/ p = H /\ r \in u.out \ s.out
              \/ \E q \in Places : p = Home(q, H) /\ r \in At(q)
<1>1. H \in Places /\ \A p \in Places : Home(p, H) \in Places
  BY PlaceFacts DEF Carries, Home
<1>2. ASSUME NEW p \in Places, NEW r \in At(p) PROVE r \in At(Home(p, H))'
  <2>1. CASE p = NoThread
    BY <1>2, <2>1, PlaceFacts, AtFacts, AtNext DEF Carries, Home
  <2>2. CASE p = Wire
    BY <1>2, <2>2, PlaceFacts, AtFacts, AtNext DEF Carries, Home
  <2>3. CASE p \in Threads
    BY <1>2, <2>3, PlaceFacts, AtFacts, AtNext DEF Carries, Home
  <2> QED
    BY <2>1, <2>2, <2>3, PlaceFacts
<1>3. ASSUME NEW p \in Places, NEW r, r \in At(p)'
      PROVE  \/ p = H /\ r \in u.out \ s.out
             \/ \E q \in Places : p = Home(q, H) /\ r \in At(q)
  <2>1. CASE p = H
    <3>1. r \in u.out
      BY <1>3, <2>1, PlaceFacts, AtNext DEF Carries
    <3>2. CASE r \in s.out
      <4>1. NoThread \in Places /\ p = Home(NoThread, H) /\ r \in At(NoThread)
        BY <2>1, <3>2, PlaceFacts, AtFacts DEF Home
      <4> QED
        BY <4>1
    <3> QED
      BY <2>1, <3>1, <3>2
  <2>2. CASE p # H
    <3>1. p # NoThread
      BY <1>3, <2>2, AtNext DEF Carries
    <3>2. p = Home(p, H) /\ r \in At(p)
      BY <1>3, <2>2, <3>1, PlaceFacts, AtFacts, AtNext DEF Carries, Home
    <3> QED
      BY <3>2
  <2> QED
    BY <2>1, <2>2
<1> QED
  BY <1>1, <1>2, <1>3

\* Each reply stays the only one to its call.
LEMMA FlowOnce ==
  ASSUME NEW s, NEW u, NEW X, NEW H, OnceInv, Begins(s, X), Carries(u, H),
         u.high = s.high, Answers(s, u, X, Hand'), tbl.high \in Nat,
         tbl.high <= MaxCall,
         \A p \in Places : \A r \in At(p) : r.to \in Calls
  PROVE  OnceInv'
<1>1. s.out \subseteq u.out /\ s.out = tbl.out
  BY DEF Answers, Begins
<1>2. /\ H \in Places
      /\ \A p \in Places : Home(p, H) \in Places
      /\ \A p \in Places : \A r \in At(p) : r \in At(Home(p, H))'
      /\ \A p \in Places : \A r \in At(p)' :
           \/ p = H /\ r \in u.out \ s.out
           \/ \E q \in Places : p = Home(q, H) /\ r \in At(q)
  BY <1>1, Carried
<1>3. Due(tbl', Hand') = Due(u, Hand')
  BY DEF Due, Owed, Carries, Live, Phase
<1>4. ASSUME NEW p \in Places, NEW r \in At(p)
      PROVE  r.to <= tbl.high /\ r.to \notin Due(s, X) /\ r.to \in Calls
  BY DEF OnceInv, Begins
<1>5. ASSUME NEW p \in Places, NEW q \in Places, NEW r, NEW m,
             r \in At(p)', m \in At(q)', r.to = m.to
      PROVE  p = q /\ r = m
  <2>1. CASE p = H /\ r \in u.out \ s.out
    <3>1. r.to \in Due(s, X)
      BY <2>1 DEF Answers
    <3>2. q = H /\ m \in u.out \ s.out
      BY <1>2, <1>4, <1>5, <3>1
    <3> QED
      BY <1>5, <2>1, <3>2 DEF Answers
  <2>2. CASE q = H /\ m \in u.out \ s.out
    <3>1. m.to \in Due(s, X)
      BY <2>2 DEF Answers
    <3>2. p = H /\ r \in u.out \ s.out
      BY <1>2, <1>4, <1>5, <3>1
    <3> QED
      BY <1>5, <2>2, <3>2 DEF Answers
  <2>3. CASE ~(p = H /\ r \in u.out \ s.out) /\ ~(q = H /\ m \in u.out \ s.out)
    <3>1. PICK a \in Places : p = Home(a, H) /\ r \in At(a)
      BY <1>2, <1>5, <2>3
    <3>2. PICK b \in Places : q = Home(b, H) /\ m \in At(b)
      BY <1>2, <1>5, <2>3
    <3> QED
      BY <1>5, <3>1, <3>2 DEF OnceInv
  <2> QED
    BY <2>1, <2>2, <2>3
<1>6. ASSUME NEW p \in Places, NEW r, r \in At(p)'
      PROVE  r.to <= tbl'.high /\ r.to \notin Due(tbl', Hand')
  <2>1. tbl'.high = s.high
    BY DEF Carries
  <2>2. CASE p = H /\ r \in u.out \ s.out
    BY <1>3, <2>1, <2>2 DEF Answers, Begins
  <2>3. CASE \E q \in Places : p = Home(q, H) /\ r \in At(q)
    <3>1. r.to <= tbl.high /\ r.to \notin Due(s, X) /\ r.to \in Calls
      BY <1>4, <2>3
    <3>2. r.to \notin Due(u, Hand')
      BY <3>1 DEF Answers
    <3>3. r.to <= s.high
      BY <3>1, CallsNat DEF Begins
    <3> QED
      BY <1>3, <2>1, <3>2, <3>3
  <2> QED
    BY <1>2, <1>6, <2>2, <2>3
<1>7. ASSUME ~tbl'.ended, NEW c \in 1 .. tbl'.high
      PROVE  c \in Due(tbl', Hand') \/ \E p \in Places : \E r \in At(p)' : r.to = c
  <2>1. tbl'.high = s.high /\ ~tbl.ended
    BY <1>7 DEF Carries
  <2>2. CASE c \in Due(s, X)
    <3>1. c \in Due(u, Hand') \/ \E r \in u.out : r.to = c
      BY <2>2 DEF Answers
    <3>2. u.out \subseteq At(H)'
      BY PlaceFacts, AtNext DEF Carries
    <3> QED
      BY <1>2, <1>3, <3>1, <3>2
  <2>3. CASE c \notin Due(s, X)
    <3>1. c <= tbl.high
      BY <2>1, <2>3 DEF Begins
    <3>2. c \in 1 .. tbl.high /\ c \in Calls
      <4>1. s.high \in Nat /\ c \in 1 .. s.high
        BY <1>7, <2>1 DEF Begins
      <4>2. c \in Nat /\ 1 <= c /\ c <= MaxCall
        BY <3>1, <4>1, LimitsAssumption
      <4> QED
        BY <3>1, <4>2, LimitsAssumption DEF Calls
    <3>3. c \notin Due(tbl, Hand)
      BY <2>3, <3>1, <3>2 DEF Begins
    <3>4. \E p \in Places : \E r \in At(p) : r.to = c
      BY <2>1, <3>2, <3>3 DEF OnceInv
    <3> QED
      BY <1>2, <3>4
  <2> QED
    BY <2>2, <2>3
<1> QED
  BY <1>5, <1>6, <1>7 DEF OnceInv

\* What was handed over stays so.
LEMMA HandedKept ==
  ASSUME NEW u, NEW H, Carries(u, H)
  PROVE  HandedOver \subseteq HandedOver'
<1> SUFFICES ASSUME NEW r \in HandedOver PROVE r \in HandedOver'
  OBVIOUS
<1>1. CASE r \in sent \cup dropped
  BY <1>1 DEF HandedOver, Carries
<1>2. CASE r \notin sent \cup dropped
  <2>1. PICK t \in Threads : stage[t] = "send" /\ r \in batch[t]
    BY <1>2 DEF HandedOver
  <2>2. t # H
    BY <2>1, ThreadsApart DEF Carries
  <2>3. stage'[t] = "send" /\ r \in batch'[t]
    BY <2>1, <2>2 DEF Carries
  <2> QED
    BY <2>1, <2>3 DEF HandedOver
<1> QED
  BY <1>1, <1>2

\* What a new reply accepts is accepted, and the reverse.
Accepts(s, u) ==
  /\ \A r \in u.out \ s.out : r.what = "accepted" => u.rec[r.to].accepted
  /\ \A c \in Calls : u.rec[c].accepted =>
       s.rec[c].accepted \/ Reply(c, "accepted") \in u.out

\* An accepted operation keeps its record until it is delivered or released.
LEMMA FlowFate ==
  ASSUME NEW s, NEW u, NEW X, NEW H, OnceInv, FateInv, Begins(s, X),
         Carries(u, H), s.out \subseteq u.out, Fate(s, u, X), Accepts(s, u),
         tbl.high \in Nat, \A d \in X : d <= tbl.high /\ Live(u, d) => Live(s, d),
         \A p \in Places : \A r \in At(p) : r.to \in Calls
  PROVE  FateInv'
<1>1. s.out = tbl.out
  BY DEF Begins
<1>2. /\ H \in Places
      /\ \A p \in Places : Home(p, H) \in Places
      /\ \A p \in Places : \A r \in At(p) : r \in At(Home(p, H))'
      /\ \A p \in Places : \A r \in At(p)' :
           \/ p = H /\ r \in u.out \ s.out
           \/ \E q \in Places : p = Home(q, H) /\ r \in At(q)
  BY <1>1, Carried
<1>3. ASSUME NEW c, NEW v, Seen(c, v) PROVE Seen(c, v)'
  BY <1>3, HandedKept DEF Seen
<1>4. ASSUME NEW c \in Calls, NEW v, v \in tbl'.rec[c].views PROVE Seen(c, v)'
  <2>1. v \in tbl.rec[c].views
    BY <1>4 DEF Fate, Carries, Begins
  <2> QED
    BY <1>3, <2>1 DEF FateInv
<1>5. ASSUME NEW p \in Places, NEW r \in At(p)
      PROVE  tbl'.req[r.to] = tbl.req[r.to] /\ r.to \in Calls
  BY DEF OnceInv, Begins, Fate, Carries
<1>6. ASSUME NEW c \in Calls, NEW p \in Places, Reply(c, "accepted") \in At(p)'
      PROVE  \/ tbl'.rec[c].accepted
             \/ Released(c)'
             \/ \A v \in IF tbl'.req[c].view THEN Views ELSE {"Result"} : Seen(c, v)'
  <2> DEFINE a == Reply(c, "accepted")
  <2>0. a.to = c /\ a.what = "accepted"
    BY DEF Reply
  <2>1. CASE p = H /\ a \in u.out \ s.out
    BY <2>0, <2>1 DEF Accepts, Carries
  <2>2. CASE \E q \in Places : p = Home(q, H) /\ a \in At(q)
    <3>0. PICK q \in Places : a \in At(q)
      BY <2>2
    <3>1. tbl'.req[c] = tbl.req[c]
      BY <1>5, <2>0, <3>0
    <3>2. \/ tbl.rec[c].accepted
          \/ Released(c)
          \/ \A v \in IF tbl.req[c].view THEN Views ELSE {"Result"} : Seen(c, v)
      BY <3>0 DEF FateInv
    <3>3. CASE tbl.rec[c].accepted
      <4>1. \/ u.rec[c].accepted
            \/ Delivered(s, c)
            \/ \E r \in u.out : r.what = "released" /\ u.req[r.to].target = c
        BY <3>3 DEF Fate, Begins
      <4>2. CASE u.rec[c].accepted
        BY <4>2 DEF Carries
      <4>3. CASE Delivered(s, c)
        <5>1. /\ "Result" \in tbl.rec[c].views
              /\ tbl'.req[c].view => "Response" \in tbl.rec[c].views
          BY <4>3, <3>1 DEF Delivered, Begins, Fate, Carries
        <5>2. /\ Seen(c, "Result")'
              /\ tbl'.req[c].view => Seen(c, "Response")'
          BY <1>3, <5>1 DEF FateInv
        <5> QED
          BY <5>2 DEF Views
      <4>4. CASE \E r \in u.out : r.what = "released" /\ u.req[r.to].target = c
        <5>1. u.out \subseteq At(H)' /\ tbl'.req = u.req
          BY PlaceFacts, AtNext DEF Carries
        <5> QED
          BY <1>2, <4>4, <5>1 DEF Released
      <4> QED
        BY <4>1, <4>2, <4>3, <4>4
    <3>4. CASE Released(c)
      <4>1. PICK b \in Places : \E r \in At(b) :
              r.what = "released" /\ tbl.req[r.to].target = c
        BY <3>4 DEF Released
      <4>2. PICK r \in At(b) : r.what = "released" /\ tbl.req[r.to].target = c
        BY <4>1
      <4>3. r \in At(Home(b, H))' /\ Home(b, H) \in Places
            /\ tbl'.req[r.to].target = c
        BY <1>2, <1>5, <4>2
      <4> QED
        BY <4>2, <4>3 DEF Released
    <3>5. CASE \A v \in IF tbl.req[c].view THEN Views ELSE {"Result"} : Seen(c, v)
      BY <1>3, <3>1, <3>5
    <3> QED
      BY <3>2, <3>3, <3>4, <3>5
  <2> QED
    BY <1>2, <1>6, <2>1, <2>2
<1>7. ASSUME NEW c \in Calls, tbl'.rec[c].accepted
      PROVE  \E p \in Places : Reply(c, "accepted") \in At(p)'
  <2>1. CASE tbl.rec[c].accepted
    BY <1>2, <2>1 DEF FateInv
  <2>2. CASE ~tbl.rec[c].accepted
    <3>1. Reply(c, "accepted") \in u.out
      BY <1>7, <2>2 DEF Accepts, Begins, Carries
    <3>2. u.out \subseteq At(H)'
      BY PlaceFacts, AtNext DEF Carries
    <3> QED
      BY <1>2, <3>1, <3>2
  <2> QED
    BY <2>1, <2>2
<1>8. \A d : Live(tbl', d) <=> Live(u, d)
  BY DEF Live, Phase, Carries
<1>9. ASSUME NEW p \in Places, NEW r, r \in At(p)', r.owner \in Calls
      PROVE  r.owner <= tbl'.high /\ ~Live(tbl', r.owner)
  <2>1. CASE r \in u.out \ s.out
    BY <1>8, <1>9, <2>1 DEF Fate, Carries
  <2>2. CASE \E q \in Places : r \in At(q)
    <3>1. r.owner <= tbl.high /\ ~Live(tbl, r.owner)
      BY <1>9, <2>2 DEF FateInv
    <3>2. ~Live(s, r.owner)
      BY <3>1 DEF Begins, Live, Phase
    <3>3. ~Live(u, r.owner)
      BY <1>9, <3>1, <3>2 DEF Fate
    <3>4. tbl.high <= tbl'.high /\ tbl'.high \in Nat /\ r.owner \in Nat
      BY <1>9, CallsNat DEF Begins, Fate, Carries
    <3> QED
      BY <1>8, <3>1, <3>3, <3>4
  <2> QED
    BY <1>2, <1>9, <2>1, <2>2
<1>10. \A p \in Places : \A r \in At(p)' : r.owner \in Calls =>
         r.owner <= tbl'.high /\ ~Live(tbl', r.owner)
  BY <1>9
<1>11. \A d : Live(tbl', d) <=> Live(tbl, d)'
  BY DEF Live, Phase
<1> QED
  BY <1>4, <1>6, <1>7, <1>10, <1>11 DEF FateInv

\* What was out stays out.
LEMMA OutKept ==
  ASSUME NEW s, NEW u, NEW X, NEW H, Begins(s, X), Carries(u, H), u.req = s.req,
         NEW c \in Calls, c <= tbl.high, Out(c)
  PROVE  Out(c)'
  BY DEF Out, Begins, Carries

\* A new report comes after the replies to the calls before it.
Reports(s, u) ==
  \A r \in u.out \ s.out : r.what = "report" => \A c \in 1 .. r.to - 1 : Out(c)'

\* Then every report does.
LEMMA FlowLast ==
  ASSUME NEW s, NEW u, NEW X, NEW H, OnceInv, ReportInv, Begins(s, X),
         Carries(u, H), s.out \subseteq u.out, u.req = s.req, Reports(s, u),
         tbl.high \in Nat,
         \A p \in Places : \A r \in At(p) : r.to \in Calls,
         NEW p \in Places, NEW r, r \in At(p)', r.what = "report"
  PROVE  \A c \in 1 .. r.to - 1 : Out(c)'
<1>1. s.out = tbl.out
  BY DEF Begins
<1>2. \/ r \in u.out \ s.out
      \/ \E q \in Places : r \in At(q)
  BY <1>1, Carried
<1>3. CASE r \in u.out \ s.out
  BY <1>3 DEF Reports
<1>4. CASE \E q \in Places : r \in At(q)
  <2>1. PICK q \in Places : r \in At(q)
    BY <1>4
  <2>2. \A c \in 1 .. r.to - 1 : Out(c)
    BY <2>1 DEF ReportInv
  <2>3. r.to \in Calls /\ r.to <= tbl.high
    BY <2>1 DEF OnceInv
  <2>4. \A c \in 1 .. r.to - 1 : c \in Calls /\ c <= tbl.high
    BY <2>3, LimitsAssumption DEF Calls
  <2> QED
    BY <2>2, <2>4, OutKept
<1> QED
  BY <1>2, <1>3, <1>4

\* A section that reports only so leaves the reports last.
LEMMA FlowReport ==
  ASSUME NEW s, NEW u, NEW X, NEW H, OnceInv, ReportInv, Begins(s, X),
         Carries(u, H), s.out \subseteq u.out, u.req = s.req, u.high = s.high,
         Reports(s, u), tbl.high \in Nat, tbl.high <= MaxCall,
         \A p \in Places : \A r \in At(p) : r.to \in Calls,
         tbl'.report => tbl.report \/ tbl'.ended,
         tbl.report /\ ~tbl.ended =>
           \A c \in 1 .. s.high :
             \/ c <= tbl.high \/ Out(c)'
             \/ \E r \in batch'[Reader] : r.to = c
  PROVE  ReportInv'
<1>3. ASSUME NEW p \in Places, NEW r, r \in At(p)', r.what = "report"
      PROVE  \A c \in 1 .. r.to - 1 : Out(c)'
  BY <1>3, FlowLast
<1>4. ASSUME tbl'.report, ~tbl'.ended, NEW c \in 1 .. tbl'.high
      PROVE  Out(c)' \/ \E r \in batch'[Reader] : r.to = c
  <2>1. tbl.report /\ ~tbl.ended /\ c \in 1 .. s.high /\ s.high \in Nat
    BY <1>4 DEF Carries, Begins
  <2>2. CASE c <= tbl.high
    <3>1. c \in 1 .. tbl.high /\ c \in Calls
      BY <2>1, <2>2, LimitsAssumption DEF Calls
    <3>2. Out(c) \/ \E r \in batch[Reader] : r.to = c
      BY <2>1, <3>1 DEF ReportInv
    <3>3. batch[Reader] \subseteq batch'[Reader]
      BY ThreadsApart DEF Carries
    <3> QED
      BY <2>2, <3>1, <3>2, <3>3, OutKept
  <2> QED
    BY <2>1, <2>2
<1> QED
  BY <1>3, <1>4 DEF ReportInv

-----------------------------------------------------------------------------
(* What a step keeps, part by part. *)

\* Every reply there is goes to a call.
LEMMA PlacedTyped ==
  ASSUME ServiceInv, PlaceInv
  PROVE  \A p \in Places : \A r \in At(p) : r \in ReplyType /\ r.to \in Calls
<1>1. /\ tbl.out \subseteq ReplyType /\ sent \cup dropped \subseteq ReplyType
      /\ \A t \in Threads : batch[t] \subseteq ReplyType
  BY DEF ServiceInv, ServiceTypes, TableType, PlaceInv
<1>2. \A r \in ReplyType : r.to \in Calls
  BY DEF ReplyType
<1> QED
  BY <1>1, <1>2, PlaceFacts, AtFacts

\* What is due was heard.
LEMMA DueHeard ==
  ASSUME ServiceInv, KindInv(tbl)
  PROVE  /\ \A d \in Due(tbl, Hand) : d \in 1 .. tbl.high /\ d \in Calls
         /\ tbl.high \in Nat /\ tbl.high <= MaxCall /\ Hand \in SUBSET Calls
<1>1. tbl \in TableType /\ tbl.high \in Nat /\ tbl.high <= MaxCall
  BY DEF ServiceInv, ServiceTypes, TableType
<1>2. ASSUME NEW d \in Owed(tbl) PROVE d \in Calls /\ d <= tbl.high
  <2>1. d \in Calls
    BY DEF Owed
  <2>2. CASE d \in tbl.others
    BY <2>1, <2>2 DEF KindInv
  <2>3. CASE Live(tbl, d)
    BY <2>1, <2>3 DEF Live, Phase, ServiceInv, TableInv, RecordInv
  <2> QED
    BY <2>1, <2>2, <2>3 DEF Owed
<1>3. ASSUME NEW d \in Hand PROVE d \in Calls /\ d = tbl.high
  <2>1. stage[Reader] = "spool" /\ d = tbl.high
    BY DEF Hand
  <2>2. tbl.high # 0
    BY <2>1 DEF ServiceInv, ReaderInv
  <2> QED
    BY <1>1, <2>1, <2>2, LimitsAssumption DEF Calls
<1>4. \A d \in Calls : d \in Nat /\ d # 0
  BY CallsNat
<1> QED
  BY <1>1, <1>2, <1>3, <1>4 DEF Due

\* A step that hears no call begins with the table as it is.
LEMMA BeginsHere ==
  ASSUME ServiceInv, KindInv(tbl) PROVE Begins(tbl, Hand)
  BY DueHeard DEF Begins

\* The table's part of the invariant.
LEMMA TableFacts ==
  ASSUME ServiceInv, ReplyInv
  PROVE  /\ tbl \in TableType /\ TableInv(tbl, NoCall) /\ Books(tbl, Hand)
         /\ Hand \in SUBSET Calls /\ tbl.high \in Nat /\ tbl.high <= MaxCall
         /\ \A c \in Calls : TableInv(tbl, c)
<1>1. tbl \in TableType /\ TableInv(tbl, NoCall) /\ Books(tbl, Hand)
  BY DEF ServiceInv, ServiceTypes, ReplyInv
<1>2. KindInv(tbl)
  BY <1>1 DEF Books
<1>3. Hand \in SUBSET Calls /\ tbl.high \in Nat /\ tbl.high <= MaxCall
  BY <1>2, DueHeard
<1>4. \A c \in Calls : TableInv(tbl, c)
  BY <1>1, CallsNat DEF TableInv, PlacedInv, NoCall
<1> QED
  BY <1>1, <1>3, <1>4

\* A section that hears no call and makes no report keeps the flow.
LEMMA FlowKeeps ==
  ASSUME ServiceInv, ReplyInv, NEW u, NEW H, Carries(u, H), u.high = tbl.high,
         Moves(tbl, u, Hand, Hand'), News(tbl, u),
         \A d \in Hand : Live(u, d) => Live(tbl, d),
         tbl'.report => tbl.report \/ tbl'.ended
  PROVE  OnceInv' /\ FateInv' /\ ReportInv'
<1>1. /\ OnceInv /\ PlaceInv /\ FateInv /\ ReportInv /\ KindInv(tbl)
      /\ Begins(tbl, Hand)
  BY BeginsHere DEF ReplyInv, Books
<1>2. \A p \in Places : \A r \in At(p) : r.to \in Calls
  BY <1>1, PlacedTyped
<1>3. /\ Answers(tbl, u, Hand, Hand') /\ Fate(tbl, u, Hand)
      /\ tbl.out \subseteq u.out /\ u.req = tbl.req
  BY DEF Moves, Answers, Fate
<1>4. tbl.high \in Nat /\ tbl.high <= MaxCall
  BY <1>1, DueHeard
<1>5. OnceInv'
  BY <1>1, <1>2, <1>3, <1>4, FlowOnce
<1>6. FateInv'
  <2>1. Accepts(tbl, u)
    BY DEF News, Accepts
  <2> QED
    BY <1>1, <1>2, <1>3, <1>4, <2>1, FlowFate
<1>7. ReportInv'
  <2>1. Reports(tbl, u)
    BY DEF News, Reports
  <2>2. \A c \in 1 .. tbl.high : c <= tbl.high
    BY <1>4
  <2> QED
    BY <1>1, <1>2, <1>3, <1>4, <2>1, <2>2, FlowReport
<1> QED
  BY <1>5, <1>6, <1>7

\* The threads are finitely many.
LEMMA ThreadsFinite == IsFiniteSet(Threads)
<1>1. Closer \in Int /\ MaxCall \in Int
  BY LimitsAssumption DEF Closer
<1> QED
  BY <1>1, FS_Interval DEF Threads

\* The batches counted are those in flight, whoever moves.
LEMMA TallyKept ==
  ASSUME TallyInv, tbl'.unflushed = tbl.unflushed,
         \A t \in Threads : Flushing(t)' <=> Flushing(t)
  PROVE  tbl'.unflushed = Cardinality(InFlight')
<1>1. InFlight' = InFlight
  BY DEF InFlight
<1> QED
  BY <1>1 DEF TallyInv

\* A batch more is under way, and counted.
LEMMA TallyUp ==
  ASSUME TallyInv, NEW t \in Threads, ~Flushing(t), Flushing(t)',
         \A v \in Threads \ {t} : Flushing(v)' <=> Flushing(v),
         tbl'.unflushed = tbl.unflushed + 1
  PROVE  tbl'.unflushed = Cardinality(InFlight')
<1>1. InFlight' = InFlight \cup {t} /\ t \notin InFlight
  BY DEF InFlight
<1>2. IsFiniteSet(InFlight)
  BY ThreadsFinite, FS_Subset DEF InFlight
<1>3. Cardinality(InFlight \cup {t}) = Cardinality(InFlight) + 1
  BY <1>1, <1>2, FS_AddElement
<1> QED
  BY <1>1, <1>3 DEF TallyInv

\* A batch is under way no longer, nor counted.
LEMMA TallyDown ==
  ASSUME TallyInv, NEW t \in Threads, Flushing(t), ~Flushing(t)',
         \A v \in Threads \ {t} : Flushing(v)' <=> Flushing(v),
         tbl'.unflushed = Less(tbl.unflushed, 1)
  PROVE  tbl'.unflushed = Cardinality(InFlight')
<1>1. InFlight' = InFlight \ {t} /\ t \in InFlight
  BY DEF InFlight
<1>2. IsFiniteSet(InFlight)
  BY ThreadsFinite, FS_Subset DEF InFlight
<1>3. Cardinality(InFlight \ {t}) = Cardinality(InFlight) - 1
  BY <1>1, <1>2, FS_RemoveElement
<1>4. Cardinality(InFlight) \in Nat /\ Cardinality(InFlight \ {t}) \in Nat
  BY <1>2, FS_CardinalityType, FS_RemoveElement
<1> QED
  BY <1>1, <1>3, <1>4 DEF TallyInv, Less

\* A thread that stays flushes as before.
LEMMA FlushSame ==
  ASSUME NEW t, stage'[t] = stage[t], replies' = replies
  PROVE  Flushing(t)' <=> Flushing(t)
  BY DEF Flushing

\* The direct workers counted are the direct calls' threads.
LEMMA DirectKept ==
  ASSUME TallyInv, ThreadInv, tbl'.directRunning = tbl.directRunning,
         \A c \in Calls : c <= tbl.high => tbl'.req[c] = tbl.req[c],
         \A c \in Calls :
           \/ stage'[c] = stage[c]
           \/ /\ stage[c] # "none"
              /\ tbl.req[c].type = "Direct" =>
                   (stage'[c] \in {"none", "ended"} <=> stage[c] \in {"none", "ended"})
              /\ stage'[c] = "next" => tbl.req[c].type = "Direct"
  PROVE  DirectInv'
<1>1. \A c \in Calls : stage[c] # "none" => tbl'.req[c] = tbl.req[c]
  BY DEF ThreadInv
<1>2. DirectThreads' = DirectThreads
  BY <1>1 DEF DirectThreads
<1>3. \A c \in Calls : stage'[c] = "next" => tbl'.req[c].type = "Direct"
  BY <1>1 DEF TallyInv, DirectInv
<1> QED
  BY <1>2, <1>3 DEF TallyInv, DirectInv

\* Once the close is over nothing is live.
LEMMA OverDead ==
  ASSUME ServiceInv, OverInv, Over
  PROVE  /\ \A c \in Calls : ~Live(tbl, c)
         /\ tbl.closing /\ tbl.held = {} /\ Late
<1>1. Late /\ RunningCalls(tbl) = {} /\ tbl.held = {}
  BY DEF Over, Late, OverInv
<1>2. NotStarted(tbl) = {} /\ tbl.closing
  BY <1>1 DEF ServiceInv, CloseInv, Late
<1>3. ASSUME NEW c \in Calls PROVE ~Live(tbl, c)
  <2>1. tbl.rec[c].phase \in Phases
    BY DEF ServiceInv, ServiceTypes, TableType, RecordType
  <2> QED
    BY <1>1, <1>2, <2>1 DEF NotStarted, RunningCalls, Live, Phase, Phases
<1> QED
  BY <1>1, <1>2, <1>3

\* The close's own state stays.
Steady ==
  /\ stage'[Closer] = stage[Closer] /\ after' = after
  /\ tbl'.revoked = tbl.revoked /\ recorded' = recorded
  /\ tbl'.ended = tbl.ended /\ tbl'.report = tbl.report

\* Then what is over stays so, if nothing comes to life after the close began.
LEMMA OverKept ==
  ASSUME ServiceInv, OverInv, Steady,
         tbl.closing =>
           /\ \A c \in Calls : Live(tbl', c) => Live(tbl, c)
           /\ tbl'.held \subseteq tbl.held
  PROVE  OverInv'
<1>1. (Over' <=> Over) /\ (Reported' <=> Reported)
  BY DEF Steady, Over, Reported
<1>2. ASSUME Over PROVE RunningCalls(tbl') = {} /\ tbl'.held = {}
  <2>1. /\ \A c \in Calls : ~Live(tbl, c)
        /\ tbl.closing /\ tbl.held = {}
    BY <1>2, OverDead
  <2> QED
    BY <2>1 DEF RunningCalls, Live, Phase
<1> QED
  BY <1>1, <1>2 DEF OverInv, Steady

-----------------------------------------------------------------------------
(* The shapes of the steps. *)

\* Who has a batch to send stays where it is.
Kept == \A t \in Threads : batch[t] # {} => stage'[t] = stage[t]

\* A step that hands no batch out.
StaysIn ==
  /\ UNCHANGED <<batch, sent, dropped>> /\ Kept
  /\ lock' # NoThread \/ tbl'.out = {}
  /\ tbl.ended => tbl'.ended

\* Its replies, if any, are built further.
LEMMA StayFlow ==
  ASSUME ServiceInv, PlaceInv, StaysIn
  PROVE  Carries(tbl', NoThread) /\ PlaceInv'
<1>1. Carries(tbl', NoThread)
  BY ThreadsApart DEF Carries, StaysIn, Kept
<1>2. PlaceInv'
  BY DEF PlaceInv, StaysIn, Kept, Free
<1> QED
  BY <1>1, <1>2

\* A step that keeps the lock, and what it has built.
LEMMA StayStep ==
  ASSUME ServiceInv, ReplyInv, StaysIn, tbl'.high = tbl.high,
         Books(tbl', Hand'), Moves(tbl, tbl', Hand, Hand'), News(tbl, tbl'),
         \A d \in Hand : Live(tbl', d) => Live(tbl, d),
         tbl'.report => tbl.report \/ tbl'.ended, TallyInv', OverInv'
  PROVE  ReplyInv'
<1>1. Carries(tbl', NoThread) /\ PlaceInv'
  BY StayFlow DEF ReplyInv
<1>2. OnceInv' /\ FateInv' /\ ReportInv'
  BY <1>1, FlowKeeps
<1>3. Books(tbl, Hand)'
  <2>1. Books(tbl, Hand)' <=> Books(tbl', Hand')
    BY DEF Books, KindInv, LaneInv, EntryInv, RunInv, IdInv, Owed, Due,
       OnControl, OffControl, InTable, Ops, ClassOps, Holding, Phase, Live
  <2> QED
    BY <2>1
<1> QED
  BY <1>1, <1>2, <1>3 DEF ReplyInv

\* New replies that are plain are no news.
LEMMA PlainNews == ASSUME NEW s, NEW u, Plainly(s, u) PROVE News(s, u)
  BY DEF Plainly, News

\* A step nothing of the books is changed by.
LEMMA QuietStep ==
  ASSUME ServiceInv, ServiceInv', ReplyInv, StaysIn, Quiet(tbl, tbl'),
         Hand' = Hand, tbl'.report => tbl.report \/ tbl'.ended,
         TallyInv', OverInv'
  PROVE  ReplyInv'
<1>1. tbl \in TableType /\ tbl' \in TableType /\ Books(tbl, Hand)
  BY DEF ServiceInv, ServiceTypes, ReplyInv
<1>2. /\ Books(tbl', Hand) /\ Moves(tbl, tbl', Hand, Hand)
      /\ Plainly(tbl, tbl')
  BY <1>1, QuietMoves
<1>3. News(tbl, tbl')
  BY <1>2, PlainNews
<1>4. /\ tbl'.high = tbl.high
      /\ \A d \in Hand : Live(tbl', d) => Live(tbl, d)
  <2>1. Hand \subseteq Calls
    BY TableFacts
  <2> QED
    BY <2>1 DEF Quiet, SameTable, SameFacts, Live, Phase
<1> HIDE DEF Hand
<1> QED
  BY <1>2, <1>3, <1>4, StayStep

\* A section that ends hands its replies to its thread.
LEMMA UnlockFlow ==
  ASSUME ServiceInv, PlaceInv, NEW t \in Threads, NEW u \in TableType, NEW label,
         Unlock(t, u, label), stage[t] \notin {"mark", "send"},
         label = "mark" \/ u.out = {}, UNCHANGED <<sent, dropped>>,
         tbl.ended => u.ended, NEW Y, Books(u, Y)
  PROVE  /\ Carries(u, t) /\ PlaceInv' /\ Books(tbl', Y)
         /\ Same(u, tbl') /\ tbl'.unflushed = u.unflushed
         /\ stage'[t] = label
         /\ \A v \in Threads \ {t} : stage'[v] = stage[v]
<1>1. /\ tbl' = [u EXCEPT !.out = {}] /\ lock' = NoThread
      /\ batch' = [batch EXCEPT ![t] = u.out]
      /\ stage' = [stage EXCEPT ![t] = label]
  BY DEF Unlock, Goto
<1>2. /\ batch \in [Threads -> SUBSET ReplyType]
      /\ stage \in [Threads -> AllStages]
  BY DEF ServiceInv, ServiceTypes, StageTypes
<1>3. /\ stage'[t] = label /\ \A v \in Threads \ {t} : stage'[v] = stage[v]
      /\ batch'[t] = u.out /\ \A v \in Threads \ {t} : batch'[v] = batch[v]
  BY <1>1, <1>2
<1>4. tbl' \in TableType /\ Same(u, tbl')
  BY <1>1, HandedOut
<1>5. /\ tbl'.out = {} /\ tbl'.unflushed = u.unflushed
      /\ SameLanes(u, tbl') /\ SameIndex(u, tbl')
  BY <1>1 DEF TableType, SameLanes, SameIndex
<1>6. batch[t] = {} /\ t # NoThread
  BY ThreadsApart DEF PlaceInv
<1>7. Carries(u, t)
  BY <1>3, <1>4, <1>5, <1>6 DEF Carries, Same, SameCalls
<1>8. PlaceInv'
  <2>1. \A v \in Threads : batch'[v] # {} => stage'[v] \in {"mark", "send"}
    BY <1>3 DEF PlaceInv
  <2> QED
    BY <1>5, <2>1 DEF PlaceInv
<1>9. Books(tbl', Y)
  <2>1. SameFacts(u, tbl') /\ SameTable(u, tbl') /\ tbl'.others = u.others
        /\ SameWaits(u, tbl')
    BY <1>4, <1>5 DEF Same, SameFacts, SameTable, SameCalls, SameBusy
  <2>2. Shorter(tbl'.queue, u.queue)
    BY <1>4, ShorterSame DEF Same, SameQueues, TableType
  <2> QED
    BY <1>4, <1>5, <2>1, <2>2, QuietBooks
<1> QED
  BY <1>3, <1>4, <1>5, <1>7, <1>8, <1>9

\* The books of the next state.
LEMMA BooksNext == Books(tbl, Hand)' <=> Books(tbl', Hand')
  BY DEF Books, KindInv, LaneInv, EntryInv, RunInv, IdInv, Owed, Due,
     OnControl, OffControl, InTable, Ops, ClassOps, Holding, Phase, Live

\* A section that hears no call and makes no report.
LEMMA UnlockStep ==
  ASSUME ServiceInv, ReplyInv, NEW t \in Threads, NEW u \in TableType, NEW label,
         Unlock(t, u, label), stage[t] \notin {"mark", "send"},
         label = "mark" \/ u.out = {}, UNCHANGED <<sent, dropped>>,
         u.high = tbl.high, u.ended = tbl.ended, u.report = tbl.report,
         Books(u, Hand'), Moves(tbl, u, Hand, Hand'), News(tbl, u),
         \A d \in Hand : Live(u, d) => Live(tbl, d),
         TallyInv', OverInv'
  PROVE  ReplyInv'
<1>1. /\ Carries(u, t) /\ PlaceInv' /\ Books(tbl', Hand') /\ Same(u, tbl')
  <2> HIDE DEF Hand
  <2> QED
    BY UnlockFlow DEF ReplyInv
<1>2. tbl'.report = tbl.report
  BY <1>1 DEF Same, SameCalls
<1>3. OnceInv' /\ FateInv' /\ ReportInv'
  BY <1>1, <1>2, FlowKeeps
<1> QED
  BY <1>1, <1>3, BooksNext DEF ReplyInv

-----------------------------------------------------------------------------
(* Steps that leave the table alone. *)

\* A table that does not change is quiet.
LEMMA QuietSame == ASSUME NEW s \in TableType PROVE Quiet(s, s)
<1>1. Shorter(s.queue, s.queue)
  BY ShorterSame DEF TableType
<1> QED
  BY <1>1 DEF Quiet, SameFacts, SameTable, SameIndex, SameWaits, SameLanes

\* A thread goes on, with nothing in its batch, and the table stays.
LEMMA IdleReply ==
  ASSUME ServiceInv, ServiceInv', ReplyInv, Kept,
         UNCHANGED <<tbl, batch, sent, dropped>>, lock' # NoThread \/ Free,
         stage'[Reader] = "spool" <=> stage[Reader] = "spool",
         \A t \in Threads : Flushing(t)' <=> Flushing(t),
         \A c \in Calls :
           \/ stage'[c] = stage[c]
           \/ /\ stage[c] # "none"
              /\ tbl.req[c].type = "Direct" =>
                   (stage'[c] \in {"none", "ended"} <=> stage[c] \in {"none", "ended"})
              /\ stage'[c] = "next" => tbl.req[c].type = "Direct",
         OverInv'
  PROVE  ReplyInv'
<1>1. tbl \in TableType /\ ThreadInv
  BY DEF ServiceInv, ServiceTypes
<1>2. Quiet(tbl, tbl')
  BY <1>1, QuietSame
<1>3. StaysIn
  BY DEF StaysIn, ReplyInv, PlaceInv, Free
<1>4. Hand' = Hand
  BY DEF Hand
<1>5. tbl'.unflushed = Cardinality(InFlight')
  BY TallyKept DEF ReplyInv
<1>6. DirectInv'
  BY <1>1, DirectKept DEF ReplyInv
<1>7. TallyInv'
  BY <1>5, <1>6 DEF TallyInv
<1> QED
  BY <1>2, <1>3, <1>4, <1>7, QuietStep

\* One thread goes on.
LEMMA GotoReply ==
  ASSUME ServiceInv, ServiceInv', ReplyInv, NEW t \in Threads, NEW label,
         Goto(t, label), UNCHANGED <<tbl, batch, sent, dropped, replies>>,
         stage[t] \notin {"mark", "send"}, lock' # NoThread \/ Free,
         t = Reader => stage[t] # "spool" /\ label # "spool",
         t \in Calls =>
           /\ stage[t] # "none"
           /\ tbl.req[t].type = "Direct" =>
                (label \in {"none", "ended"} <=> stage[t] \in {"none", "ended"})
           /\ label = "next" => tbl.req[t].type = "Direct",
         Flushing(t)' <=> Flushing(t), OverInv'
  PROVE  ReplyInv'
<1>1. stage \in [Threads -> AllStages]
  BY DEF ServiceInv, ServiceTypes, StageTypes
<1>2. stage'[t] = label /\ \A v \in Threads \ {t} : stage'[v] = stage[v]
  BY <1>1 DEF Goto
<1>3. Kept
  BY <1>2 DEF Kept, ReplyInv, PlaceInv
<1>4. \A v \in Threads : Flushing(v)' <=> Flushing(v)
  BY <1>2, FlushSame
<1>5. stage'[Reader] = "spool" <=> stage[Reader] = "spool"
  BY <1>2, ThreadsApart
<1>6. \A c \in Calls :
           \/ stage'[c] = stage[c]
           \/ /\ stage[c] # "none"
              /\ tbl.req[c].type = "Direct" =>
                   (stage'[c] \in {"none", "ended"} <=> stage[c] \in {"none", "ended"})
              /\ stage'[c] = "next" => tbl.req[c].type = "Direct"
  BY <1>2, ThreadsApart
<1> QED
  BY <1>3, <1>4, <1>5, <1>6, IdleReply

\* The close does not see another thread go on.
LEMMA GotoOver ==
  ASSUME ServiceInv, ReplyInv, NEW t \in Threads \ {Closer}, NEW label,
         Goto(t, label), UNCHANGED <<tbl, after, recorded>>
  PROVE  OverInv'
<1>1. stage'[Closer] = stage[Closer]
  BY DEF ServiceInv, ServiceTypes, StageTypes, Goto
<1>2. Steady
  BY <1>1 DEF Steady
<1> QED
  BY <1>2, OverKept DEF ReplyInv

\* Nothing happens to the session.
LEMMA StillReply ==
  ASSUME ServiceInv, ServiceInv', ReplyInv,
         UNCHANGED <<tbl, lock, stage, batch, sent, dropped, after, replies, recorded>>
  PROVE  ReplyInv'
<1>1. OverInv'
  BY OverKept DEF ReplyInv, Steady
<1>2. \A t \in Threads : Flushing(t)' <=> Flushing(t)
  BY FlushSame
<1> QED
  BY <1>1, <1>2, IdleReply DEF Kept, Free

\* A frame is read.
LEMMA ReadFrameReply ==
  ASSUME ServiceInv, ServiceInv', ReplyInv, NEW q, ReadFrame(q)
  PROVE  ReplyInv'
<1>1. /\ stage[Reader] = "idle" /\ Goto(Reader, "popped")
      /\ UNCHANGED <<tbl, lock, batch, sent, dropped, after, replies, recorded>>
  BY DEF ReadFrame, ioVars, hostVars, closeVars
<1>2. OverInv'
  BY <1>1, GotoOver, ThreadsApart
<1>3. stage'[Reader] = "popped"
  BY <1>1, ThreadsApart DEF ServiceInv, ServiceTypes, StageTypes, Goto
<1>4. Flushing(Reader)' <=> Flushing(Reader)
  BY <1>1, <1>3, ThreadsApart DEF Flushing
<1>5. lock' # NoThread \/ Free
  BY <1>1 DEF Free
<1> QED
  BY <1>1, <1>2, <1>4, <1>5, GotoReply, ThreadsApart

\* The channel is found closed, or a close on the reading thread returns.
LEMMA ReaderIdleReply ==
  ASSUME ServiceInv, ServiceInv', ReplyInv, ChannelClosed \/ InlineReturns
  PROVE  ReplyInv'
<1>1. PICK label :
        /\ Goto(Reader, label) /\ label \in {"lost", "mark", "gone"}
        /\ UNCHANGED <<tbl, lock, batch, sent, dropped, after, replies, recorded>>
        /\ \/ stage[Reader] = "idle" /\ label = "lost"
           \/ stage[Reader] = "inline" /\ label = IF replies THEN "mark" ELSE "gone"
  BY DEF ChannelClosed, InlineReturns, readerUnchanged, ioVars, hostVars, closeVars
<1>2. OverInv'
  BY <1>1, GotoOver, ThreadsApart
<1>3. stage'[Reader] = label
  BY <1>1, ThreadsApart DEF ServiceInv, ServiceTypes, StageTypes, Goto
<1>4. Flushing(Reader)' <=> Flushing(Reader)
  BY <1>1, <1>3, ThreadsApart DEF Flushing
<1>5. lock' # NoThread \/ Free
  BY <1>1 DEF Free
<1> QED
  BY <1>1, <1>2, <1>4, <1>5, GotoReply, ThreadsApart

\* The admission or the read thread ends.
LEMMA ThreadEndsReply ==
  ASSUME ServiceInv, ServiceInv', ReplyInv, AdmissionEnds \/ ReadsEnd
  PROVE  ReplyInv'
<1>1. PICK t \in {Admission, Reads} :
        /\ Goto(t, "gone") /\ stage[t] = "idle"
        /\ UNCHANGED <<tbl, lock, batch, sent, dropped, after, replies, recorded>>
  BY DEF AdmissionEnds, ReadsEnd, readerUnchanged, ioVars, hostVars, closeVars
<1>2. OverInv'
  BY <1>1, GotoOver, ThreadsApart
<1>3. stage'[t] = "gone"
  BY <1>1, ThreadsApart DEF ServiceInv, ServiceTypes, StageTypes, Goto
<1>4. Flushing(t)' <=> Flushing(t)
  BY <1>1, <1>3, ThreadsApart DEF Flushing
<1>5. lock' # NoThread \/ Free
  BY <1>1 DEF Free
<1> QED
  BY <1>1, <1>2, <1>4, <1>5, GotoReply, ThreadsApart

\* A handler returns.
LEMMA WorkerReportsReply ==
  ASSUME ServiceInv, ServiceInv', ReplyInv, NEW c \in Calls, NEW o,
         WorkerReports(c, o)
  PROVE  ReplyInv'
<1>1. PICK label :
        /\ Goto(c, label) /\ stage[c] = "run"
        /\ label \in {"reported", "next", "ended"}
        /\ tbl.req[c].type = "Direct" => label # "ended"
        /\ label = "next" => tbl.req[c].type = "Direct"
        /\ UNCHANGED <<tbl, lock, batch, sent, dropped, after, replies, recorded>>
  BY DEF WorkerReports, workerUnchanged, ioVars, hostVars, closeVars
<1>2. OverInv'
  BY <1>1, GotoOver, ThreadsApart
<1>3. stage'[c] = label
  BY <1>1, ThreadsApart DEF ServiceInv, ServiceTypes, StageTypes, Goto
<1>4. Flushing(c)' <=> Flushing(c)
  BY <1>1, <1>3, ThreadsApart DEF Flushing
<1>5. lock' # NoThread \/ Free
  BY <1>1 DEF Free
<1>6. c \in Threads /\ c # Reader
  BY ThreadsApart
<1> QED
  BY <1>1, <1>2, <1>4, <1>5, <1>6, GotoReply

\* `schedule` examines an operation or passes one that has to wait, and what
\* happens outside.
LEMMA PassReply ==
  ASSUME ServiceInv, ServiceInv', ReplyInv,
         \/ \E t \in Threads : ScheduleClear(t) \/ ScheduleBlocked(t)
         \/ ClientCloses
         \/ \E w \in Shared : ForeignWorker(w)
         \/ UNCHANGED vars
  PROVE  ReplyInv'
<1>1. UNCHANGED <<tbl, lock, stage, batch, sent, dropped, after, replies, recorded>>
  BY DEF ScheduleClear, ScheduleBlocked, Stays, ClientCloses, ForeignWorker, vars,
     readerUnchanged, ioVars, hostVars, closeVars
<1> QED
  BY <1>1, StillReply

\* The close goes on: to wait for the workers, past its spools, to its end.
LEMMA CloserIdleReply ==
  ASSUME ServiceInv, ServiceInv', ReplyInv,
         CloseWaited \/ CloseReleasesSpools \/ CloseDrained \/ CloseShuts
  PROVE  ReplyInv'
<1>1. PICK label :
        /\ Goto(Closer, label)
        /\ \/ stage[Closer] = "wait" /\ label = "detach" /\ lock' = Closer
           \/ stage[Closer] = "spools" /\ label = "report" /\ lock' = lock
           \/ stage[Closer] = "drain" /\ label = "shut" /\ lock' = lock
           \/ stage[Closer] = "shut" /\ label = "end" /\ lock' = lock
        /\ UNCHANGED <<tbl, batch, sent, dropped, after, replies, recorded>>
  BY DEF CloseWaited, CloseReleasesSpools, CloseDrained, CloseShuts,
     closerUnchanged, ioVars, hostVars
<1>3. stage'[Closer] = label
  BY <1>1, ThreadsApart DEF ServiceInv, ServiceTypes, StageTypes, Goto
<1>2. OverInv'
  BY <1>1, <1>3 DEF ReplyInv, OverInv, Over, Reported
<1>4. Flushing(Closer)' <=> Flushing(Closer)
  BY <1>1, <1>3, ThreadsApart DEF Flushing
<1>5. lock' # NoThread \/ Free
  BY <1>1, ThreadsApart DEF Free
<1> QED
  BY <1>1, <1>2, <1>4, <1>5, GotoReply, ThreadsApart

-----------------------------------------------------------------------------
(* Steps that change the table in nothing the books see. *)

\* Only the thread `t` goes on, to `label`.
OnlyMoves(t, label) ==
  stage'[t] = label /\ \A v \in Threads \ {t} : stage'[v] = stage[v]

\* A thread that goes on is the only one that does.
LEMMA GotoMoves ==
  ASSUME ServiceInv, NEW t \in Threads, NEW label, Goto(t, label)
  PROVE  OnlyMoves(t, label)
  BY DEF ServiceInv, ServiceTypes, StageTypes, Goto, OnlyMoves

\* The tallies after one thread went on: its batch is counted, or no longer,
\* or as it was.
LEMMA TallyMoves ==
  ASSUME ServiceInv, ReplyInv, NEW t \in Threads, NEW label, OnlyMoves(t, label),
         replies' = replies,
         tbl'.directRunning = tbl.directRunning,
         \A c \in Calls : c <= tbl.high => tbl'.req[c] = tbl.req[c],
         t \in Calls =>
           /\ stage[t] # "none"
           /\ tbl.req[t].type = "Direct" =>
                (label \in {"none", "ended"} <=> stage[t] \in {"none", "ended"})
           /\ label = "next" => tbl.req[t].type = "Direct",
         \/ /\ ~Flushing(t) /\ Flushing(t)'
            /\ tbl'.unflushed = tbl.unflushed + 1
         \/ /\ Flushing(t) /\ ~Flushing(t)'
            /\ tbl'.unflushed = Less(tbl.unflushed, 1)
         \/ /\ Flushing(t)' <=> Flushing(t)
            /\ tbl'.unflushed = tbl.unflushed
  PROVE  TallyInv'
<1>1. stage'[t] = label /\ \A v \in Threads \ {t} : stage'[v] = stage[v]
  BY DEF OnlyMoves
<1>2. \A v \in Threads \ {t} : Flushing(v)' <=> Flushing(v)
  BY <1>1, FlushSame
<1>3. tbl'.unflushed = Cardinality(InFlight')
  BY <1>2, TallyUp, TallyDown, TallyKept DEF ReplyInv
<1>4. ThreadInv /\ TallyInv
  BY DEF ServiceInv, ReplyInv
<1>5. \A c \in Calls :
           \/ stage'[c] = stage[c]
           \/ /\ stage[c] # "none"
              /\ tbl.req[c].type = "Direct" =>
                   (stage'[c] \in {"none", "ended"} <=> stage[c] \in {"none", "ended"})
              /\ stage'[c] = "next" => tbl.req[c].type = "Direct"
  BY <1>1, ThreadsApart
<1>6. DirectInv'
  BY <1>4, <1>5, DirectKept
<1> QED
  BY <1>3, <1>6 DEF TallyInv

\* The same, when no thread goes on.
LEMMA TallyStays ==
  ASSUME ServiceInv, ReplyInv, UNCHANGED <<stage, replies>>,
         tbl'.directRunning = tbl.directRunning, tbl'.unflushed = tbl.unflushed,
         \A c \in Calls : c <= tbl.high => tbl'.req[c] = tbl.req[c]
  PROVE  TallyInv'
<1>1. tbl'.unflushed = Cardinality(InFlight')
  BY FlushSame, TallyKept DEF ReplyInv
<1>2. DirectInv'
  BY DirectKept DEF ServiceInv, ReplyInv
<1> QED
  BY <1>1, <1>2 DEF TallyInv

\* Counters and batch aside, nothing changed.
LEMMA SameQuiet ==
  ASSUME NEW s \in TableType, NEW u \in TableType, Same(s, u), SameLanes(s, u),
         SameIndex(s, u), u.out = s.out
  PROVE  Quiet(s, u)
<1>1. Shorter(u.queue, s.queue)
  BY ShorterSame DEF TableType, Same, SameQueues
<1> QED
  BY <1>1 DEF Quiet, Same, SameCalls, SameBusy, SameFacts, SameTable

\* Counting a batch is quiet.
LEMMA RecountQuiet ==
  ASSUME NEW s \in TableType, NEW n \in Nat
  PROVE  LET u == [s EXCEPT !.unflushed = n] IN
         /\ u \in TableType /\ Quiet(s, u) /\ Same(s, u)
         /\ u.unflushed = n /\ u.out = s.out
<1> DEFINE u == [s EXCEPT !.unflushed = n]
<1>1. u \in TableType /\ Same(s, u) /\ u.out = s.out
  BY Recounted
<1>2. SameLanes(s, u) /\ SameIndex(s, u) /\ u.unflushed = n
  BY DEF TableType, SameLanes, SameIndex
<1> HIDE DEF u
<1>3. Quiet(s, u)
  BY <1>1, <1>2, SameQuiet
<1> QED
  BY <1>1, <1>2, <1>3 DEF u

\* What is quiet brings nothing to life.
LEMMA QuietOver ==
  ASSUME ServiceInv, ReplyInv, Quiet(tbl, tbl'), Steady
  PROVE  OverInv'
  BY OverKept DEF ReplyInv, Quiet, SameFacts, SameWaits, Live, Phase

\* The reading thread counts its batch.
LEMMA CountBatchReply ==
  ASSUME ServiceInv, ServiceInv', ReplyInv, CountBatch
  PROVE  ReplyInv'
<1>0. tbl \in TableType /\ tbl.unflushed \in Nat
  BY DEF ServiceInv, ServiceTypes, TableType
<1>1. /\ stage[Reader] = "popped" /\ Free /\ Goto(Reader, "counted")
      /\ tbl' = [tbl EXCEPT !.unflushed = tbl.unflushed + 1]
      /\ UNCHANGED <<lock, batch, sent, dropped, after, replies, recorded>>
  BY DEF CountBatch, readerUnchanged, ioVars, hostVars, closeVars
<1>2. OnlyMoves(Reader, "counted")
  BY <1>1, GotoMoves, ThreadsApart
<1>3. /\ Quiet(tbl, tbl') /\ Same(tbl, tbl') /\ tbl'.unflushed = tbl.unflushed + 1
      /\ tbl'.out = tbl.out
  BY <1>0, <1>1, RecountQuiet
<1>4. ~Flushing(Reader) /\ Flushing(Reader)'
  BY <1>1, <1>2, ThreadsApart DEF Flushing, OnlyMoves
<1>5. TallyInv'
  BY <1>1, <1>2, <1>3, <1>4, TallyMoves, ThreadsApart
     DEF Same, SameCalls, SameBusy
<1>6. Steady
  BY <1>1, <1>2, <1>3, ThreadsApart DEF Steady, OnlyMoves, Same, SameCalls
<1>7. OverInv'
  BY <1>3, <1>6, QuietOver
<1>8. StaysIn
  BY <1>1, <1>2, <1>3 DEF StaysIn, Kept, OnlyMoves, ReplyInv, PlaceInv, Same,
     SameCalls
<1>9. Hand' = Hand
  BY <1>1, <1>2 DEF Hand, OnlyMoves
<1> QED
  BY <1>3, <1>5, <1>6, <1>7, <1>8, <1>9, QuietStep DEF Steady

\* A batch is sent.
LEMMA FlushDoneReply ==
  ASSUME ServiceInv, ServiceInv', ReplyInv, NEW t \in Threads, FlushDone(t)
  PROVE  ReplyInv'
<1>0. tbl \in TableType /\ tbl.unflushed \in Nat
  BY DEF ServiceInv, ServiceTypes, TableType
<1>1. /\ stage[t] = "send" /\ Free /\ Goto(t, Onward(t)) /\ batch[t] = {}
      /\ tbl' = [tbl EXCEPT !.unflushed = Less(tbl.unflushed, 1)]
      /\ UNCHANGED <<lock, batch, sent, dropped, after, replies, recorded>>
  BY DEF FlushDone, ioVars, hostVars, closeVars
<1>2. PICK label : label = Onward(t)
  OBVIOUS
<1>3. OnlyMoves(t, label)
  BY <1>1, <1>2, GotoMoves
<1>4. Less(tbl.unflushed, 1) \in Nat
  BY <1>0, LessNone
<1>5. /\ Quiet(tbl, tbl') /\ Same(tbl, tbl') /\ tbl'.out = tbl.out
      /\ tbl'.unflushed = Less(tbl.unflushed, 1)
  BY <1>0, <1>1, <1>4, RecountQuiet
<1>6. /\ t = Reader => label \in {"lost", "idle"}
      /\ t \in {Admission, Reads} => label = "idle"
      /\ t = Closer => label = after /\ label \in {"wait", "spools", "drain"}
      /\ t \in Calls => label = IF tbl.req[t].type = "Direct" THEN "next" ELSE "ended"
  BY <1>2, ThreadsApart DEF Onward, ServiceInv, ServiceTypes
<1>7. Flushing(t) /\ ~Flushing(t)'
  BY <1>1, <1>3, <1>6, ThreadsApart DEF Flushing, OnlyMoves
<1>8. TallyInv'
  BY <1>1, <1>3, <1>5, <1>6, <1>7, TallyMoves DEF Same, SameCalls, SameBusy
<1>9. OverInv'
  <2>1. CASE t # Closer
    <3>1. Steady
      BY <1>1, <1>3, <1>5, <2>1, ThreadsApart DEF Steady, OnlyMoves, Same, SameCalls
    <3> QED
      BY <1>5, <3>1, QuietOver
  <2>2. CASE t = Closer
    <3>1. (Over' <=> Over) /\ (Reported' <=> Reported)
      BY <1>1, <1>3, <1>6, <2>2 DEF Over, Reported, OnlyMoves
    <3>2. /\ RunningCalls(tbl') = RunningCalls(tbl) /\ tbl'.held = tbl.held
          /\ tbl'.revoked = tbl.revoked /\ tbl'.ended = tbl.ended
          /\ tbl'.report = tbl.report
      BY <1>5 DEF Same, SameCalls, SameWaits, RunningCalls, Phase
    <3> QED
      BY <1>1, <2>2, <3>1, <3>2 DEF ReplyInv, OverInv
  <2> QED
    BY <2>1, <2>2
<1>10. StaysIn
  BY <1>1, <1>3, <1>5 DEF StaysIn, Kept, OnlyMoves, ReplyInv, PlaceInv, Same,
     SameCalls
<1>11. Hand' = Hand
  BY <1>1, <1>3, <1>5, <1>6, ThreadsApart DEF Hand, OnlyMoves, Same, SameCalls
<1> QED
  BY <1>5, <1>8, <1>9, <1>10, <1>11, QuietStep DEF Same, SameCalls

\* A handler's event passes into its log.
LEMMA WorkerEventReply ==
  ASSUME ServiceInv, ServiceInv', ReplyInv, NEW c \in Calls, WorkerEvent(c)
  PROVE  ReplyInv'
<1>0. tbl \in TableType /\ tbl' \in TableType
  BY DEF ServiceInv, ServiceTypes
<1>1. /\ tbl' = [tbl EXCEPT !.log[c] = @ + 1]
      /\ UNCHANGED <<lock, stage, batch, sent, dropped, after, replies, recorded>>
  BY DEF WorkerEvent, workerUnchanged, ioVars, hostVars, closeVars
<1>2. /\ Same(tbl, tbl') /\ SameLanes(tbl, tbl') /\ SameIndex(tbl, tbl')
      /\ tbl'.out = tbl.out /\ tbl'.unflushed = tbl.unflushed
  BY <1>0, <1>1 DEF TableType, Same, SameCalls, SameQueues, SameBusy, SameWaits,
     SameLanes, SameIndex
<1>3. Quiet(tbl, tbl')
  BY <1>0, <1>2, SameQuiet
<1>4. TallyInv'
  BY <1>1, <1>2, TallyStays DEF Same, SameCalls, SameBusy
<1>5. OverInv'
  BY <1>1, <1>2, <1>3, QuietOver DEF Steady, Same, SameCalls
<1>6. StaysIn
  BY <1>1, <1>2 DEF StaysIn, Kept, ReplyInv, PlaceInv, Free, Same, SameCalls
<1>7. Hand' = Hand
  BY <1>1, <1>2 DEF Hand, Same, SameCalls
<1> QED
  BY <1>2, <1>3, <1>4, <1>5, <1>6, <1>7, QuietStep DEF Same, SameCalls

\* The close begins, or was begun already.
LEMMA CloseBeginsReply ==
  ASSUME ServiceInv, ServiceInv', ReplyInv, NEW spawned \in BOOLEAN,
         CloseBegins(spawned)
  PROVE  ReplyInv'
<1>0. tbl \in TableType /\ tbl' \in TableType /\ stage \in [Threads -> AllStages]
  BY DEF ServiceInv, ServiceTypes, StageTypes
<1> DEFINE next == IF stage[Reader] = "close" THEN "mark" ELSE "gone"
<1>1. /\ stage[Reader] \in {"close", "lost"} /\ Free
      /\ UNCHANGED <<lock, batch, sent, dropped, after, recorded>>
  BY DEF CloseBegins, ioVars, hostVars
<1>2. CASE tbl.closeStarted
  <2>1. Goto(Reader, next) /\ UNCHANGED <<tbl, replies>>
    BY <1>2 DEF CloseBegins
  <2>2. OverInv'
    BY <1>1, <2>1, GotoOver, ThreadsApart
  <2>3. OnlyMoves(Reader, next)
    BY <2>1, GotoMoves, ThreadsApart
  <2>4. Flushing(Reader)' <=> Flushing(Reader)
    BY <1>1, <2>3, ThreadsApart DEF Flushing, OnlyMoves
  <2>5. next # "spool"
    OBVIOUS
  <2> HIDE DEF next
  <2> QED
    BY <1>1, <2>1, <2>2, <2>4, <2>5, GotoReply, ThreadsApart DEF Free
<1>3. CASE ~tbl.closeStarted
  <2> DEFINE to == IF spawned THEN next ELSE "inline"
  <2>1. /\ tbl' = [tbl EXCEPT !.closeStarted = TRUE, !.closing = TRUE]
        /\ replies' = (stage[Reader] = "close")
        /\ stage' = [stage EXCEPT ![Closer] = "start", ![Reader] = to]
    BY <1>3 DEF CloseBegins
  <2>2. stage[Closer] = "none" /\ ~tbl.ended /\ ~tbl.report
    BY <1>3 DEF ServiceInv, CloseInv, ReplyInv, OverInv, Reported
  <2>3. /\ stage'[Reader] = to /\ stage'[Closer] = "start"
        /\ \A v \in Threads \ {Reader, Closer} : stage'[v] = stage[v]
    BY <1>0, <2>1, ThreadsApart
  <2>4. to \in {"mark", "gone", "inline"}
        /\ (to = "mark" => stage[Reader] = "close")
        /\ (to = "gone" => stage[Reader] = "lost")
    BY <1>1
  <2> HIDE DEF to, next
  <2>5. /\ tbl'.high = tbl.high /\ tbl'.req = tbl.req /\ tbl'.rec = tbl.rec
        /\ tbl'.closing /\ SameBusy(tbl, tbl') /\ SameIndex(tbl, tbl')
        /\ SameWaits(tbl, tbl') /\ SameLanes(tbl, tbl') /\ tbl'.queue = tbl.queue
        /\ tbl'.others = tbl.others /\ tbl'.out = tbl.out
        /\ tbl'.unflushed = tbl.unflushed /\ tbl'.revoked = tbl.revoked
        /\ tbl'.ended = tbl.ended /\ tbl'.report = tbl.report
    BY <1>0, <2>1 DEF TableType, SameBusy, SameIndex, SameWaits, SameLanes
  <2>6. Shorter(tbl'.queue, tbl.queue)
    BY <1>0, <2>5, ShorterSame DEF TableType
  <2>7. Quiet(tbl, tbl')
    BY <2>5, <2>6 DEF Quiet, SameFacts, SameTable, SameBusy
  <2>8. \A t \in Threads : Flushing(t)' <=> Flushing(t)
    <3>1. Flushing(Reader)' <=> Flushing(Reader)
      BY <1>1, <2>1, <2>3, <2>4, ThreadsApart DEF Flushing
    <3>2. Flushing(Closer)' <=> Flushing(Closer)
      BY <2>2, <2>3, ThreadsApart DEF Flushing
    <3>3. \A t \in Threads \ {Reader, Closer} : Flushing(t)' <=> Flushing(t)
      BY <2>3 DEF Flushing
    <3> QED
      BY <3>1, <3>2, <3>3
  <2>9. TallyInv'
    <3>1. tbl'.unflushed = Cardinality(InFlight')
      BY <2>5, <2>8, TallyKept DEF ReplyInv
    <3>2. \A c \in Calls : stage'[c] = stage[c]
      BY <2>3, ThreadsApart
    <3>3. DirectInv'
      BY <2>5, <3>2, DirectKept DEF ServiceInv, ReplyInv, SameBusy
    <3> QED
      BY <3>1, <3>3 DEF TallyInv
  <2>10. OverInv'
    BY <1>1, <2>2, <2>3, <2>5 DEF ReplyInv, OverInv, Over, Reported
  <2>11. StaysIn
    BY <1>1, <2>2, <2>3, <2>5 DEF StaysIn, Kept, ReplyInv, PlaceInv
  <2>12. Hand' = Hand
    BY <1>1, <2>3, <2>4 DEF Hand
  <2> QED
    BY <2>5, <2>7, <2>9, <2>10, <2>11, <2>12, QuietStep
<1> QED
  BY <1>2, <1>3

\* The close takes the lock to settle what has not started.
LEMMA CloseEntersReply ==
  ASSUME ServiceInv, ServiceInv', ReplyInv, CloseEnters
  PROVE  ReplyInv'
<1>0. tbl \in TableType /\ tbl' \in TableType
  BY DEF ServiceInv, ServiceTypes
<1>1. /\ stage[Closer] = "start" /\ Goto(Closer, "settle") /\ lock' = Closer
      /\ tbl' = [tbl EXCEPT !.unflushed = @ + 1, !.pending = <<>>]
      /\ UNCHANGED <<batch, sent, dropped, after, replies, recorded>>
  BY DEF CloseEnters, closerUnchanged, ioVars, hostVars
<1>2. OnlyMoves(Closer, "settle")
  BY <1>1, GotoMoves, ThreadsApart
<1>3. /\ tbl'.high = tbl.high /\ tbl'.req = tbl.req /\ tbl'.rec = tbl.rec
      /\ tbl'.closing = tbl.closing /\ SameBusy(tbl, tbl') /\ SameIndex(tbl, tbl')
      /\ SameWaits(tbl, tbl') /\ SameLanes(tbl, tbl') /\ tbl'.queue = tbl.queue
      /\ tbl'.others = tbl.others /\ tbl'.out = tbl.out
      /\ tbl'.unflushed = tbl.unflushed + 1 /\ tbl'.revoked = tbl.revoked
      /\ tbl'.ended = tbl.ended /\ tbl'.report = tbl.report
  BY <1>0, <1>1 DEF TableType, SameBusy, SameIndex, SameWaits, SameLanes
<1>4. Shorter(tbl'.queue, tbl.queue)
  BY <1>0, <1>3, ShorterSame DEF TableType
<1>5. Quiet(tbl, tbl')
  BY <1>3, <1>4 DEF Quiet, SameFacts, SameTable, SameBusy
<1>6. ~Flushing(Closer) /\ Flushing(Closer)'
  BY <1>1, <1>2, ThreadsApart DEF Flushing, OnlyMoves
<1>7. TallyInv'
  BY <1>1, <1>2, <1>3, <1>6, TallyMoves, ThreadsApart DEF SameBusy
<1>8. OverInv'
  BY <1>1, <1>2, <1>3 DEF ReplyInv, OverInv, Over, Reported, OnlyMoves
<1>9. StaysIn
  BY <1>1, <1>2, <1>3, ThreadsApart DEF StaysIn, Kept, OnlyMoves, ReplyInv, PlaceInv
<1>10. Hand' = Hand
  BY <1>2, <1>3, ThreadsApart DEF Hand, OnlyMoves
<1> QED
  BY <1>3, <1>5, <1>7, <1>8, <1>9, <1>10, QuietStep

\* The session ends.
LEMMA CloseEndsReply ==
  ASSUME ServiceInv, ServiceInv', ReplyInv, CloseEnds
  PROVE  ReplyInv'
<1>0. tbl \in TableType /\ tbl' \in TableType
  BY DEF ServiceInv, ServiceTypes
<1>1. /\ stage[Closer] = "end" /\ Goto(Closer, "done") /\ Free
      /\ tbl' = [tbl EXCEPT !.ended = TRUE]
      /\ UNCHANGED <<lock, batch, sent, dropped, after, replies, recorded>>
  BY DEF CloseEnds, closerUnchanged, ioVars, hostVars
<1>2. OnlyMoves(Closer, "done")
  BY <1>1, GotoMoves, ThreadsApart
<1>3. /\ tbl'.high = tbl.high /\ tbl'.req = tbl.req /\ tbl'.rec = tbl.rec
      /\ tbl'.closing = tbl.closing /\ SameBusy(tbl, tbl') /\ SameIndex(tbl, tbl')
      /\ SameWaits(tbl, tbl') /\ SameLanes(tbl, tbl') /\ tbl'.queue = tbl.queue
      /\ tbl'.others = tbl.others /\ tbl'.out = tbl.out
      /\ tbl'.unflushed = tbl.unflushed /\ tbl'.revoked = tbl.revoked
      /\ tbl'.ended /\ tbl'.report = tbl.report
  BY <1>0, <1>1 DEF TableType, SameBusy, SameIndex, SameWaits, SameLanes
<1>4. Shorter(tbl'.queue, tbl.queue)
  BY <1>0, <1>3, ShorterSame DEF TableType
<1>5. Quiet(tbl, tbl')
  BY <1>3, <1>4 DEF Quiet, SameFacts, SameTable, SameBusy
<1>6. Flushing(Closer)' <=> Flushing(Closer)
  BY <1>1, <1>2, ThreadsApart DEF Flushing, OnlyMoves
<1>7. TallyInv'
  BY <1>1, <1>2, <1>3, <1>6, TallyMoves, ThreadsApart DEF SameBusy
<1>8. OverInv'
  <2>1. RunningCalls(tbl') = RunningCalls(tbl) /\ tbl'.held = tbl.held
    BY <1>3 DEF RunningCalls, Phase, SameWaits
  <2> QED
    BY <1>1, <1>2, <1>3, <2>1 DEF ReplyInv, OverInv, Over, Reported, OnlyMoves
<1>9. StaysIn
  BY <1>1, <1>2, <1>3, ThreadsApart DEF StaysIn, Kept, OnlyMoves, ReplyInv, PlaceInv
<1>10. Hand' = Hand
  BY <1>2, <1>3, ThreadsApart DEF Hand, OnlyMoves
<1> QED
  BY <1>3, <1>5, <1>7, <1>8, <1>9, <1>10, QuietStep

\* The admission thread takes a call to resolve.
LEMMA AdmissionPopReply ==
  ASSUME ServiceInv, ServiceInv', ReplyInv, AdmissionPop
  PROVE  ReplyInv'
<1>0. tbl \in TableType /\ tbl' \in TableType
  BY DEF ServiceInv, ServiceTypes
<1>1. /\ stage[Admission] = "idle" /\ Free
      /\ tbl' = [tbl EXCEPT !.pending = Tail(@)]
      /\ Goto(Admission, "resolve") \/ stage' = stage
      /\ UNCHANGED <<lock, batch, sent, dropped, after, replies, recorded>>
  BY DEF AdmissionPop, ioVars, hostVars, closeVars
<1>2. PICK label \in {"idle", "resolve"} : OnlyMoves(Admission, label)
  BY <1>1, GotoMoves, ThreadsApart DEF OnlyMoves
<1>3. /\ tbl'.high = tbl.high /\ tbl'.req = tbl.req /\ tbl'.rec = tbl.rec
      /\ tbl'.closing = tbl.closing /\ SameBusy(tbl, tbl') /\ SameIndex(tbl, tbl')
      /\ SameWaits(tbl, tbl') /\ SameLanes(tbl, tbl') /\ tbl'.queue = tbl.queue
      /\ tbl'.others = tbl.others /\ tbl'.out = tbl.out
      /\ tbl'.unflushed = tbl.unflushed /\ tbl'.revoked = tbl.revoked
      /\ tbl'.ended = tbl.ended /\ tbl'.report = tbl.report
  BY <1>0, <1>1 DEF TableType, SameBusy, SameIndex, SameWaits, SameLanes
<1>4. Shorter(tbl'.queue, tbl.queue)
  BY <1>0, <1>3, ShorterSame DEF TableType
<1>5. Quiet(tbl, tbl')
  BY <1>3, <1>4 DEF Quiet, SameFacts, SameTable, SameBusy
<1>6. Flushing(Admission)' <=> Flushing(Admission)
  BY <1>1, <1>2, ThreadsApart DEF Flushing, OnlyMoves
<1>7. TallyInv'
  BY <1>1, <1>2, <1>3, <1>6, TallyMoves, ThreadsApart DEF SameBusy
<1>8. OverInv'
  BY <1>1, <1>2, <1>3, <1>5, QuietOver, ThreadsApart DEF Steady, OnlyMoves
<1>9. StaysIn
  BY <1>1, <1>2, <1>3, ThreadsApart DEF StaysIn, Kept, OnlyMoves, ReplyInv, PlaceInv
<1>10. Hand' = Hand
  BY <1>2, <1>3, ThreadsApart DEF Hand, OnlyMoves
<1> QED
  BY <1>3, <1>5, <1>7, <1>8, <1>9, <1>10, QuietStep

\* `schedule` takes an entry out of the queue.
LEMMA UnqueuedFacts ==
  ASSUME ServiceInv, NEW t \in Threads, Scanning(t), NEW u, u = Unqueued
  PROVE  /\ u \in TableType /\ Quiet(tbl, u) /\ u.unflushed = tbl.unflushed
         /\ SameCalls(tbl, u) /\ SameBusy(tbl, u) /\ SameWaits(tbl, u)
<1>1. tbl \in TableType /\ TableInv(tbl, NoCall)
  BY DEF ServiceInv, ServiceTypes
<1>2. scan.i \in 1 .. Len(tbl.queue)
  BY ScanFacts DEF Scanning
<1>3. u = [tbl EXCEPT !.queue = Drop(@, scan.i)]
  BY DEF Unqueued
<1>4. u \in TableType /\ Quiet(tbl, u) /\ u.unflushed = tbl.unflushed
  BY <1>1, <1>2, <1>3, UnqueuedQuiet
<1>5. SameCalls(tbl, u) /\ SameBusy(tbl, u) /\ SameWaits(tbl, u)
  BY CandidateFacts
<1> QED
  BY <1>4, <1>5

\* An entry whose record is gone leaves the queue.
LEMMA ScheduleSkipReply ==
  ASSUME ServiceInv, ServiceInv', ReplyInv, NEW t \in Threads, ScheduleSkip(t)
  PROVE  ReplyInv'
<1>1. /\ Scanning(t) /\ tbl' = Unqueued /\ lock = t
      /\ UNCHANGED <<lock, stage, batch, sent, dropped, after, replies, recorded>>
  BY DEF ScheduleSkip, Scanning, Stays, readerUnchanged, ioVars, hostVars, closeVars
<1>2. /\ Quiet(tbl, tbl') /\ tbl'.unflushed = tbl.unflushed
      /\ SameCalls(tbl, tbl') /\ SameBusy(tbl, tbl')
  BY <1>1, UnqueuedFacts
<1>3. TallyInv'
  BY <1>1, <1>2, TallyStays DEF SameCalls, SameBusy
<1>4. OverInv'
  BY <1>1, <1>2, QuietOver DEF Steady, SameCalls
<1>5. StaysIn
  BY <1>1, <1>2, ThreadsApart DEF StaysIn, Kept, SameCalls
<1>6. Hand' = Hand
  BY <1>1, <1>2 DEF Hand, SameCalls
<1> QED
  BY <1>2, <1>3, <1>4, <1>5, <1>6, QuietStep DEF SameCalls

-----------------------------------------------------------------------------
(* Steps that settle, start or admit under the lock. *)

\* A step that goes on under the lock and brings nothing to life.
LEMMA LiveReply ==
  ASSUME ServiceInv, ServiceInv', ReplyInv, StaysIn,
         Books(tbl', Hand), Moves(tbl, tbl', Hand, Hand), News(tbl, tbl'),
         tbl'.high = tbl.high, Steady, TallyInv',
         stage'[Reader] = "spool" <=> stage[Reader] = "spool",
         \A c \in Calls : Live(tbl', c) => Live(tbl, c),
         tbl'.held \subseteq tbl.held
  PROVE  ReplyInv'
<1>1. OverInv'
  BY OverKept DEF ReplyInv
<1>2. Hand' = Hand /\ Hand \subseteq Calls
  BY TableFacts DEF Hand
<1> HIDE DEF Hand
<1> QED
  BY <1>1, <1>2, StayStep DEF Steady

\* What the books know of a settlement, and what lives after it.
Settles(s, v, X) ==
  /\ v \in TableType /\ TableInv(v, NoCall) /\ Books(v, X)
  /\ Moves(s, v, X, X) /\ Plainly(s, v) /\ v.unflushed = s.unflushed
  /\ SameCalls(s, v) /\ v.held = s.held /\ v.directRunning = s.directRunning
  /\ \A d \in Calls : Live(v, d) => Live(s, d)

\* `settle` moves what is due as said.
LEMMA SettleMoves ==
  ASSUME NEW s \in TableType, NEW c \in Calls,
         NEW outcome \in Outcomes \ {"None"}, TableInv(s, c),
         NEW X \in SUBSET Calls, Books(s, X), s.closing \/ ~InSeq(c, s.queue),
         NEW v, v = Settle(s, c, outcome)
  PROVE  Settles(s, v, X)
<1>1. /\ v \in TableType /\ TableInv(v, NoCall)
      /\ SameCalls(s, v) /\ SameQueues(s, v) /\ SameWaits(s, v)
      /\ v.directRunning = s.directRunning
      /\ \A d \in Calls \ {c} : v.rec[d] = s.rec[d]
      /\ Phase(v, c) \in {"None", "Terminal"}
  BY SettleLeaves
<1>2. /\ Books(v, X) /\ Moves(s, v, X, X) /\ Plainly(s, v)
      /\ v.unflushed = s.unflushed
  BY SettleBooks
<1>3. \A d \in Calls : Live(v, d) => Live(s, d)
  BY <1>1 DEF Live, Phase
<1> QED
  BY <1>1, <1>2, <1>3 DEF Settles, SameWaits

\* After a quiet change, a settlement or a start is still one of the first table.
LEMMA QuietThen ==
  ASSUME NEW s \in TableType, NEW t \in TableType, NEW v, NEW X, Quiet(s, t),
         Books(s, X), Moves(t, v, X, X)
  PROVE  /\ Moves(s, v, X, X) /\ (Plainly(t, v) => Plainly(s, v))
         /\ \A d \in Calls : Live(t, d) <=> Live(s, d)
         /\ News(t, v) => News(s, v)
<1>1. Moves(s, t, X, X) /\ Plainly(s, t)
  BY QuietMoves
<1>2. Moves(s, v, X, X) /\ (Plainly(t, v) => Plainly(s, v))
  BY <1>1, MovesThen DEF Quiet
<1>3. \A d \in Calls : Live(t, d) <=> Live(s, d)
  BY DEF Quiet, SameFacts, Live, Phase
<1>4. News(t, v) => News(s, v)
  BY DEF Quiet, News, SameFacts
<1> QED
  BY <1>2, <1>3, <1>4

\* A quiet change and then a settlement.
LEMMA SettlesThen ==
  ASSUME NEW s \in TableType, NEW t \in TableType, NEW v, NEW X, Quiet(s, t),
         Books(s, X), Settles(t, v, X)
  PROVE  /\ Books(v, X) /\ Moves(s, v, X, X) /\ News(s, v) /\ Plainly(s, v)
         /\ v.unflushed = t.unflushed /\ v.high = s.high /\ v.req = s.req
         /\ v.held = s.held
         /\ \A d \in Calls : Live(v, d) => Live(s, d)
<1>1. Moves(s, v, X, X) /\ Plainly(s, v) /\ \A d \in Calls : Live(t, d) <=> Live(s, d)
  BY QuietThen DEF Settles
<1>2. News(s, v)
  BY <1>1, PlainNews
<1> QED
  BY <1>1, <1>2 DEF Settles, Quiet, SameTable, SameWaits, SameCalls

\* A write or push beside a detached worker is refused.
LEMMA ScheduleBusyReply ==
  ASSUME ServiceInv, ServiceInv', ReplyInv, NEW t \in Threads, ScheduleBusy(t)
  PROVE  ReplyInv'
<1>0. /\ tbl \in TableType /\ Books(tbl, Hand) /\ Hand \in SUBSET Calls
  BY TableFacts
<1>1. /\ Scanning(t) /\ tbl' = Settle(Unqueued, Candidate, "Failed") /\ lock = t
      /\ UNCHANGED <<lock, stage, batch, sent, dropped, after, replies, recorded>>
  BY DEF ScheduleBusy, Unexamined, Scanning, Stays, readerUnchanged, ioVars,
     hostVars, closeVars
<1>2. PICK c : c = Candidate
  OBVIOUS
<1>3. PICK u : u = Unqueued
  OBVIOUS
<1>4. /\ u \in TableType /\ TableInv(u, c) /\ c \in Calls /\ ~InSeq(c, u.queue)
  BY <1>1, <1>2, <1>3, CandidateFacts
<1>5. /\ Quiet(tbl, u) /\ u.unflushed = tbl.unflushed /\ SameCalls(tbl, u)
      /\ SameBusy(tbl, u)
  BY <1>1, <1>3, UnqueuedFacts
<1>6. "Failed" \in Outcomes \ {"None"}
  BY DEF Outcomes
<1> HIDE DEF Hand
<1>7. Books(u, Hand)
  BY <1>0, <1>4, <1>5, QuietMoves
<1>8. Settles(u, tbl', Hand)
  BY <1>0, <1>1, <1>2, <1>3, <1>4, <1>6, <1>7, SettleMoves
<1>9. /\ Books(tbl', Hand) /\ Moves(tbl, tbl', Hand, Hand) /\ News(tbl, tbl')
      /\ tbl'.unflushed = tbl.unflushed /\ tbl'.high = tbl.high
      /\ tbl'.req = tbl.req /\ tbl'.held = tbl.held
      /\ \A d \in Calls : Live(tbl', d) => Live(tbl, d)
  BY <1>0, <1>4, <1>5, <1>8, SettlesThen
<1>10. Steady /\ tbl'.directRunning = tbl.directRunning
  BY <1>1, <1>5, <1>8 DEF Steady, Settles, SameCalls, SameBusy
<1>11. TallyInv'
  BY <1>1, <1>9, <1>10, TallyStays
<1>12. StaysIn
  BY <1>1, <1>10, ThreadsApart DEF StaysIn, Kept, Steady
<1> QED
  BY <1>1, <1>9, <1>10, <1>11, <1>12, LiveReply

\* A thread that starts for an operation is no direct worker.
LEMMA DirectStays ==
  ASSUME ReplyInv, tbl'.req = tbl.req, tbl'.directRunning = tbl.directRunning,
         \A d \in Calls : \/ stage'[d] = stage[d]
                          \/ tbl.req[d].type # "Direct" /\ stage'[d] # "next"
  PROVE  DirectInv'
<1>1. DirectThreads' = DirectThreads
  BY DEF DirectThreads
<1> QED
  BY <1>1 DEF ReplyInv, TallyInv, DirectInv

\* An operation starts on a worker, or fails for want of one.
LEMMA ScheduleStartReply ==
  ASSUME ServiceInv, ServiceInv', ReplyInv, NEW t \in Threads,
         NEW spawned \in BOOLEAN, ScheduleStart(t, spawned)
  PROVE  ReplyInv'
<1>0. /\ tbl \in TableType /\ Books(tbl, Hand) /\ Hand \in SUBSET Calls
      /\ stage \in [Threads -> AllStages] /\ TableInv(tbl, NoCall)
  BY TableFacts DEF ServiceInv, ServiceTypes, StageTypes
<1>2. PICK c : c = Candidate
  OBVIOUS
<1>3. PICK u : u = Unqueued
  OBVIOUS
<1>1. PICK v : v = Take(ChangeBusy(u, c, 1), c)
  OBVIOUS
<1>4. /\ Scanning(t) /\ lock = t
      /\ \/ tbl' = v
         \/ CanTake(tbl, c) /\ tbl' = Settle(v, c, "Failed")
      /\ stage' = stage \/ (CanTake(tbl, c) /\ stage' = [stage EXCEPT ![c] = "run"])
      /\ UNCHANGED <<lock, batch, sent, dropped, after, replies, recorded>>
  <2>1. /\ Scanning(t) /\ lock = t
        /\ UNCHANGED <<lock, batch, sent, dropped, after, replies, recorded>>
    BY DEF ScheduleStart, Examined, Scanning, Stays, readerUnchanged, ioVars,
       hostVars, closeVars
  <2>2. tbl' = IF CanTake(tbl, c) /\ ~spawned
               THEN Settle(Take(ChangeBusy(u, c, 1), c), c, "Failed")
               ELSE Take(ChangeBusy(u, c, 1), c)
    BY <1>2, <1>3 DEF ScheduleStart
  <2>3. stage' = IF CanTake(tbl, c) /\ spawned
                 THEN [stage EXCEPT ![c] = "run"] ELSE stage
    BY <1>2 DEF ScheduleStart
  <2>4. \/ tbl' = v
        \/ CanTake(tbl, c) /\ tbl' = Settle(v, c, "Failed")
    BY <1>1, <2>2, Zenon
  <2>5. stage' = stage \/ (CanTake(tbl, c) /\ stage' = [stage EXCEPT ![c] = "run"])
    BY <2>3, Zenon
  <2> QED
    BY <2>1, <2>4, <2>5, Zenon
<1>5. /\ u \in TableType /\ TableInv(u, c) /\ c \in Calls /\ ~InSeq(c, u.queue)
      /\ u.rec = tbl.rec /\ SameCalls(tbl, u) /\ SameBusy(tbl, u)
      /\ SameWaits(tbl, u)
      /\ IsOperation(tbl.req[c]) /\ Phase(tbl, c) \in {"None", "Queued", "Terminal"}
  BY <1>2, <1>3, <1>4, CandidateFacts
<1>6. Quiet(tbl, u) /\ u.unflushed = tbl.unflushed
  BY <1>3, <1>4, UnqueuedFacts
<1> HIDE DEF Hand
<1>7. Books(u, Hand)
  BY <1>0, <1>5, <1>6, QuietMoves
<1>8. IsOperation(u.req[c]) /\ u.running < RunningLimit
  BY <1>4, <1>5 DEF SameCalls, SameBusy, Scanning
<1>9. u.closing \/ Phase(u, c) = "Queued"
  <2>1. scan.i \in 1 .. Len(tbl.queue)
    BY <1>4, ScanFacts DEF Scanning
  <2>2. ~tbl.closing => Phase(tbl, c) = "Queued"
    BY <1>0, <1>2, <2>1 DEF Books, RunInv, Candidate
  <2> QED
    BY <1>5, <2>2 DEF Phase, SameCalls
<1>10. u.rec[c].phase \in {"None", "Queued", "Terminal"}
       /\ (u.rec[c].phase = "Queued" => u.rec[c].resolved)
  BY <1>5 DEF Phase, TableInv, RecordInv
<1>11. Started(u, v, c) /\ v.unflushed = u.unflushed
  BY <1>1, <1>5, <1>8, StartFields
<1>12. Books(v, Hand) /\ Moves(u, v, Hand, Hand) /\ Plainly(u, v)
  BY <1>5, <1>7, <1>8, <1>9, <1>10, <1>11, StartBooks
<1>13. /\ v \in TableType /\ TableInv(v, NoCall)
       /\ SameCalls(u, v) /\ SameQueues(u, v) /\ SameWaits(u, v)
       /\ v.directRunning = u.directRunning
       /\ \A d \in Calls \ {c} : v.rec[d] = u.rec[d]
       /\ Phase(v, c) = IF CanTake(u, c) THEN "Running" ELSE Phase(u, c)
  BY <1>1, <1>5, <1>8, StartKeeps
<1>14. /\ Moves(tbl, v, Hand, Hand) /\ Plainly(tbl, v)
       /\ \A d \in Calls : Live(u, d) <=> Live(tbl, d)
  BY <1>0, <1>5, <1>6, <1>12, QuietThen
<1>15. CanTake(u, c) => Live(u, c)
  BY <1>5 DEF CanTake, Live, Phase, TableInv, RecordInv
<1>16. \A d \in Calls : Live(v, d) => Live(tbl, d)
  BY <1>13, <1>14, <1>15 DEF Live, Phase
<1>17. Settles(tbl, v, Hand)
  <2>1. /\ SameCalls(tbl, v) /\ v.held = tbl.held /\ v.unflushed = tbl.unflushed
        /\ v.directRunning = tbl.directRunning
    BY <1>5, <1>6, <1>11, <1>13 DEF SameCalls, SameWaits, SameBusy
  <2> QED
    BY <1>12, <1>13, <1>14, <1>16, <2>1 DEF Settles
<1>18. Settles(tbl, tbl', Hand)
  <2>1. CASE tbl' = v
    BY <1>17, <2>1
  <2>2. CASE CanTake(tbl, c) /\ tbl' = Settle(v, c, "Failed")
    <3>1. "Failed" \in Outcomes \ {"None"}
      BY DEF Outcomes
    <3>2. TableInv(v, c) /\ ~InSeq(c, v.queue)
      BY <1>5, <1>13, CallsNat DEF TableInv, PlacedInv, SameQueues, NoCall
    <3>3. Settles(v, tbl', Hand)
      BY <1>0, <1>5, <1>12, <1>13, <2>2, <3>1, <3>2, SettleMoves
    <3>4. Moves(tbl, tbl', Hand, Hand) /\ Plainly(tbl, tbl')
      <4>1. \A d \in Hand : d \in Calls /\ Live(tbl', d) => Live(v, d)
        BY <3>3 DEF Settles
      <4> QED
        BY <1>17, <3>3, <4>1, MovesThen DEF Settles
    <3> QED
      BY <1>17, <3>3, <3>4 DEF Settles, SameCalls
  <2> QED
    BY <1>4, <2>1, <2>2
<1>19. /\ tbl'.high = tbl.high /\ tbl'.req = tbl.req /\ News(tbl, tbl')
  BY <1>18, PlainNews DEF Settles, SameCalls
<1>20. /\ \A d \in Threads \ {c} : stage'[d] = stage[d]
       /\ stage'[c] = stage[c] \/ (stage'[c] = "run" /\ stage[c] = "none")
  <2>1. CanTake(tbl, c) => stage[c] = "none"
    BY <1>5 DEF CanTake, ServiceInv, TableInv, RecordInv, ThreadInv, Phase
  <2>2. CASE stage' = stage
    BY <2>2, Zenon
  <2>3. CASE CanTake(tbl, c) /\ stage' = [stage EXCEPT ![c] = "run"]
    BY <1>0, <1>5, <2>1, <2>3, ThreadsApart
  <2> QED
    BY <1>4, <2>2, <2>3
<1>21. DirectInv'
  <2>1. \A d \in Calls : \/ stage'[d] = stage[d]
                         \/ tbl.req[d].type # "Direct" /\ stage'[d] # "next"
    BY <1>5, <1>20, ThreadsApart DEF IsOperation
  <2> QED
    BY <1>18, <1>19, <2>1, DirectStays DEF Settles
<1>22. tbl'.unflushed = Cardinality(InFlight')
  <2>1. \A d \in Threads \ {c} : Flushing(d)' <=> Flushing(d)
    BY <1>4, <1>20, FlushSame
  <2>2. Flushing(c)' <=> Flushing(c)
    BY <1>4, <1>5, <1>20, ThreadsApart DEF Flushing
  <2>3. tbl'.unflushed = tbl.unflushed
    BY <1>18 DEF Settles
  <2> QED
    BY <2>1, <2>2, <2>3, TallyKept DEF ReplyInv
<1>23. TallyInv'
  BY <1>21, <1>22 DEF TallyInv
<1>24. Steady
  BY <1>4, <1>5, <1>18, <1>20, ThreadsApart DEF Steady, Settles, SameCalls
<1>25. StaysIn
  BY <1>4, <1>20, <1>24, ThreadsApart
     DEF StaysIn, Kept, ReplyInv, PlaceInv, Steady
<1>26. stage'[Reader] = "spool" <=> stage[Reader] = "spool"
  BY <1>5, <1>20, ThreadsApart
<1> QED
  BY <1>18, <1>19, <1>23, <1>24, <1>25, <1>26, LiveReply DEF Settles

\* A quiet change after others.
LEMMA ThenQuiet ==
  ASSUME NEW s, NEW t \in TableType, NEW v \in TableType, NEW X, Books(t, X),
         Moves(s, t, X, X), Plainly(s, t), Quiet(t, v)
  PROVE  /\ Books(v, X) /\ Moves(s, v, X, X) /\ Plainly(s, v)
         /\ \A d \in Calls : Live(v, d) <=> Live(t, d)
<1>1. Books(v, X) /\ Moves(t, v, X, X) /\ Plainly(t, v)
  BY QuietMoves
<1>2. \A d \in Calls : Live(v, d) <=> Live(t, d)
  BY DEF Quiet, SameFacts, Live, Phase
<1>3. Moves(s, v, X, X) /\ Plainly(s, v)
  BY <1>1, <1>2, MovesThen
<1> QED
  BY <1>1, <1>2, <1>3

\* Counting the direct workers is quiet.
LEMMA DirectQuiet ==
  ASSUME NEW s \in TableType, NEW n \in Nat
  PROVE  LET u == [s EXCEPT !.directRunning = n] IN
         /\ u \in TableType /\ Quiet(s, u) /\ SameCalls(s, u) /\ SameWaits(s, u)
         /\ u.unflushed = s.unflushed /\ u.directRunning = n
<1> DEFINE u == [s EXCEPT !.directRunning = n]
<1>1. /\ u \in TableType /\ SameCalls(s, u) /\ SameWaits(s, u)
      /\ u.unflushed = s.unflushed /\ u.directRunning = n /\ u.rec = s.rec
      /\ u.queue = s.queue /\ u.others = s.others /\ u.out = s.out
      /\ SameLanes(s, u) /\ SameIndex(s, u) /\ u.busy = s.busy
      /\ u.running = s.running
  BY DEF TableType, SameCalls, SameWaits, SameLanes, SameIndex
<1> HIDE DEF u
<1>2. Shorter(u.queue, s.queue)
  BY <1>1, ShorterSame DEF TableType
<1>3. Quiet(s, u)
  BY <1>1, <1>2 DEF Quiet, SameFacts, SameTable, SameCalls
<1> QED
  BY <1>1, <1>3 DEF u

\* A direct call is taken: it lived before.
LEMMA TakesDirect ==
  ASSUME ServiceInv, ReplyInv, NEW u, u = TakeDirect(tbl), NEW c, c = NextDirect(tbl)
  PROVE  /\ Settles(tbl, u, Hand)
         /\ c # NoCall =>
              /\ c \in Calls /\ tbl.req[c].type = "Direct" /\ stage[c] = "none"
<1>0. /\ tbl \in TableType /\ Books(tbl, Hand) /\ Hand \in SUBSET Calls
      /\ TableInv(tbl, NoCall)
  BY TableFacts
<1> HIDE DEF Hand
<1>1. /\ u \in TableType /\ TableInv(u, NoCall)
      /\ SameCalls(tbl, u) /\ SameBusy(tbl, u) /\ SameWaits(tbl, u)
      /\ c = NoCall => u.rec = tbl.rec
      /\ c # NoCall =>
           /\ c \in Calls /\ Phase(tbl, c) = "DirectWaiting"
           /\ ~IsOperation(tbl.req[c])
           /\ \A d \in Calls \ {c} : u.rec[d] = tbl.rec[d]
  BY <1>0, TakeDirectKeeps
<1>2. /\ Books(u, Hand) /\ Moves(tbl, u, Hand, Hand) /\ Plainly(tbl, u)
      /\ u.unflushed = tbl.unflushed
  BY <1>0, TakeDirectBooks
<1>3. \A d \in Calls : Live(u, d) => Live(tbl, d)
  BY <1>1 DEF Live, Phase
<1>4. c # NoCall => tbl.req[c].type = "Direct" /\ stage[c] = "none"
  <2>1. c # NoCall => tbl.req[c].type \in {"Direct", "Operation"}
    BY <1>0, <1>1 DEF Books, KindInv, Phase
  <2> QED
    BY <1>1, <2>1 DEF IsOperation, ServiceInv, ThreadInv
<1> QED
  BY <1>1, <1>2, <1>3, <1>4 DEF Settles, SameWaits, SameBusy

\* A direct worker starts, or its call fails for want of one.
LEMMA ScheduleDirectReply ==
  ASSUME ServiceInv, ServiceInv', ReplyInv, NEW t \in Threads,
         NEW spawned \in BOOLEAN, ScheduleDirect(t, spawned)
  PROVE  ReplyInv'
<1>0. /\ tbl \in TableType /\ Books(tbl, Hand) /\ Hand \in SUBSET Calls
      /\ stage \in [Threads -> AllStages] /\ tbl.directRunning \in Nat
  BY TableFacts DEF ServiceInv, ServiceTypes, StageTypes, TableType
<1>1. PICK c : c = NextDirect(tbl)
  OBVIOUS
<1>2. PICK u : u = TakeDirect(tbl)
  OBVIOUS
<1>3. /\ Scanned(t) /\ lock = t
      /\ UNCHANGED <<lock, batch, sent, dropped, after, replies, recorded>>
  BY DEF ScheduleDirect, Scanned, Stays, readerUnchanged, ioVars, hostVars, closeVars
<1>4. tbl' = IF c = NoCall THEN u
             ELSE IF spawned THEN [u EXCEPT !.directRunning = @ + 1]
             ELSE Settle(u, c, "Failed")
  BY <1>1, <1>2 DEF ScheduleDirect
<1>5. stage' = IF c # NoCall /\ spawned
               THEN [stage EXCEPT ![c] = "run"] ELSE stage
  BY <1>1 DEF ScheduleDirect
<1> HIDE DEF Hand
<1>6. /\ Settles(tbl, u, Hand)
      /\ c # NoCall =>
           /\ c \in Calls /\ tbl.req[c].type = "Direct" /\ stage[c] = "none"
  BY <1>1, <1>2, TakesDirect
<1>7. CASE c = NoCall \/ ~spawned
  <2>1. stage' = stage
    BY <1>5, <1>7
  <2>2. Settles(tbl, tbl', Hand)
    <3>1. CASE c = NoCall
      BY <1>4, <1>6, <3>1
    <3>2. CASE c # NoCall
      <4>1. "Failed" \in Outcomes \ {"None"} /\ c \in Calls
        BY <1>6, <3>2 DEF Outcomes
      <4>2. /\ u \in TableType /\ TableInv(u, c) /\ Books(u, Hand)
            /\ ~InSeq(c, u.queue)
        <5>1. TableInv(u, NoCall) /\ u \in TableType /\ SameCalls(tbl, u)
          BY <1>6 DEF Settles
        <5>2. \A i \in 1 .. Len(u.queue) : IsOperation(u.req[u.queue[i]])
          BY <5>1 DEF TableInv, LinesInv
        <5> QED
          BY <1>6, <3>2, <5>1, <5>2, CallsNat
             DEF Settles, TableInv, PlacedInv, NoCall, InSeq, SameCalls, IsOperation
      <4>3. tbl' = Settle(u, c, "Failed")
        BY <1>4, <1>7, <3>2
      <4>4. Settles(u, tbl', Hand)
        BY <1>0, <4>1, <4>2, <4>3, SettleMoves
      <4>5. Moves(tbl, tbl', Hand, Hand) /\ Plainly(tbl, tbl')
        <5>1. \A d \in Hand : d \in Calls /\ Live(tbl', d) => Live(u, d)
          BY <4>4 DEF Settles
        <5> QED
          BY <1>6, <4>4, <5>1, MovesThen DEF Settles
      <4> QED
        BY <1>6, <4>4, <4>5 DEF Settles, SameCalls
    <3> QED
      BY <3>1, <3>2
  <2>3. /\ tbl'.high = tbl.high /\ tbl'.req = tbl.req /\ News(tbl, tbl')
    BY <2>2, PlainNews DEF Settles, SameCalls
  <2>4. TallyInv'
    BY <1>3, <2>1, <2>2, <2>3, TallyStays DEF Settles
  <2>5. Steady
    BY <1>3, <2>1, <2>2 DEF Steady, Settles, SameCalls
  <2>6. StaysIn
    BY <1>3, <2>1, <2>5, ThreadsApart DEF StaysIn, Kept, Steady
  <2> QED
    BY <2>1, <2>2, <2>3, <2>4, <2>5, <2>6, LiveReply DEF Settles
<1>8. CASE c # NoCall /\ spawned
  <2>1. /\ stage'[c] = "run" /\ \A d \in Threads \ {c} : stage'[d] = stage[d]
        /\ c \in Calls /\ c \in Threads
    BY <1>0, <1>5, <1>6, <1>8, ThreadsApart
  <2>2. /\ u \in TableType /\ u.directRunning = tbl.directRunning
        /\ u.directRunning + 1 \in Nat
    BY <1>0, <1>6 DEF Settles
  <2>3. /\ tbl' \in TableType /\ Quiet(u, tbl') /\ SameCalls(u, tbl')
        /\ SameWaits(u, tbl') /\ tbl'.unflushed = u.unflushed
        /\ tbl'.directRunning = tbl.directRunning + 1
    BY <1>4, <1>8, <2>2, DirectQuiet
  <2>4. /\ Books(tbl', Hand) /\ Moves(tbl, tbl', Hand, Hand) /\ Plainly(tbl, tbl')
        /\ \A d \in Calls : Live(tbl', d) <=> Live(u, d)
    BY <1>6, <2>3, ThenQuiet DEF Settles
  <2>5. /\ SameCalls(tbl, tbl') /\ tbl'.held = tbl.held
        /\ tbl'.unflushed = tbl.unflushed
    BY <1>6, <2>3 DEF Settles, SameCalls, SameWaits
  <2>6. tbl'.unflushed = Cardinality(InFlight')
    <3>1. \A d \in Threads \ {c} : Flushing(d)' <=> Flushing(d)
      BY <1>3, <2>1, FlushSame
    <3>2. Flushing(c)' <=> Flushing(c)
      BY <1>6, <1>8, <2>1, ThreadsApart DEF Flushing
    <3> QED
      BY <2>5, <3>1, <3>2, TallyKept DEF ReplyInv
  <2>7. DirectInv'
    <3>1. DirectThreads' = DirectThreads \cup {c}
      BY <1>6, <1>8, <2>1, <2>5, ThreadsApart DEF DirectThreads, SameCalls
    <3>2. DirectThreads \in SUBSET Calls /\ c \notin DirectThreads
      BY <1>6, <1>8 DEF DirectThreads
    <3>3. Cardinality(DirectThreads \cup {c}) = Cardinality(DirectThreads) + 1
      BY <2>1, <3>2, CountMore
    <3>4. tbl.directRunning = Cardinality(DirectThreads)
          /\ \A d \in Calls : stage[d] = "next" => tbl.req[d].type = "Direct"
      BY DEF ReplyInv, TallyInv, DirectInv
    <3>5. \A d \in Calls : stage'[d] = "next" => tbl'.req[d].type = "Direct"
      BY <2>1, <2>5, <3>4, ThreadsApart DEF SameCalls
    <3> QED
      BY <2>3, <3>1, <3>3, <3>4, <3>5 DEF DirectInv
  <2>8. TallyInv'
    BY <2>6, <2>7 DEF TallyInv
  <2>9. Steady
    BY <1>3, <2>1, <2>5, ThreadsApart DEF Steady, SameCalls
  <2>10. StaysIn
    <3>1. Kept
      BY <1>6, <1>8, <2>1 DEF Kept, ReplyInv, PlaceInv
    <3> QED
      BY <1>3, <2>9, <3>1, ThreadsApart DEF StaysIn, Steady
  <2>11. \A d \in Calls : Live(tbl', d) => Live(tbl, d)
    BY <1>6, <2>4 DEF Settles
  <2>12. News(tbl, tbl') /\ tbl'.high = tbl.high
    BY <2>4, <2>5, PlainNews DEF SameCalls
  <2>13. stage'[Reader] = "spool" <=> stage[Reader] = "spool"
    BY <2>1, ThreadsApart
  <2> QED
    BY <2>4, <2>5, <2>8, <2>9, <2>10, <2>11, <2>12, <2>13, LiveReply
<1> QED
  BY <1>7, <1>8

\* A direct worker takes the next direct call, or ends.
LEMMA DirectNextReply ==
  ASSUME ServiceInv, ServiceInv', ReplyInv, NEW c \in Calls, DirectNext(c)
  PROVE  ReplyInv'
<1>0. /\ tbl \in TableType /\ Books(tbl, Hand) /\ Hand \in SUBSET Calls
      /\ tbl.directRunning \in Nat
  BY TableFacts DEF TableType
<1>1. PICK d : d = NextDirect(tbl)
  OBVIOUS
<1>2. PICK u : u = TakeDirect(tbl)
  OBVIOUS
<1>3. /\ stage[c] = "next" /\ Free
      /\ UNCHANGED <<lock, batch, sent, dropped, after, replies, recorded>>
  BY DEF DirectNext, workerUnchanged, ioVars, hostVars, closeVars
<1>4. tbl' = IF d # NoCall THEN u ELSE [u EXCEPT !.directRunning = Less(@, 1)]
  BY <1>1, <1>2 DEF DirectNext
<1>5. stage' = [t \in Threads |-> IF t = c THEN "ended"
                                   ELSE IF t = d /\ d # NoCall THEN "run"
                                   ELSE stage[t]]
  BY <1>1 DEF DirectNext
<1> HIDE DEF Hand
<1>6. /\ Settles(tbl, u, Hand)
      /\ d # NoCall =>
           /\ d \in Calls /\ tbl.req[d].type = "Direct" /\ stage[d] = "none"
  BY <1>1, <1>2, TakesDirect
<1>7. /\ c \in Threads /\ stage'[c] = "ended" /\ NoCall = Reader
      /\ d # NoCall => stage'[d] = "run" /\ d # c
      /\ \A t \in Threads \ {c, d} : stage'[t] = stage[t]
      /\ d = NoCall => \A t \in Threads \ {c} : stage'[t] = stage[t]
      /\ \A t \in Threads \ Calls : stage'[t] = stage[t]
  BY <1>3, <1>5, <1>6, ThreadsApart DEF NoCall, Reader
<1>8. /\ tbl' \in TableType /\ SameCalls(tbl, tbl') /\ tbl'.held = tbl.held
      /\ Books(tbl', Hand) /\ Moves(tbl, tbl', Hand, Hand) /\ Plainly(tbl, tbl')
      /\ \A e \in Calls : Live(tbl', e) => Live(tbl, e)
      /\ tbl'.unflushed = tbl.unflushed
      /\ tbl'.directRunning = IF d # NoCall THEN tbl.directRunning
                              ELSE Less(tbl.directRunning, 1)
  <2>1. CASE d # NoCall
    BY <1>4, <1>6, <2>1 DEF Settles
  <2>2. CASE d = NoCall
    <3>1. /\ u \in TableType /\ u.directRunning = tbl.directRunning
          /\ Less(u.directRunning, 1) \in Nat
      BY <1>0, <1>6, LessNone DEF Settles
    <3>2. /\ tbl' \in TableType /\ Quiet(u, tbl') /\ SameCalls(u, tbl')
          /\ SameWaits(u, tbl') /\ tbl'.unflushed = u.unflushed
          /\ tbl'.directRunning = Less(tbl.directRunning, 1)
      BY <1>4, <2>2, <3>1, DirectQuiet
    <3>3. /\ Books(tbl', Hand) /\ Moves(tbl, tbl', Hand, Hand) /\ Plainly(tbl, tbl')
          /\ \A e \in Calls : Live(tbl', e) <=> Live(u, e)
      BY <1>6, <3>2, ThenQuiet DEF Settles
    <3> QED
      BY <1>6, <2>2, <3>2, <3>3 DEF Settles, SameCalls, SameWaits
  <2> QED
    BY <2>1, <2>2
<1>9. tbl'.unflushed = Cardinality(InFlight')
  <2>1. \A t \in Threads \ Calls : Flushing(t)' <=> Flushing(t)
    BY <1>3, <1>7, FlushSame
  <2>2. \A t \in Calls : Flushing(t)' <=> Flushing(t)
    BY <1>3, <1>6, <1>7, ThreadsApart DEF Flushing
  <2> QED
    BY <1>8, <2>1, <2>2, TallyKept DEF ReplyInv
<1>10. DirectInv'
  <2>0. /\ tbl.directRunning = Cardinality(DirectThreads)
        /\ \A e \in Calls : stage[e] = "next" => tbl.req[e].type = "Direct"
    BY DEF ReplyInv, TallyInv, DirectInv
  <2>1. tbl.req[c].type = "Direct" /\ tbl'.req = tbl.req
    BY <1>3, <1>8, <2>0 DEF SameCalls
  <2>2. DirectThreads \in SUBSET Calls /\ {c} \in SUBSET DirectThreads
    BY <1>3, <2>1 DEF DirectThreads
  <2>3. /\ Cardinality(DirectThreads \ {c}) = Less(Cardinality(DirectThreads), 1)
        /\ Cardinality({c}) <= Cardinality(DirectThreads)
        /\ Cardinality(DirectThreads) \in Nat
        /\ Cardinality({c}) = 1
    BY <2>2, CountLess, FS_Singleton
  <2>4. \A e \in Calls : stage'[e] = "next" => tbl'.req[e].type = "Direct"
    BY <1>7, <2>0, <2>1, ThreadsApart
  <2>5. CASE d = NoCall
    <3>1. DirectThreads' = DirectThreads \ {c}
      BY <1>7, <2>1, <2>5, ThreadsApart DEF DirectThreads
    <3> QED
      BY <1>8, <2>0, <2>3, <2>4, <2>5, <3>1 DEF DirectInv
  <2>6. CASE d # NoCall
    <3>1. DirectThreads' = (DirectThreads \ {c}) \cup {d}
      BY <1>6, <1>7, <2>1, <2>6, ThreadsApart DEF DirectThreads
    <3>2. d \notin DirectThreads \ {c} /\ DirectThreads \ {c} \in SUBSET Calls
      BY <1>6, <2>2, <2>6 DEF DirectThreads
    <3>3. Cardinality(DirectThreads') = Cardinality(DirectThreads \ {c}) + 1
      BY <1>6, <2>6, <3>1, <3>2, CountMore
    <3> QED
      BY <1>8, <2>0, <2>3, <2>4, <2>6, <3>3 DEF DirectInv, Less
  <2> QED
    BY <2>5, <2>6
<1>11. TallyInv'
  BY <1>9, <1>10 DEF TallyInv
<1>12. Steady
  BY <1>3, <1>7, <1>8, ThreadsApart DEF Steady, SameCalls
<1>13. StaysIn
  <2>1. Kept
    BY <1>3, <1>6, <1>7, ThreadsApart DEF Kept, ReplyInv, PlaceInv
  <2>2. tbl'.out = {}
    <3>1. CASE d # NoCall
      BY <1>0, <1>2, <1>3, <1>4, <3>1, TableFacts, TakeDirectBooks DEF ReplyInv, PlaceInv
    <3>2. CASE d = NoCall
      <4>1. u.out = {}
        BY <1>0, <1>2, <1>3, TableFacts, TakeDirectBooks DEF ReplyInv, PlaceInv
      <4> QED
        BY <1>4, <1>6, <3>2, <4>1 DEF Settles, TableType
    <3> QED
      BY <3>1, <3>2
  <2> QED
    BY <1>3, <1>12, <2>1, <2>2 DEF StaysIn, Steady
<1>14. News(tbl, tbl') /\ tbl'.high = tbl.high
  BY <1>8, PlainNews DEF SameCalls
<1>15. stage'[Reader] = "spool" <=> stage[Reader] = "spool"
  BY <1>7, ThreadsApart
<1> QED
  BY <1>8, <1>11, <1>12, <1>13, <1>14, <1>15, LiveReply

\* A settlement after the batch was counted.
LEMMA CountedSettles ==
  ASSUME ServiceInv, ReplyInv, NEW c \in Calls, NEW outcome \in Outcomes \ {"None"},
         NEW s, s = [tbl EXCEPT !.unflushed = @ + 1], NEW v,
         v = Settle(s, c, outcome), tbl.closing \/ ~InSeq(c, tbl.queue)
  PROVE  /\ v \in TableType /\ Books(v, Hand) /\ Moves(tbl, v, Hand, Hand)
         /\ News(tbl, v) /\ v.unflushed = tbl.unflushed + 1
         /\ SameCalls(tbl, v) /\ v.held = tbl.held
         /\ v.directRunning = tbl.directRunning
         /\ \A d \in Calls : Live(v, d) => Live(tbl, d)
<1>0. /\ tbl \in TableType /\ Books(tbl, Hand) /\ Hand \in SUBSET Calls
      /\ TableInv(tbl, NoCall) /\ tbl.unflushed + 1 \in Nat
  BY SMTT(30), TableFacts DEF TableType
<1> HIDE DEF Hand
<1>1. /\ s \in TableType /\ Quiet(tbl, s) /\ Same(tbl, s)
      /\ s.unflushed = tbl.unflushed + 1
  BY <1>0, RecountQuiet
<1>2. TableInv(s, NoCall)
  BY <1>0, <1>1, SameKeeps
<1>3. TableInv(s, c)
  BY <1>2, CallsNat DEF TableInv, PlacedInv, NoCall
<1>4. Books(s, Hand) /\ (s.closing \/ ~InSeq(c, s.queue))
  BY <1>0, <1>1, QuietMoves DEF Same, SameCalls, SameQueues
<1>5. Settles(s, v, Hand)
  BY <1>0, <1>1, <1>3, <1>4, SettleMoves
<1>6. /\ Moves(tbl, v, Hand, Hand) /\ News(tbl, v) /\ v.held = tbl.held
      /\ \A d \in Calls : Live(v, d) => Live(tbl, d)
  BY <1>0, <1>1, <1>5, SettlesThen
<1> QED
  BY <1>1, <1>5, <1>6 DEF Settles, Same, SameCalls, SameBusy

\* A section counts its batch, and goes on to `schedule`.
LEMMA ScheduleReply ==
  ASSUME ServiceInv, ServiceInv', ReplyInv, NEW t \in Calls \cup {Admission},
         stage[t] \in {"reported", "resolve"}, NEW v, ThenSchedule(t, v),
         UNCHANGED <<sent, dropped, after, replies, recorded>>,
         Books(v, Hand), Moves(tbl, v, Hand, Hand), News(tbl, v),
         v.unflushed = tbl.unflushed + 1, SameCalls(tbl, v), v.held = tbl.held,
         v.directRunning = tbl.directRunning,
         \A d \in Calls : Live(v, d) => Live(tbl, d)
  PROVE  ReplyInv'
<1>1. /\ tbl' = v /\ lock' = t /\ Goto(t, "sched") /\ batch' = batch
      /\ t \in Threads /\ t \notin {Reader, Closer, Reads}
  BY ThreadsApart DEF ThenSchedule
<1>2. OnlyMoves(t, "sched")
  BY <1>1, GotoMoves
<1>3. ~Flushing(t) /\ Flushing(t)'
  BY <1>1, <1>2, ThreadsApart DEF Flushing, OnlyMoves
<1>4. TallyInv'
  BY <1>1, <1>2, <1>3, TallyMoves DEF SameCalls
<1>5. Steady
  BY <1>1, <1>2, ThreadsApart DEF Steady, SameCalls, OnlyMoves
<1>6. StaysIn
  BY <1>1, <1>2, <1>5, ThreadsApart
     DEF StaysIn, Kept, OnlyMoves, Steady, ReplyInv, PlaceInv
<1>7. stage'[Reader] = "spool" <=> stage[Reader] = "spool"
  BY <1>1, <1>2, ThreadsApart DEF OnlyMoves
<1> HIDE DEF Hand
<1> QED
  BY <1>1, <1>4, <1>5, <1>6, <1>7, LiveReply DEF SameCalls

\* A report that landed is settled.
LEMMA WorkerSettlesReply ==
  ASSUME ServiceInv, ServiceInv', ReplyInv, NEW c \in Calls, WorkerSettles(c)
  PROVE  ReplyInv'
<1>1. PICK s : s = [tbl EXCEPT !.unflushed = @ + 1]
  OBVIOUS
<1>2. PICK v : v = Settle(s, c, result[c])
  OBVIOUS
<1>3. /\ stage[c] = "reported" /\ ThenSchedule(c, v)
      /\ UNCHANGED <<sent, dropped, after, replies, recorded>>
  BY <1>1, <1>2 DEF WorkerSettles, readerUnchanged, ioVars, hostVars, closeVars
<1>4. result[c] \in Outcomes \ {"None"}
  BY <1>3 DEF ServiceInv, ThreadInv, Returns, Outcomes
<1>5. tbl.closing \/ ~InSeq(c, tbl.queue)
  <2>1. ~tbl.closing => \A i \in 1 .. Len(tbl.queue) : Phase(tbl, tbl.queue[i]) = "Queued"
    BY DEF ReplyInv, Books, RunInv
  <2>2. Phase(tbl, c) # "Queued"
    BY <1>3 DEF ServiceInv, ThreadInv
  <2> QED
    BY <2>1, <2>2 DEF InSeq
<1> HIDE DEF Hand
<1>6. /\ Books(v, Hand) /\ Moves(tbl, v, Hand, Hand)
      /\ News(tbl, v) /\ v.unflushed = tbl.unflushed + 1
      /\ SameCalls(tbl, v) /\ v.held = tbl.held
      /\ v.directRunning = tbl.directRunning
      /\ \A d \in Calls : Live(v, d) => Live(tbl, d)
  BY <1>1, <1>2, <1>4, <1>5, CountedSettles
<1> QED
  BY <1>3, <1>6, ScheduleReply

-----------------------------------------------------------------------------
(* Sections that end, and hand their replies out. *)

\* A section that hears no call, with the books of its table `u`.
LEMMA SectionReply ==
  ASSUME ServiceInv, ReplyInv, NEW t \in Threads, NEW u \in TableType,
         Unlock(t, u, "mark"), stage[t] \notin {"mark", "send"},
         t = Reader => stage[t] # "spool", t \in Calls => stage[t] = "sched",
         UNCHANGED <<sent, dropped, replies>>, SameCalls(tbl, u) \/
           (/\ u.high = tbl.high /\ u.ended = tbl.ended /\ u.report = tbl.report
            /\ u.req = tbl.req),
         Books(u, Hand), Moves(tbl, u, Hand, Hand), News(tbl, u),
         \A d \in Calls : Live(u, d) => Live(tbl, d),
         u.directRunning = tbl.directRunning,
         \/ ~Flushing(t) /\ u.unflushed = tbl.unflushed + 1
         \/ Flushing(t) /\ u.unflushed = tbl.unflushed,
         OverInv'
  PROVE  ReplyInv'
<1>0. /\ u.high = tbl.high /\ u.ended = tbl.ended /\ u.report = tbl.report
      /\ u.req = tbl.req
  BY DEF SameCalls
<1>1. Goto(t, "mark")
  BY DEF Unlock
<1>2. OnlyMoves(t, "mark")
  BY <1>1, GotoMoves
<1>3. Flushing(t)'
  BY <1>2, ThreadsApart DEF Flushing, OnlyMoves
<1>4. /\ tbl'.unflushed = u.unflushed /\ tbl'.directRunning = u.directRunning
      /\ tbl'.req = u.req /\ tbl'.high = u.high
  BY HandedOut DEF Unlock, TableType
<1>5. TallyInv'
  BY <1>0, <1>2, <1>3, <1>4, TallyMoves
<1>6. Hand' = Hand /\ Hand \subseteq Calls
  BY <1>0, <1>2, <1>4, ThreadsApart, TableFacts DEF Hand, OnlyMoves
<1> HIDE DEF Hand
<1> QED
  BY <1>0, <1>5, <1>6, UnlockStep

\* Nothing comes to life, and the close stays where it is.
LEMMA SectionOver ==
  ASSUME ServiceInv, ReplyInv, NEW t \in Threads \ {Closer}, NEW u \in TableType,
         NEW label, Unlock(t, u, label), UNCHANGED <<after, recorded>>,
         u.revoked = tbl.revoked, u.ended = tbl.ended, u.report = tbl.report,
         tbl.closing =>
           /\ \A d \in Calls : Live(u, d) => Live(tbl, d)
           /\ u.held \subseteq tbl.held
  PROVE  OverInv'
<1>1. OnlyMoves(t, label)
  BY GotoMoves DEF Unlock
<1>2. Same(u, tbl')
  BY HandedOut DEF Unlock
<1>3. Steady
  BY <1>1, <1>2, ThreadsApart DEF Steady, OnlyMoves, Same, SameCalls
<1>4. tbl'.rec = u.rec /\ tbl'.held = u.held
  BY <1>2 DEF Same, SameWaits
<1>5. tbl.closing =>
        /\ \A d \in Calls : Live(tbl', d) => Live(tbl, d)
        /\ tbl'.held \subseteq tbl.held
  BY <1>4 DEF Live, Phase
<1> QED
  BY <1>3, <1>5, OverKept DEF ReplyInv

\* A section that changed nothing.
LEMMA StaySection ==
  ASSUME ServiceInv, ReplyInv, NEW t \in Threads \ {Closer}, Unlock(t, tbl, "mark"),
         stage[t] \notin {"mark", "send", "spool"}, t \in Calls => stage[t] = "sched",
         UNCHANGED <<sent, dropped, after, replies, recorded>>, Flushing(t)
  PROVE  ReplyInv'
<1>0. tbl \in TableType /\ Books(tbl, Hand)
  BY TableFacts
<1>1. OverInv'
  BY <1>0, SectionOver
<1> HIDE DEF Hand
<1>2. Moves(tbl, tbl, Hand, Hand) /\ News(tbl, tbl)
  BY MovesNot, PlainNews
<1> QED
  BY <1>0, <1>1, <1>2, SectionReply

\* `schedule` is done.
LEMMA ScheduleDoneReply ==
  ASSUME ServiceInv, ServiceInv', ReplyInv, NEW t \in Threads, ScheduleDone(t)
  PROVE  ReplyInv'
<1>1. /\ stage[t] = "sched" /\ lock = t /\ Unlock(t, tbl, "mark")
      /\ UNCHANGED <<sent, dropped, after, replies, recorded>>
  BY DEF ScheduleDone, Scanned, readerUnchanged, ioVars, hostVars, closeVars
<1>2. t \notin {Closer, Reads}
  BY <1>1, ScanFacts
<1>3. Flushing(t)
  BY <1>1, <1>2 DEF Flushing
<1> QED
  BY <1>1, <1>2, <1>3, StaySection

\* A stale frame is answered by nothing.
LEMMA ReceiveStaleReply ==
  ASSUME ServiceInv, ServiceInv', ReplyInv, ReceiveStale
  PROVE  ReplyInv'
<1>1. /\ stage[Reader] = "counted" /\ Unlock(Reader, tbl, "mark")
      /\ UNCHANGED <<sent, dropped, after, replies, recorded>>
  BY DEF ReceiveStale, ReceiveEnabled, readerUnchanged, ioVars, hostVars, closeVars
<1>3. Flushing(Reader)
  BY <1>1, ThreadsApart DEF Flushing
<1> QED
  BY <1>1, <1>3, StaySection, ThreadsApart

\* The reply of core to a spool call.
LEMMA SpoolAnsweredReply ==
  ASSUME ServiceInv, ServiceInv', ReplyInv, SpoolAnswered
  PROVE  ReplyInv'
<1>0. tbl \in TableType /\ Books(tbl, Hand) /\ Hand \in SUBSET Calls
  BY TableFacts
<1>1. /\ stage[Reader] = "spool" /\ Unlock(Reader, Answer(tbl, tbl.high, "spool"), "mark")
      /\ UNCHANGED <<sent, dropped, after, replies, recorded>>
  BY DEF SpoolAnswered, readerUnchanged, ioVars, hostVars, closeVars
<1>2. PICK c : c = tbl.high
  OBVIOUS
<1>3. Hand = {c} /\ c \in Calls
  BY <1>0, <1>1, <1>2 DEF Hand
<1>4. PICK u : u = Answer(tbl, c, "spool")
  OBVIOUS
<1>5. "spool" \in Says
  BY DEF Says
<1>6. u = Answered(tbl, c, Reply(c, "spool")) /\ Reply(c, "spool") \in ReplyType
      /\ Reply(c, "spool").to = c /\ Reply(c, "spool").what = "spool"
      /\ Reply(c, "spool").owner \notin Calls
  BY <1>3, <1>4, <1>5, AnswerReply
<1>7. PICK r : r = Reply(c, "spool")
  OBVIOUS
<1>8. /\ u = Answered(tbl, c, r) /\ r \in ReplyType /\ r.to = c /\ r.what = "spool"
      /\ Books(tbl, {c}) /\ r.owner \notin Calls
  BY <1>0, <1>3, <1>6, <1>7
<1>9. /\ u \in TableType /\ Books(u, {}) /\ Moves(tbl, u, {c}, {})
      /\ Plainly(tbl, u) /\ u.rec = tbl.rec
      /\ SameCalls(tbl, u) /\ SameBusy(tbl, u) /\ SameWaits(tbl, u)
      /\ u.unflushed = tbl.unflushed
  BY <1>0, <1>3, <1>8, AnsweredBooks
<1>10. Unlock(Reader, u, "mark")
  BY <1>1, <1>2, <1>4
<1>11. OverInv'
  BY <1>1, <1>9, <1>10, SectionOver, ThreadsApart
     DEF SameCalls, SameWaits, Live, Phase
<1>12. OnlyMoves(Reader, "mark")
  BY <1>10, GotoMoves, ThreadsApart DEF Unlock
<1>13. Hand' = {}
  BY <1>12 DEF Hand, OnlyMoves
<1>14. /\ tbl'.unflushed = tbl.unflushed /\ tbl'.directRunning = tbl.directRunning
       /\ tbl'.req = tbl.req
  BY <1>9, <1>10, HandedOut DEF Unlock, TableType, SameBusy, SameCalls
<1>15. Flushing(Reader) /\ Flushing(Reader)'
  BY <1>1, <1>12, ThreadsApart DEF Flushing, OnlyMoves
<1>16. TallyInv'
  BY <1>1, <1>12, <1>14, <1>15, TallyMoves, ThreadsApart
<1>17. News(tbl, u)
  BY <1>9, PlainNews
<1> HIDE DEF Hand
<1> QED
  <2>1. \A d \in {c} : Live(u, d) => Live(tbl, d)
    BY <1>9 DEF Live, Phase
  <2> QED
    BY <1>1, <1>3, <1>9, <1>10, <1>11, <1>13, <1>16, <1>17, <2>1, UnlockStep,
       ThreadsApart DEF SameCalls

\* A call is admitted, queued or settled.
LEMMA AdmitReply ==
  ASSUME ServiceInv, ServiceInv', ReplyInv, NEW ok \in BOOLEAN, Admit(ok)
  PROVE  ReplyInv'
<1>0. /\ stage[Admission] = "resolve" /\ Free /\ UNCHANGED readerUnchanged
      /\ UNCHANGED <<sent, dropped, after, replies, recorded>>
  BY DEF Admit, readerUnchanged, ioVars, hostVars, closeVars
<1>1. PICK c : c = admitting.call
  OBVIOUS
<1>2. PICK s : s = [tbl EXCEPT !.unflushed = @ + 1]
  OBVIOUS
<1>3. /\ s \in TableType /\ TableInv(s, NoCall) /\ Same(tbl, s)
      /\ c \in Calls
      /\ \A i \in 1 .. Len(s.queue) : s.queue[i] < c
      /\ \A j \in 1 .. Len(s.pending) : c < s.pending[j]
  BY <1>0, <1>1, <1>2, AdmitFacts
<1>4. {"Cancelled", "Failed"} \subseteq Outcomes \ {"None"}
  BY DEF Outcomes
<1>5. /\ tbl \in TableType /\ Books(tbl, Hand) /\ Hand \in SUBSET Calls
      /\ tbl.unflushed + 1 \in Nat
  BY TableFacts DEF TableType
<1> HIDE DEF Hand
<1>6. /\ Quiet(tbl, s) /\ s.unflushed = tbl.unflushed + 1
  BY <1>2, <1>5, RecountQuiet
<1>7. Books(s, Hand) /\ Moves(tbl, s, Hand, Hand) /\ News(tbl, s)
  BY <1>3, <1>5, <1>6, QuietMoves, PlainNews
<1>8. ~Flushing(Admission) /\ Admission \in Threads \ {Closer, Reader}
      /\ Admission \notin Calls
  BY <1>0, ThreadsApart DEF Flushing
<1>9. ~InSeq(c, s.queue) /\ ~InSeq(c, tbl.queue)
  BY <1>3, CallsNat DEF InSeq, Same, SameQueues
<1>10. CASE Phase(tbl, c) # "Received"
  <2>1. Unlock(Admission, s, "mark")
    BY <1>1, <1>2, <1>10 DEF Admit
  <2>2. OverInv'
    BY <1>0, <1>3, <1>8, <2>1, SectionOver DEF Same, SameCalls, SameWaits, Live, Phase
  <2>3. \A d \in Calls : Live(s, d) => Live(tbl, d)
    BY <1>3 DEF Same, Live, Phase
  <2> QED
    BY <1>0, <1>3, <1>6, <1>7, <1>8, <2>1, <2>2, <2>3, SectionReply
       DEF Same, SameCalls, SameBusy
<1>11. CASE \E o \in {"Cancelled", "Failed"} :
              Unlock(Admission, Settle(s, c, o), "mark")
  <2>1. PICK o \in {"Cancelled", "Failed"} :
          Unlock(Admission, Settle(s, c, o), "mark")
    BY <1>11
  <2>2. PICK v : v = Settle(s, c, o)
    OBVIOUS
  <2>3. /\ v \in TableType /\ Books(v, Hand) /\ Moves(tbl, v, Hand, Hand)
        /\ News(tbl, v) /\ v.unflushed = tbl.unflushed + 1
        /\ SameCalls(tbl, v) /\ v.held = tbl.held
        /\ v.directRunning = tbl.directRunning
        /\ \A d \in Calls : Live(v, d) => Live(tbl, d)
    BY <1>2, <1>3, <1>4, <1>9, <2>2, CountedSettles
  <2>4. Unlock(Admission, v, "mark")
    BY <2>1, <2>2
  <2>5. OverInv'
    BY <1>0, <1>8, <2>3, <2>4, SectionOver DEF SameCalls
  <2> QED
    BY <1>0, <1>8, <2>3, <2>4, <2>5, SectionReply
<1>12. CASE /\ Phase(tbl, c) = "Received" /\ ~IsOperation(tbl.req[c])
            /\ ThenSchedule(Admission, AdmitDirect(s, c))
  <2>1. PICK v : v = AdmitDirect(s, c)
    OBVIOUS
  <2>2. Phase(s, c) = "Received" /\ ~IsOperation(s.req[c])
    BY <1>3, <1>12 DEF Same, SameCalls, Phase
  <2>3. /\ v \in TableType
        /\ SameCalls(s, v) /\ SameBusy(s, v) /\ SameWaits(s, v)
        /\ \A d \in Calls \ {c} : v.rec[d] = s.rec[d]
    BY <1>3, <2>1, <2>2, AdmitDirectKeeps
  <2>4. /\ Books(v, Hand) /\ Moves(s, v, Hand, Hand) /\ Plainly(s, v)
        /\ v.unflushed = s.unflushed
    BY <1>3, <1>7, <2>1, <2>2, AdmitDirectBooks
  <2>5. Moves(tbl, v, Hand, Hand) /\ Plainly(tbl, v)
    BY <1>3, <1>5, <1>6, <2>4, QuietThen
  <2>6. /\ SameCalls(tbl, v) /\ v.directRunning = tbl.directRunning
        /\ v.held = tbl.held
    BY <1>3, <2>3 DEF Same, SameCalls, SameBusy, SameWaits
  <2>7. \A d \in Calls : Live(v, d) => Live(tbl, d)
    BY <1>3, <1>12, <2>3 DEF Same, Live, Phase
  <2>8. News(tbl, v) /\ v.unflushed = tbl.unflushed + 1 /\ ThenSchedule(Admission, v)
    BY <1>6, <1>12, <2>1, <2>4, <2>5, PlainNews
  <2> QED
    BY <1>0, <2>4, <2>5, <2>6, <2>7, <2>8, ScheduleReply
<1>13. CASE /\ Phase(tbl, c) = "Received" /\ IsOperation(tbl.req[c])
            /\ ~AdmitRefuses(tbl, c, DetachedOn(tbl.req[c].ws))
            /\ ThenSchedule(Admission, AdmitOperation(s, c))
  <2>1. PICK v : v = AdmitOperation(s, c)
    OBVIOUS
  <2>2. Phase(s, c) = "Received" /\ IsOperation(s.req[c])
    BY <1>3, <1>13 DEF Same, SameCalls, Phase
  <2>3. ~AdmitRefuses(s, c, FALSE) /\ (s.tableEntries >= TableLimit => Evictable(s) # {})
    <3>1. /\ s.tableEntries = tbl.tableEntries /\ s.retained = tbl.retained
          /\ s.rec = tbl.rec /\ s.req = tbl.req /\ s.queue = tbl.queue
          /\ s.requests = tbl.requests
      BY <1>3, <1>6 DEF Same, SameCalls, SameQueues, Quiet, SameTable, SameIndex
    <3>2. Evictable(s) = Evictable(tbl)
      BY <3>1 DEF Evictable, Delivered
    <3> QED
      BY <1>13, <3>1, <3>2 DEF AdmitRefuses
  <2>4. /\ v \in TableType /\ SameCalls(s, v) /\ SameBusy(s, v) /\ SameWaits(s, v)
        /\ \A d \in Calls \ {c} :
             \/ v.rec[d] = s.rec[d]
             \/ Phase(s, d) = "Terminal" /\ v.rec[d] = NoRecord
    BY <1>3, <2>1, <2>2, <2>3, AdmitOperationKeeps
  <2>5. /\ Books(v, Hand) /\ Moves(s, v, Hand, Hand) /\ News(s, v)
        /\ v.unflushed = s.unflushed
    BY <1>3, <1>5, <1>7, <2>1, <2>2, <2>3, AdmitOperationBooks
  <2>6. Moves(tbl, v, Hand, Hand) /\ News(tbl, v)
    BY <1>3, <1>5, <1>6, <2>5, QuietThen
  <2>7. /\ SameCalls(tbl, v) /\ v.directRunning = tbl.directRunning
        /\ v.held = tbl.held
    BY <1>3, <2>4 DEF Same, SameCalls, SameBusy, SameWaits
  <2>8. \A d \in Calls : Live(v, d) => Live(tbl, d)
    BY <1>3, <1>13, <2>4 DEF Same, Live, Phase, NoRecord
  <2>9. v.unflushed = tbl.unflushed + 1 /\ ThenSchedule(Admission, v)
    BY <1>6, <1>13, <2>1, <2>5
  <2> QED
    BY <1>0, <2>5, <2>6, <2>7, <2>8, <2>9, ScheduleReply
<1> QED
  BY <1>1, <1>2, <1>10, <1>11, <1>12, <1>13 DEF Admit

-----------------------------------------------------------------------------
(* The close settles, cancels and answers. *)

\* The close thread settles a call, under the lock.
LEMMA CloserSettlesReply ==
  ASSUME ServiceInv, ServiceInv', ReplyInv, stage[Closer] \in {"settle", "detach"},
         NEW s \in TableType, TableInv(s, NoCall), Quiet(tbl, s),
         s.unflushed = tbl.unflushed, s.directRunning = tbl.directRunning,
         s.closing, s.ended = tbl.ended, s.report = tbl.report,
         NEW c \in Calls, NEW o \in Outcomes \ {"None"}, tbl' = Settle(s, c, o),
         UNCHANGED <<lock, stage, batch, sent, dropped, after, replies>>,
         s.revoked \subseteq recorded'
  PROVE  ReplyInv'
<1>0. /\ tbl \in TableType /\ Books(tbl, Hand) /\ Hand \in SUBSET Calls
  BY TableFacts
<1>1. TableInv(s, c)
  BY CallsNat DEF TableInv, PlacedInv, NoCall
<1> HIDE DEF Hand
<1>2. Books(s, Hand)
  BY <1>0, QuietMoves
<1>3. Settles(s, tbl', Hand)
  BY <1>0, <1>1, <1>2, SettleMoves
<1>4. /\ Books(tbl', Hand) /\ Moves(tbl, tbl', Hand, Hand) /\ News(tbl, tbl')
      /\ tbl'.unflushed = tbl.unflushed /\ tbl'.high = tbl.high
      /\ tbl'.req = tbl.req /\ \A d \in Hand : Live(tbl', d) => Live(tbl, d)
  BY <1>0, <1>3, SettlesThen
<1>5. /\ tbl'.directRunning = tbl.directRunning /\ tbl'.ended = tbl.ended
      /\ tbl'.report = tbl.report /\ tbl'.revoked = s.revoked
  BY <1>3 DEF Settles, SameCalls
<1>6. TallyInv'
  BY <1>4, <1>5, TallyStays
<1>7. lock = Closer
  BY ThreadsApart DEF ServiceInv, LockInv, Holds
<1>8. StaysIn
  BY <1>5, <1>7, ThreadsApart DEF StaysIn, Kept
<1>9. OverInv'
  BY <1>5 DEF ReplyInv, OverInv, Over, Reported
<1>10. Hand' = Hand
  BY <1>4 DEF Hand
<1> QED
  BY <1>4, <1>5, <1>6, <1>8, <1>9, <1>10, StayStep

\* A table of which only gates' sets change is quiet.
LEMMA GatesQuiet ==
  ASSUME NEW s \in TableType, NEW u \in TableType,
         u.high = s.high, u.req = s.req, u.rec = s.rec, u.closing = s.closing,
         SameBusy(s, u), SameIndex(s, u), u.queue = s.queue,
         u.others = s.others, SameWaits(s, u), SameLanes(s, u), u.out = s.out
  PROVE  Quiet(s, u)
<1>1. Shorter(u.queue, s.queue)
  BY ShorterSame DEF TableType
<1> QED
  BY <1>1 DEF Quiet, SameFacts, SameTable, SameBusy

\* The close settles a call that has not started.
LEMMA CloseSettlesReply ==
  ASSUME ServiceInv, ServiceInv', ReplyInv, CloseSettles
  PROVE  ReplyInv'
<1>0. tbl \in TableType /\ TableInv(tbl, NoCall)
  BY TableFacts
<1>1. PICK c : c = Least(NotStarted(tbl))
  OBVIOUS
<1>2. PICK x : x = tbl.cancelled \cup {c}
  OBVIOUS
<1>3. PICK s : s = [tbl EXCEPT !.cancelled = x]
  OBVIOUS
<1>4. /\ stage[Closer] = "settle" /\ NotStarted(tbl) # {}
      /\ tbl' = Settle(s, c, "Cancelled")
      /\ UNCHANGED <<lock, stage, batch, sent, dropped, after, replies, recorded>>
  BY <1>1, <1>2, <1>3 DEF CloseSettles, closerUnchanged, hostVars, ioVars
<1>5. c \in Calls
  <2>1. NotStarted(tbl) \subseteq Calls
    BY DEF NotStarted
  <2> QED
    BY <1>1, <1>4, <2>1, LeastIn
<1>6. x \subseteq Calls
  BY <1>0, <1>2, <1>5 DEF TableType
<1>7. /\ s \in TableType /\ Same(tbl, s) /\ SameIndex(tbl, s) /\ SameLanes(tbl, s)
      /\ s.out = tbl.out /\ s.unflushed = tbl.unflushed
  BY <1>0, <1>3, <1>6 DEF TableType, Same, SameCalls, SameQueues, SameBusy,
       SameWaits, SameIndex, SameLanes
<1> HIDE <1>3
<1>8. TableInv(s, NoCall)
  BY <1>0, <1>7, SameKeeps
<1>9. Quiet(tbl, s)
  BY <1>0, <1>7, SameQuiet
<1>10. tbl.closing /\ tbl.revoked \subseteq recorded
  BY <1>4 DEF ServiceInv, CloseInv, ReplyInv, OverInv
<1>11. "Cancelled" \in Outcomes \ {"None"}
  BY DEF Outcomes
<1>12. /\ s.directRunning = tbl.directRunning /\ s.closing /\ s.ended = tbl.ended
       /\ s.report = tbl.report /\ s.revoked \subseteq recorded'
  BY <1>4, <1>7, <1>10 DEF Same, SameCalls, SameBusy
<1> QED
  BY <1>4, <1>5, <1>7, <1>8, <1>9, <1>11, <1>12, CloserSettlesReply

\* The close detaches a call that still runs.
LEMMA CloseDetachesReply ==
  ASSUME ServiceInv, ServiceInv', ReplyInv, CloseDetaches
  PROVE  ReplyInv'
<1>0. tbl \in TableType /\ TableInv(tbl, NoCall)
  BY TableFacts
<1>1. PICK c : c = Least(RunningCalls(tbl))
  OBVIOUS
<1>2. PICK x : x = tbl.cancelled \cup {c}
  OBVIOUS
<1>a. PICK y : y = tbl.revoked \cup {c}
  OBVIOUS
<1>b. PICK n : n = tbl.detached + 1
  OBVIOUS
<1>3. PICK s : s = [tbl EXCEPT !.revoked = y, !.cancelled = x, !.detached = n]
  OBVIOUS
<1>4. /\ stage[Closer] = "detach" /\ RunningCalls(tbl) # {}
      /\ tbl' = Settle(s, c, "Detached") /\ recorded' = recorded \cup {c}
      /\ UNCHANGED <<lock, stage, batch, sent, dropped, after, replies>>
  BY <1>1, <1>2, <1>a, <1>b, <1>3 DEF CloseDetaches, closerUnchanged, ioVars
<1>5. c \in Calls
  <2>1. RunningCalls(tbl) \subseteq Calls
    BY DEF RunningCalls
  <2> QED
    BY <1>1, <1>4, <2>1, LeastIn
<1>7. x \subseteq Calls /\ y \subseteq Calls /\ n \in Nat
  BY <1>2, <1>a, <1>b, <1>5, <1>0 DEF TableType
<1>8. s \in TableType
  BY <1>3, <1>0, <1>7 DEF TableType
<1>9. /\ s.rec = tbl.rec /\ s.high = tbl.high /\ s.req = tbl.req
      /\ s.closing = tbl.closing /\ s.ended = tbl.ended /\ s.report = tbl.report
      /\ SameQueues(tbl, s) /\ SameWaits(tbl, s) /\ SameBusy(tbl, s)
      /\ SameIndex(tbl, s) /\ SameLanes(tbl, s) /\ s.revoked = y
      /\ s.out = tbl.out /\ s.unflushed = tbl.unflushed
      /\ s.retained = tbl.retained /\ s.others = tbl.others
  BY <1>3, <1>0 DEF TableType, SameQueues, SameWaits, SameBusy, SameIndex, SameLanes
<1> HIDE <1>3
<1>10. TableInv(s, NoCall)
  <2>1. SameRecords(tbl, s)
    BY <1>9 DEF SameRecords
  <2>2. \A e \in s.others :
          \/ e \in s.held \cup s.closers
          \/ e \in tbl.others /\ e \notin tbl.held \cup tbl.closers
    BY <1>9 DEF SameWaits
  <2> QED
    BY <1>0, <1>8, <1>9, <2>1, <2>2, QuietKeeps DEF SameBusy
<1>11. Quiet(tbl, s)
  BY <1>0, <1>8, <1>9, GatesQuiet DEF SameQueues
<1>12. "Detached" \in Outcomes \ {"None"}
  BY DEF Outcomes
<1>13. tbl.closing /\ s.revoked \subseteq recorded'
  BY <1>4, <1>9, <1>a DEF ServiceInv, CloseInv, ReplyInv, OverInv
<1>14. s.directRunning = tbl.directRunning /\ s.closing
  BY <1>9, <1>13 DEF SameBusy
<1> QED
  BY <1>4, <1>5, <1>8, <1>9, <1>10, <1>11, <1>12, <1>13, <1>14, CloserSettlesReply

\* The close cancels what runs.
LEMMA CloseCancelsReply ==
  ASSUME ServiceInv, ServiceInv', ReplyInv, CloseCancels
  PROVE  ReplyInv'
<1>0. /\ tbl \in TableType /\ TableInv(tbl, NoCall) /\ Books(tbl, Hand)
  BY TableFacts
<1>1. PICK x : x = tbl.cancelled \cup RunningCalls(tbl)
  OBVIOUS
<1>2. PICK s : s = [tbl EXCEPT !.directQueue = <<>>, !.cancelled = x]
  OBVIOUS
<1>3. /\ stage[Closer] = "settle" /\ Unlock(Closer, s, "mark") /\ after' = "wait"
      /\ UNCHANGED <<sent, dropped, replies, recorded>>
  BY <1>1, <1>2 DEF CloseCancels, CloseUnlock, closerUnchanged, hostVars, ioVars
<1>5. x \subseteq Calls /\ <<>> \in Seq(Calls)
  BY <1>0, <1>1 DEF TableType, RunningCalls
<1>6. s \in TableType
  BY ZenonT(60), <1>2, <1>0, <1>5 DEF TableType
<1>7. /\ SameCalls(tbl, s) /\ SameWaits(tbl, s) /\ SameBusy(tbl, s)
      /\ SameIndex(tbl, s) /\ SameLanes(tbl, s)
      /\ s.rec = tbl.rec /\ s.queue = tbl.queue /\ s.out = tbl.out
      /\ s.others = tbl.others /\ s.unflushed = tbl.unflushed
  BY <1>0, <1>2 DEF TableType, SameCalls, SameWaits, SameBusy, SameIndex, SameLanes
<1> HIDE <1>2
<1>8. Quiet(tbl, s)
  BY <1>0, <1>6, <1>7, GatesQuiet DEF SameCalls
<1> HIDE DEF Hand
<1>9. Books(s, Hand) /\ Moves(tbl, s, Hand, Hand) /\ News(tbl, s)
  BY <1>0, <1>6, <1>8, QuietMoves, PlainNews
<1>10. Flushing(Closer)
  BY <1>3, ThreadsApart DEF Flushing
<1>11. /\ OnlyMoves(Closer, "mark") /\ Same(s, tbl')
  BY <1>3, <1>6, GotoMoves, HandedOut, ThreadsApart DEF Unlock
<1>12. OverInv'
  <2>1. /\ stage'[Closer] = "mark" /\ tbl'.ended = tbl.ended
        /\ tbl'.report = tbl.report /\ tbl'.revoked = tbl.revoked
    BY <1>7, <1>11 DEF OnlyMoves, Same, SameCalls
  <2> QED
    BY <1>3, <2>1 DEF ReplyInv, OverInv, Over, Reported
<1>13. \A d \in Calls : Live(s, d) => Live(tbl, d)
  BY <1>7 DEF Live, Phase
<1> QED
  BY <1>3, <1>6, <1>7, <1>9, <1>10, <1>12, <1>13, SectionReply, ThreadsApart
     DEF SameBusy

\* The held reads are read calls, none of them on the control lane.
LEMMA HeldLane ==
  ASSUME NEW s, KindInv(s), NEW D, D \subseteq s.held
  PROVE  /\ OffControl(s, D) = D /\ OnControl(s, D) = {}
         /\ Cardinality(OnControl(s, D)) = 0
<1>1. \A c \in D : ~Control(s.req[c])
  BY DEF KindInv, Control
<1>2. OffControl(s, D) = D /\ OnControl(s, D) = {}
  BY <1>1 DEF OffControl, OnControl
<1> QED
  BY <1>2, FS_EmptySet

\* A section that answers the held reads `D`, field by field.
AnswersHeld(s, u, D) ==
  /\ u \in TableType /\ SameCalls(s, u) /\ SameBusy(s, u) /\ SameIndex(s, u)
  /\ u.rec = s.rec /\ u.queue = s.queue /\ u.closers = s.closers
  /\ u.held = s.held \ D /\ u.others = s.others \ D
  /\ u.outstanding = Less(s.outstanding, Cardinality(D))
  /\ u.controls = s.controls
  /\ u.out = s.out \cup {Reply(c, "events") : c \in D}
  /\ u.unflushed = s.unflushed + 1

\* Such a section.
LEMMA HeldBooks ==
  ASSUME ServiceInv, ReplyInv, NEW u, NEW D, D \subseteq tbl.held,
         AnswersHeld(tbl, u, D)
  PROVE  Books(u, Hand) /\ Moves(tbl, u, Hand, Hand) /\ News(tbl, u)
<1>0. /\ tbl \in TableType /\ TableInv(tbl, NoCall) /\ Books(tbl, Hand)
      /\ Hand \in SUBSET Calls
  BY TableFacts
<1> HIDE DEF Hand
<1>1. KindInv(tbl) /\ tbl.controls \in Nat
  BY <1>0 DEF Books, TableType
<1>2. /\ OffControl(tbl, D) = D /\ Cardinality(OnControl(tbl, D)) = 0
  BY <1>1, HeldLane
<1>3. /\ u.outstanding = Less(tbl.outstanding, Cardinality(OffControl(tbl, D)))
      /\ u.controls = Less(tbl.controls, Cardinality(OnControl(tbl, D)))
  BY <1>1, <1>2, LessNone DEF AnswersHeld
<1>4. Shorter(u.queue, tbl.queue) /\ SameTable(tbl, u)
  BY <1>0, ShorterSame DEF AnswersHeld, TableType, SameTable, SameCalls, SameBusy
<1>5. \A c \in D : c \notin tbl.closers
  BY <1>1 DEF KindInv
<1>6. /\ u.rec = tbl.rec /\ u.others = tbl.others \ D
      /\ u.held \subseteq tbl.held \ D /\ u.closers \subseteq tbl.closers \ D
      /\ u.out = tbl.out \cup {Reply(c, "events") : c \in D} /\ u \in TableType
  BY <1>5 DEF AnswersHeld
<1>7. Tells(tbl, u, D, "events")
  BY <1>3, <1>4, <1>6 DEF Tells
<1>8. /\ Books(u, Hand) /\ Moves(tbl, u, Hand, Hand)
      /\ \A r \in u.out \ tbl.out : r.what = "events"
  BY <1>0, <1>6, <1>7, TellBooks
<1> QED
  BY <1>6, <1>8 DEF News

\* The read thread answers the reads that have something to return.
LEMMA AnswerHeldReply ==
  ASSUME ServiceInv, ServiceInv', ReplyInv, NEW expired, AnswerHeld(expired)
  PROVE  ReplyInv'
<1>0. tbl \in TableType
  BY TableFacts
<1>1. PICK a : a = {c \in tbl.held : Ready(tbl, c) \/ tbl.closing \/ c \in expired}
  OBVIOUS
<1>2. PICK o : o = {Reply(c, "events") : c \in a}
  OBVIOUS
<1>a. PICK n : n = Less(tbl.outstanding, Cardinality(a))
  OBVIOUS
<1>3. PICK s : s = [tbl EXCEPT !.unflushed = @ + 1, !.held = @ \ a,
                      !.others = @ \ a, !.outstanding = n, !.out = o]
  OBVIOUS
<1>4. /\ stage[Reads] = "idle" /\ Free /\ Unlock(Reads, s, "mark")
      /\ UNCHANGED <<sent, dropped, after, replies, recorded>>
  BY <1>1, <1>2, <1>a, <1>3 DEF AnswerHeld, readerUnchanged, ioVars, hostVars, closeVars
<1>5. a \subseteq Calls /\ a \subseteq tbl.held
  BY <1>0, <1>1 DEF TableType
<1>6. o \subseteq ReplyType /\ n \in Nat /\ tbl.out = {}
  <2>1. n \in Nat
    BY <1>0, <1>5, <1>a, CountNat, LessNat DEF TableType
  <2>2. "events" \in Says /\ "Result" \in Views
    BY DEF Says, Views
  <2>3. o \subseteq ReplyType
    BY <1>2, <1>5, <2>2 DEF Reply, ReplyType
  <2> QED
    BY <1>4, <2>1, <2>3 DEF ReplyInv, PlaceInv
<1>7. tbl.unflushed + 1 \in Nat /\ tbl.held \ a \subseteq Calls
         /\ tbl.others \ a \subseteq Calls
  BY <1>0 DEF TableType
<1>8. s \in TableType
  BY ZenonT(60), <1>0, <1>3, <1>6, <1>7 DEF TableType
<1>9. /\ SameCalls(tbl, s) /\ SameBusy(tbl, s) /\ SameIndex(tbl, s)
      /\ s.rec = tbl.rec /\ s.queue = tbl.queue /\ s.closers = tbl.closers
      /\ s.held = tbl.held \ a /\ s.others = tbl.others \ a
      /\ s.outstanding = n /\ s.controls = tbl.controls
      /\ s.out = o /\ s.unflushed = tbl.unflushed + 1
  BY <1>0, <1>3 DEF TableType, SameCalls, SameBusy, SameIndex
<1> HIDE <1>3
<1>10. AnswersHeld(tbl, s, a)
  BY <1>2, <1>6, <1>8, <1>9, <1>a DEF AnswersHeld
<1> HIDE DEF Hand
<1>11. Books(s, Hand) /\ Moves(tbl, s, Hand, Hand) /\ News(tbl, s)
  BY <1>5, <1>10, HeldBooks
<1>12. OverInv'
  BY <1>4, <1>8, <1>9, SectionOver, ThreadsApart DEF SameCalls, Live, Phase
<1>13. ~Flushing(Reads)
  BY <1>4, ThreadsApart DEF Flushing
<1>14. \A d \in Calls : Live(s, d) => Live(tbl, d)
  BY <1>9 DEF Live, Phase
<1> QED
  BY <1>4, <1>8, <1>9, <1>11, <1>12, <1>13, <1>14, SectionReply, ThreadsApart
     DEF SameBusy

\* The close answers every read still held.
LEMMA CloseAnswersHeldReply ==
  ASSUME ServiceInv, ServiceInv', ReplyInv, CloseAnswersHeld
  PROVE  ReplyInv'
<1>0. tbl \in TableType
  BY TableFacts
<1>1. PICK o : o = tbl.out \cup {Reply(c, "events") : c \in tbl.held}
  OBVIOUS
<1>2. PICK n : n = Less(tbl.outstanding, Cardinality(tbl.held))
  OBVIOUS
<1>3. PICK s : s = [tbl EXCEPT !.unflushed = @ + 1, !.held = {},
                               !.others = @ \ tbl.held, !.outstanding = n,
                               !.out = o]
  OBVIOUS
<1>4. /\ stage[Closer] = "detach" /\ RunningCalls(tbl) = {}
      /\ Unlock(Closer, s, "mark") /\ after' = "spools"
      /\ UNCHANGED <<sent, dropped, replies, recorded>>
  BY <1>1, <1>2, <1>3 DEF CloseAnswersHeld, CloseUnlock, closerUnchanged,
       hostVars, ioVars
<1>5. n \in Nat /\ o \subseteq ReplyType
  <2>1. tbl.held \subseteq Calls /\ tbl.outstanding \in Nat
        /\ tbl.out \subseteq ReplyType
    BY <1>0 DEF TableType
  <2>2. n \in Nat
    BY <1>2, <2>1, CountNat, LessNat
  <2>3. "events" \in Says /\ "Result" \in Views
    BY DEF Says, Views
  <2>4. {Reply(c, "events") : c \in tbl.held} \subseteq ReplyType
    BY <2>1, <2>3 DEF Reply, ReplyType
  <2> QED
    BY <1>1, <2>1, <2>2, <2>4
<1>6. tbl.unflushed + 1 \in Nat /\ tbl.others \ tbl.held \subseteq Calls
  BY <1>0 DEF TableType
<1>8. s \in TableType
  BY ZenonT(60), <1>0, <1>3, <1>5, <1>6 DEF TableType
<1>9. /\ SameCalls(tbl, s) /\ SameBusy(tbl, s) /\ SameIndex(tbl, s)
      /\ s.rec = tbl.rec /\ s.queue = tbl.queue /\ s.closers = tbl.closers
      /\ s.held = {} /\ s.others = tbl.others \ tbl.held
      /\ s.outstanding = n /\ s.controls = tbl.controls
      /\ s.out = o /\ s.unflushed = tbl.unflushed + 1
  BY <1>0, <1>3 DEF TableType, SameCalls, SameBusy, SameIndex
<1> HIDE <1>3
<1>10. AnswersHeld(tbl, s, tbl.held)
  BY <1>1, <1>2, <1>8, <1>9 DEF AnswersHeld
<1> HIDE DEF Hand
<1>11. Books(s, Hand) /\ Moves(tbl, s, Hand, Hand) /\ News(tbl, s)
  BY <1>10, HeldBooks
<1>12. /\ OnlyMoves(Closer, "mark") /\ Same(s, tbl')
  BY <1>4, <1>8, GotoMoves, HandedOut, ThreadsApart DEF Unlock
<1>13. OverInv'
  <2>1. /\ stage'[Closer] = "mark" /\ tbl'.ended = tbl.ended
        /\ tbl'.report = tbl.report /\ tbl'.revoked = tbl.revoked
        /\ tbl'.rec = tbl.rec /\ tbl'.held = {}
    BY <1>9, <1>12 DEF OnlyMoves, Same, SameCalls, SameWaits
  <2>2. RunningCalls(tbl') = {}
    BY <1>4, <2>1 DEF RunningCalls, Phase
  <2> QED
    BY <1>4, <2>1, <2>2 DEF ReplyInv, OverInv, Over, Reported
<1>14. ~Flushing(Closer)
  BY <1>4, ThreadsApart DEF Flushing
<1>15. \A d \in Calls : Live(s, d) => Live(tbl, d)
  BY <1>9 DEF Live, Phase
<1> QED
  BY <1>4, <1>8, <1>9, <1>11, <1>13, <1>14, <1>15, SectionReply, ThreadsApart
     DEF SameBusy

-----------------------------------------------------------------------------
(* The reading thread hears a call. *)

\* The table once the call is heard, and perhaps counted.
Hears(s) ==
  /\ s \in TableType /\ TableInv(s, NoCall)
  /\ s.high = Call /\ Call \in Calls /\ s.req[Call] = incoming
  /\ \A d \in Calls : d <= tbl.high => s.req[d] = tbl.req[d]
  /\ s.rec = tbl.rec /\ s.others = tbl.others /\ SameWaits(tbl, s)
  /\ SameBusy(tbl, s) /\ SameQueues(tbl, s)
  /\ s.unflushed = tbl.unflushed /\ s.out = tbl.out /\ tbl.out = {}
  /\ s.closing = tbl.closing /\ s.closeStarted = tbl.closeStarted
  /\ s.ended = tbl.ended /\ s.report = tbl.report /\ s.revoked = tbl.revoked
  /\ Phase(s, Call) = "None" /\ Call \notin Owed(s)

\* A heard call is counted or not.
LEMMA HeardTables ==
  ASSUME ServiceInv, ReplyInv, stage[Reader] = "counted", Free
  PROVE  /\ Hears(Heard) /\ Books(Heard, {})
         /\ Hears(Fresh) /\ Books(Fresh, {Call}) /\ Hand = {}
<1>0. /\ tbl \in TableType /\ TableInv(tbl, NoCall) /\ Books(tbl, Hand)
      /\ incoming \in Requests /\ tbl.high < MaxCall /\ tbl.high \in Nat
      /\ Hand = {} /\ tbl.out = {}
  BY TableFacts DEF ServiceInv, ServiceTypes, ReaderInv, ReplyInv, PlaceInv, Hand
<1>1. Heard = Hear(tbl, incoming) /\ Call = tbl.high + 1
  BY DEF Heard, Hear, Call
<1>2. PICK h : h = Heard
  OBVIOUS
<1>3. PICK c : c = Call
  OBVIOUS
<1>4. /\ h \in TableType /\ TableInv(h, NoCall) /\ c \in Calls
      /\ Books(h, {}) /\ c \notin Owed(h)
      /\ h.high = c /\ h.req[c] = incoming
      /\ \A d \in Calls : d <= tbl.high => h.req[d] = tbl.req[d]
      /\ h.rec = tbl.rec /\ h.others = tbl.others /\ h.out = tbl.out
      /\ SameQueues(tbl, h) /\ SameBusy(tbl, h) /\ SameWaits(tbl, h)
      /\ h.unflushed = tbl.unflushed
      /\ h.closing = tbl.closing /\ h.closeStarted = tbl.closeStarted
      /\ h.ended = tbl.ended /\ h.report = tbl.report /\ h.revoked = tbl.revoked
      /\ Phase(h, c) = "None"
  BY <1>0, <1>1, <1>2, <1>3, HearBooks
<1>5. Hears(h)
  BY <1>0, <1>3, <1>4 DEF Hears
<1>6. PICK f : f = Fresh
  OBVIOUS
<1>7. f = Counted(h, h.req[c])
  BY <1>2, <1>4, <1>6 DEF Fresh
<1>8. /\ f \in TableType /\ TableInv(f, NoCall) /\ Books(f, {c})
      /\ SameCalls(h, f) /\ SameQueues(h, f) /\ SameBusy(h, f)
      /\ SameWaits(h, f) /\ f.unflushed = h.unflushed
      /\ f.rec = h.rec /\ f.others = h.others /\ f.out = h.out
  BY <1>4, <1>7, CountedBooks
<1>9. c \notin Owed(f) /\ Phase(f, c) = "None"
  BY <1>4, <1>8 DEF Owed, Live, Phase
<1>10. Hears(f)
  BY <1>0, <1>3, <1>4, <1>8, <1>9
     DEF Hears, SameCalls, SameQueues, SameBusy, SameWaits
<1> QED
  BY <1>0, <1>2, <1>3, <1>4, <1>5, <1>6, <1>8, <1>10

\* The section that heard it begins with the call in hand.
LEMMA HearsBegins ==
  ASSUME ServiceInv, ReplyInv, Hand = {}, NEW s, Hears(s)
  PROVE  Begins(s, {Call})
<1>0. /\ \A d \in Due(tbl, Hand) : d \in 1 .. tbl.high /\ d \in Calls
      /\ tbl.high \in Nat /\ tbl.high <= MaxCall
  BY DueHeard DEF ReplyInv, Books
<1>1. PICK c : c = Call
  OBVIOUS
<1>2. c = tbl.high + 1 /\ s.high = c /\ c \in Calls
  BY <1>1 DEF Call, Hears
<1>3. Owed(s) = Owed(tbl)
  BY DEF Hears, Owed, Live, Phase
<1>4. Due(tbl, Hand) = Owed(tbl) /\ Due(s, {c}) = Owed(tbl) \cup {c}
  BY <1>3 DEF Due
<1>5. \A d \in Calls : d <= tbl.high => d # c
  BY <1>0, <1>2, CallsNat
<1>6. /\ tbl.high <= s.high /\ s.high \in Nat
      /\ \A d \in 1 .. s.high : d <= tbl.high \/ d = c
      /\ \A d \in 1 .. tbl.high : d \in 1 .. s.high
      /\ c \in 1 .. s.high
  BY <1>0, <1>2
<1>7. /\ s.out = tbl.out /\ s.rec = tbl.rec
      /\ \A d \in Calls : d <= tbl.high => s.req[d] = tbl.req[d]
  BY DEF Hears
<1>8. \A d \in Calls : d <= tbl.high => (d \in Due(s, {c}) <=> d \in Due(tbl, Hand))
  BY <1>4, <1>5
<1>9. /\ \A d \in Due(s, {c}) : d \in 1 .. s.high
      /\ \A d \in 1 .. s.high : d <= tbl.high \/ d \in Due(s, {c})
  BY <1>0, <1>4, <1>6
<1> QED
  BY <1>1, <1>6, <1>7, <1>8, <1>9 DEF Begins

\* The flow of the replies, once it ends.
LEMMA HeardFlow ==
  ASSUME ServiceInv, ReplyInv, Hand = {}, NEW s, Hears(s), NEW u, NEW H,
         NEW c, c = Call, Carries(u, H), SameCalls(s, u),
         Moves(s, u, {c}, Hand'),
         Accepts(s, u), Reports(s, u), tbl'.report = tbl.report,
         tbl.report /\ ~tbl.ended => Out(c)' \/ \E r \in batch'[Reader] : r.to = c
  PROVE  OnceInv' /\ FateInv' /\ ReportInv'
<1>1. /\ OnceInv /\ PlaceInv /\ FateInv /\ ReportInv /\ KindInv(tbl)
  BY DEF ReplyInv, Books
<1>3. Begins(s, {c})
  BY HearsBegins
<1>4. \A p \in Places : \A r \in At(p) : r.to \in Calls
  BY <1>1, PlacedTyped
<1>5. tbl.high \in Nat /\ tbl.high <= MaxCall /\ c = tbl.high + 1 /\ s.high = c
  BY <1>1, DueHeard DEF Call, Hears
<1>6. /\ Answers(s, u, {c}, Hand') /\ Fate(s, u, {c})
      /\ s.out \subseteq u.out /\ u.req = s.req /\ u.high = s.high
  BY DEF Moves, Answers, Fate, SameCalls
<1>7. OnceInv'
  BY <1>1, <1>3, <1>4, <1>5, <1>6, FlowOnce
<1>8. FateInv'
  BY <1>1, <1>3, <1>4, <1>5, <1>6, FlowFate
<1>9. ReportInv'
  <2>1. tbl.report /\ ~tbl.ended =>
           \A d \in 1 .. s.high :
             \/ d <= tbl.high \/ Out(d)'
             \/ \E r \in batch'[Reader] : r.to = d
    <3>1. \A d \in 1 .. s.high : d <= tbl.high \/ d = c
      BY <1>5
    <3> QED
      BY <3>1
  <2>2. tbl'.report => tbl.report \/ tbl'.ended
    OBVIOUS
  <2> QED
    BY <1>1, <1>3, <1>4, <1>5, <1>6, <2>1, <2>2, FlowReport
<1> QED
  BY <1>7, <1>8, <1>9

\* A section that hears a call and ends.
LEMMA HeardSection ==
  ASSUME ServiceInv, ReplyInv, stage[Reader] = "counted", Free, NEW s, Hears(s),
         NEW c, c = Call, NEW u \in TableType, NEW label \in {"mark", "spool", "close"},
         label = "mark" \/ u.out = {}, Unlock(Reader, u, label), SameCalls(s, u),
         u.unflushed = s.unflushed, u.directRunning = s.directRunning,
         NEW Y, Y = (IF label = "spool" THEN {c} ELSE {}), Books(u, Y),
         Moves(s, u, {c}, Y), Accepts(s, u), Reports(s, u),
         UNCHANGED <<sent, dropped, after, replies, recorded>>,
         tbl.closing =>
           /\ \A d \in Calls : Live(u, d) => Live(tbl, d)
           /\ u.held \subseteq tbl.held,
         tbl.report /\ ~tbl.ended => Out(c)' \/ \E r \in batch'[Reader] : r.to = c
  PROVE  ReplyInv'
<1>1. Hand = {}
  BY DEF Hand
<1>2. /\ s.high = c /\ s.ended = tbl.ended /\ s.report = tbl.report
      /\ s.revoked = tbl.revoked /\ s.unflushed = tbl.unflushed
      /\ s.directRunning = tbl.directRunning
      /\ \A d \in Calls : d <= tbl.high => s.req[d] = tbl.req[d]
  BY DEF Hears, SameBusy
<1>3. /\ u.high = c /\ u.ended = tbl.ended /\ u.report = tbl.report
      /\ u.revoked = tbl.revoked /\ u.req = s.req
  BY <1>2 DEF SameCalls
<1>4. PlaceInv
  BY DEF ReplyInv
<1>5. /\ Carries(u, Reader) /\ PlaceInv' /\ Books(tbl', Y)
      /\ Same(u, tbl') /\ tbl'.unflushed = u.unflushed
      /\ stage'[Reader] = label
      /\ \A v \in Threads \ {Reader} : stage'[v] = stage[v]
  BY <1>3, <1>4, UnlockFlow, ThreadsApart
<1>6. /\ tbl'.high = c /\ tbl'.report = tbl.report /\ tbl'.ended = tbl.ended
      /\ tbl'.req = s.req /\ tbl'.directRunning = tbl.directRunning
  BY <1>2, <1>3, <1>5 DEF Same, SameCalls, SameBusy
<1>7. Hand' = Y
  BY <1>5, <1>6 DEF Hand
<1>8. Flushing(Reader) /\ Flushing(Reader)'
  BY <1>5, ThreadsApart DEF Flushing
<1> HIDE DEF Hand
<1>9. OnceInv' /\ FateInv' /\ ReportInv'
  BY <1>1, <1>5, <1>6, <1>7, HeardFlow
<1>10. OnlyMoves(Reader, label)
  BY <1>5 DEF OnlyMoves
<1>11. TallyInv'
  BY <1>2, <1>5, <1>6, <1>8, <1>10, TallyMoves, ThreadsApart
<1>12. OverInv'
  BY <1>3, SectionOver, ThreadsApart
<1>13. Books(tbl, Hand)'
  BY <1>5, <1>7, BooksNext
<1> QED
  BY <1>5, <1>9, <1>11, <1>12, <1>13 DEF ReplyInv

\* The session that reported is closing.
LEMMA ReportCloses ==
  ASSUME ServiceInv, ReplyInv PROVE tbl.report => tbl.closing
BY DEF ServiceInv, CloseInv, ReplyInv, OverInv, Reported

\* Plain replies are none of the two kinds.
LEMMA PlainKinds ==
  ASSUME NEW s, NEW u, Plainly(s, u) PROVE Accepts(s, u) /\ Reports(s, u)
BY DEF Plainly, Accepts, Reports

\* A section that takes a call before the close began.
LEMMA TakesReply ==
  ASSUME ServiceInv, ReplyInv, NEW types, Takes(types), "Close" \notin types,
         NEW c, c = Call, NEW f, f = Fresh, NEW u \in TableType,
         NEW label \in {"mark", "spool"}, label = "mark" \/ u.out = {},
         Unlock(Reader, u, label), SameCalls(f, u),
         u.unflushed = f.unflushed, u.directRunning = f.directRunning,
         NEW Y, Y = (IF label = "spool" THEN {c} ELSE {}), Books(u, Y),
         Moves(f, u, {c}, Y), Plainly(f, u), UNCHANGED readerUnchanged
  PROVE  ReplyInv'
<1>1. stage[Reader] = "counted" /\ Free /\ ~tbl.closing
  BY DEF Takes, ReceiveEnabled, Refuses
<1>2. ~tbl.report
  BY <1>1, ReportCloses
<1>3. Hears(f)
  BY <1>1, HeardTables
<1>4. UNCHANGED <<sent, dropped, after, replies, recorded>>
  BY DEF readerUnchanged, ioVars, hostVars, closeVars
<1>5. Accepts(f, u) /\ Reports(f, u)
  BY PlainKinds
<1> QED
  BY <1>1, <1>2, <1>3, <1>4, <1>5, HeardSection

\* What is known of a call being taken.
LEMMA TakenFacts ==
  ASSUME ServiceInv, ReplyInv, NEW types, Takes(types), NEW c, c = Call,
         NEW f, f = Fresh
  PROVE  /\ f \in TableType /\ TableInv(f, NoCall) /\ Books(f, {c})
         /\ c \in Calls /\ c <= f.high /\ f.req[c] = incoming /\ f.high = c
         /\ incoming.type \in types /\ Phase(f, c) = "None" /\ Hears(f)
         /\ stage[Reader] = "counted" /\ Free
         /\ \A i \in 1 .. Len(f.queue) : f.queue[i] < c
         /\ \A i \in 1 .. Len(f.pending) : f.pending[i] < c
<1>1. stage[Reader] = "counted" /\ Free /\ incoming.type \in types
  BY DEF Takes, ReceiveEnabled
<1>2. Hears(f) /\ Books(f, {c})
  BY <1>1, HeardTables
<1>3. /\ f \in TableType /\ TableInv(f, NoCall) /\ c \in Calls /\ f.high = c
      /\ f.req[c] = incoming /\ Phase(f, c) = "None"
  BY <1>2 DEF Hears
<1>4. c <= f.high
  BY <1>3, CallsNat
<1>5. /\ \A i \in 1 .. Len(f.queue) : f.queue[i] < c
      /\ \A i \in 1 .. Len(f.pending) : f.pending[i] < c
  BY <1>1, FreshFacts
<1> QED
  BY <1>1, <1>2, <1>3, <1>4, <1>5

\* A direct or operation call arrives.
LEMMA ReceiveCallReply ==
  ASSUME ServiceInv, ServiceInv', ReplyInv, ReceiveCall
  PROVE  ReplyInv'
<1> DEFINE types == {"Direct", "Operation"}
<1>0. Takes(types) /\ "Close" \notin types
  BY DEF ReceiveCall
<1>1. PICK c : c = Call
  OBVIOUS
<1>2. PICK f : f = Fresh
  OBVIOUS
<1>3. /\ f \in TableType /\ TableInv(f, NoCall) /\ Books(f, {c})
      /\ c \in Calls /\ c <= f.high /\ f.req[c] = incoming
      /\ incoming.type \in types /\ Phase(f, c) = "None"
      /\ \A i \in 1 .. Len(f.queue) : f.queue[i] < c
      /\ \A i \in 1 .. Len(f.pending) : f.pending[i] < c
  BY <1>0, <1>1, <1>2, TakenFacts
<1>4. PICK u : u = Create(f, c)
  OBVIOUS
<1>5. u \in TableType /\ SameCalls(f, u) /\ SameBusy(f, u)
  BY <1>3, <1>4, CreateKeeps
<1>6. /\ u.unflushed = f.unflushed /\ Books(u, {}) /\ Moves(f, u, {c}, {})
      /\ Plainly(f, u)
  BY <1>3, <1>4, <1>5, CreateBooks
<1>7. Unlock(Reader, u, "mark") /\ UNCHANGED readerUnchanged
  BY <1>1, <1>2, <1>4 DEF ReceiveCall
<1> HIDE DEF types
<1> QED
  BY <1>0, <1>1, <1>2, <1>5, <1>6, <1>7, TakesReply DEF SameBusy

\* An events read arrives.
LEMMA ReceiveReadReply ==
  ASSUME ServiceInv, ServiceInv', ReplyInv, ReceiveRead
  PROVE  ReplyInv'
<1> DEFINE types == {"Read", "EndStream"}
<1>0. Takes(types) /\ "Close" \notin types
  BY DEF ReceiveRead
<1>1. PICK c : c = Call
  OBVIOUS
<1>2. PICK f : f = Fresh
  OBVIOUS
<1>3. /\ f \in TableType /\ TableInv(f, NoCall) /\ Books(f, {c})
      /\ c \in Calls /\ c <= f.high /\ f.req[c] = incoming
      /\ incoming.type \in types
  BY <1>0, <1>1, <1>2, TakenFacts
<1>4. PICK u : u = ReadEvents(f, c)
  OBVIOUS
<1>5. u \in TableType /\ SameCalls(f, u) /\ SameBusy(f, u)
  BY <1>3, <1>4, ReadEventsKeeps
<1>6. /\ u.unflushed = f.unflushed /\ Books(u, {}) /\ Moves(f, u, {c}, {})
      /\ Plainly(f, u)
  BY <1>3, <1>4, ReadEventsBooks
<1>7. Unlock(Reader, u, "mark") /\ UNCHANGED readerUnchanged
  BY <1>1, <1>2, <1>4 DEF ReceiveRead
<1> HIDE DEF types
<1> QED
  BY <1>0, <1>1, <1>2, <1>5, <1>6, <1>7, TakesReply DEF SameBusy

\* A request for a result or a response arrives.
LEMMA ReceiveViewReply ==
  ASSUME ServiceInv, ServiceInv', ReplyInv, ReceiveView
  PROVE  ReplyInv'
<1> DEFINE types == {"Result", "Response"}
<1>0. Takes(types) /\ "Close" \notin types
  BY DEF ReceiveView
<1>1. PICK c : c = Call
  OBVIOUS
<1>2. PICK f : f = Fresh
  OBVIOUS
<1>3. /\ f \in TableType /\ TableInv(f, NoCall) /\ Books(f, {c})
      /\ c \in Calls /\ c <= f.high /\ f.req[c] = incoming
      /\ incoming.type \in types
  BY <1>0, <1>1, <1>2, TakenFacts
<1>4. PICK u : u = View(f, c)
  OBVIOUS
<1>5. u \in TableType /\ SameCalls(f, u) /\ SameBusy(f, u)
  BY <1>3, <1>4, ViewKeeps
<1>6. /\ u.unflushed = f.unflushed /\ Books(u, {}) /\ Moves(f, u, {c}, {})
      /\ Plainly(f, u)
  BY <1>3, <1>4, ViewBooks
<1>7. Unlock(Reader, u, "mark") /\ UNCHANGED readerUnchanged
  BY <1>1, <1>2, <1>4 DEF ReceiveView
<1> HIDE DEF types
<1> QED
  BY <1>0, <1>1, <1>2, <1>5, <1>6, <1>7, TakesReply DEF SameBusy

\* A release arrives.
LEMMA ReceiveReleaseReply ==
  ASSUME ServiceInv, ServiceInv', ReplyInv, ReceiveRelease
  PROVE  ReplyInv'
<1> DEFINE types == {"Release"}
<1>0. Takes(types) /\ "Close" \notin types
  BY DEF ReceiveRelease
<1>1. PICK c : c = Call
  OBVIOUS
<1>2. PICK f : f = Fresh
  OBVIOUS
<1>3. /\ f \in TableType /\ TableInv(f, NoCall) /\ Books(f, {c}) /\ c \in Calls
  BY <1>0, <1>1, <1>2, TakenFacts
<1>4. PICK u : u = Release(f, c)
  OBVIOUS
<1>5. u \in TableType /\ SameCalls(f, u) /\ SameBusy(f, u)
  BY <1>3, <1>4, ReleaseKeeps
<1>6. /\ u.unflushed = f.unflushed /\ Books(u, {}) /\ Moves(f, u, {c}, {})
      /\ Plainly(f, u)
  BY <1>3, <1>4, ReleaseBooks
<1>7. Unlock(Reader, u, "mark") /\ UNCHANGED readerUnchanged
  BY <1>1, <1>2, <1>4 DEF ReceiveRelease
<1> HIDE DEF types
<1> QED
  BY <1>0, <1>1, <1>2, <1>5, <1>6, <1>7, TakesReply DEF SameBusy

\* A spool call arrives, and stays in hand.
LEMMA ReceiveSpoolReply ==
  ASSUME ServiceInv, ServiceInv', ReplyInv, ReceiveSpool
  PROVE  ReplyInv'
<1> DEFINE types == {"Spool"}
<1>0. Takes(types) /\ "Close" \notin types
  BY DEF ReceiveSpool
<1>1. PICK c : c = Call
  OBVIOUS
<1>2. PICK f : f = Fresh
  OBVIOUS
<1>3. /\ f \in TableType /\ Books(f, {c}) /\ Hears(f)
  BY <1>0, <1>1, <1>2, TakenFacts
<1>4. f.out = {} /\ SameCalls(f, f)
  BY <1>3 DEF Hears, SameCalls
<1>5. Moves(f, f, {c}, {c}) /\ Plainly(f, f)
  BY MovesNot
<1>6. Unlock(Reader, f, "spool") /\ UNCHANGED readerUnchanged
  BY <1>2 DEF ReceiveSpool
<1> HIDE DEF types
<1> QED
  BY <1>0, <1>1, <1>2, <1>3, <1>4, <1>5, <1>6, TakesReply

\* A call is refused as it arrives, uncounted.
LEMMA ReceiveRefusedReply ==
  ASSUME ServiceInv, ServiceInv', ReplyInv, ReceiveRefused
  PROVE  ReplyInv'
<1>0. /\ stage[Reader] = "counted" /\ Free
      /\ UNCHANGED <<sent, dropped, after, replies, recorded>>
  BY DEF ReceiveRefused, ReceiveEnabled, readerUnchanged, ioVars, hostVars, closeVars
<1>1. PICK c : c = Call
  OBVIOUS
<1>2. PICK h : h = Heard
  OBVIOUS
<1>3. PICK r : r = Reply(c, "refused")
  OBVIOUS
<1>4. PICK u : u = [h EXCEPT !.out = {r}]
  OBVIOUS
<1>5. Unlock(Reader, u, "mark")
  BY <1>1, <1>2, <1>3, <1>4 DEF ReceiveRefused
<1>6. Hears(h) /\ Books(h, {})
  BY <1>0, <1>2, HeardTables
<1>7. /\ h \in TableType /\ c \in Calls /\ h.out = {} /\ c \notin Owed(h)
      /\ h.rec = tbl.rec /\ h.held = tbl.held
  BY <1>1, <1>6 DEF Hears, SameWaits
<1>8. r \in ReplyType /\ r.to = c /\ r.what = "refused"
  BY <1>3, <1>7 DEF Reply, ReplyType, Says, Views
<1>9. /\ u \in TableType /\ Same(h, u) /\ SameLanes(h, u) /\ SameIndex(h, u)
      /\ u.unflushed = h.unflushed /\ u.out = {r}
  BY ZenonT(60), <1>4, <1>7, <1>8 DEF TableType, Same, SameCalls, SameQueues,
       SameBusy, SameWaits, SameIndex, SameLanes
<1> HIDE <1>4
<1>10. /\ SameFacts(h, u) /\ SameTable(h, u) /\ Shorter(u.queue, h.queue)
       /\ u.others = h.others /\ u.rec = h.rec /\ u.req = h.req /\ SameWaits(h, u)
       /\ SameCalls(h, u) /\ u.directRunning = h.directRunning
  BY <1>7, <1>9, ShorterSame DEF TableType, Same, SameCalls, SameQueues, SameBusy,
       SameFacts, SameTable
<1>11. Books(u, {})
  BY <1>6, <1>7, <1>9, <1>10, QuietBooks
<1>12. Owed(u) = Owed(h)
  BY <1>10, OwedSame
<1>13. Moves(h, u, {c}, {})
  <2>1. Due(h, {c}) = Owed(h) \cup {c} /\ Due(u, {}) = Owed(h)
    BY <1>12 DEF Due
  <2>2. Answers(h, u, {c}, {})
    BY <1>7, <1>8, <1>9, <2>1 DEF Answers
  <2>3. r.owner \notin Calls
    BY <1>3, CallsNat DEF Reply, NoCall
  <2>4. Fate(h, u, {c})
    BY <1>7, <1>9, <1>10, <2>3 DEF Fate, Live, Phase, SameCalls
  <2> QED
    BY <2>2, <2>4 DEF Moves
<1>14. Accepts(h, u) /\ Reports(h, u)
  BY <1>8, <1>9, <1>10 DEF Accepts, Reports
<1>15. \E m \in batch'[Reader] : m.to = c
  <2>1. batch'[Reader] = u.out
    BY <1>5, ThreadsApart DEF Unlock, ServiceInv, ServiceTypes
  <2> QED
    BY <1>8, <1>9, <2>1
<1>16. /\ \A d \in Calls : Live(u, d) => Live(tbl, d)
       /\ u.held \subseteq tbl.held
  BY <1>7, <1>10 DEF Live, Phase, SameWaits
<1> QED
  BY <1>0, <1>1, <1>5, <1>6, <1>9, <1>10, <1>11, <1>13, <1>14, <1>15, <1>16,
     HeardSection

\* A call after the session's end is heard and not answered.
LEMMA ReceiveEndedReply ==
  ASSUME ServiceInv, ServiceInv', ReplyInv, ReceiveEnded
  PROVE  ReplyInv'
<1>0. /\ stage[Reader] = "counted" /\ Free /\ tbl.ended
      /\ UNCHANGED <<sent, dropped, after, replies, recorded>>
  BY DEF ReceiveEnded, ReceiveEnabled, readerUnchanged, ioVars, hostVars, closeVars
<1>1. PICK c : c = Call
  OBVIOUS
<1>2. PICK h : h = Heard
  OBVIOUS
<1>3. Hears(h) /\ Books(h, {}) /\ Hand = {}
  BY <1>0, <1>2, HeardTables
<1>4. /\ h \in TableType /\ h.high = c /\ h.out = tbl.out /\ tbl.out = {}
      /\ h.ended = tbl.ended /\ h.report = tbl.report /\ h.revoked = tbl.revoked
      /\ h.unflushed = tbl.unflushed /\ h.directRunning = tbl.directRunning
      /\ \A d \in Calls : d <= tbl.high => h.req[d] = tbl.req[d]
      /\ h.rec = tbl.rec /\ h.held = tbl.held /\ h.others = tbl.others
      /\ c = tbl.high + 1
  BY <1>1, <1>3 DEF Hears, SameBusy, SameWaits, Call
<1>5. Unlock(Reader, h, "mark")
  BY <1>2 DEF ReceiveEnded
<1>6. OnceInv /\ PlaceInv /\ FateInv /\ ReportInv /\ KindInv(tbl)
  BY DEF ReplyInv, Books
<1>7. /\ Carries(h, Reader) /\ PlaceInv' /\ Books(tbl', {})
      /\ Same(h, tbl') /\ tbl'.unflushed = h.unflushed
      /\ stage'[Reader] = "mark"
      /\ \A v \in Threads \ {Reader} : stage'[v] = stage[v]
  BY <1>0, <1>3, <1>4, <1>5, <1>6, UnlockFlow, ThreadsApart
<1>8. /\ tbl'.high = c /\ tbl'.report = tbl.report /\ tbl'.ended
      /\ tbl'.req = h.req /\ tbl'.directRunning = tbl.directRunning
      /\ tbl'.rec = tbl.rec /\ tbl'.others = tbl.others
  BY <1>0, <1>4, <1>7 DEF Same, SameCalls, SameBusy
<1>9. Hand' = {}
  BY <1>7 DEF Hand
<1> HIDE DEF Hand
<1>10. Begins(h, {c})
  BY <1>1, <1>3, HearsBegins
<1>11. \A p \in Places : \A r \in At(p) : r.to \in Calls
  BY <1>6, PlacedTyped
<1>12. tbl.high \in Nat /\ tbl.high <= MaxCall
  BY <1>6, DueHeard
<1>13. /\ Fate(h, h, {c}) /\ Accepts(h, h) /\ Reports(h, h)
  BY MovesNot DEF Moves, Accepts, Reports
<1>14. FateInv'
  BY <1>6, <1>7, <1>10, <1>11, <1>12, <1>13, FlowFate
<1>15. ReportInv'
  BY <1>0, <1>6, <1>7, <1>8, <1>10, <1>11, <1>12, <1>13, FlowReport
<1>16. OnceInv'
  <2>1. batch[Reader] = {}
    BY <1>0, <1>6, ThreadsApart DEF PlaceInv
  <2>2. ASSUME NEW p \in Places PROVE At(p)' = At(p)
    <3>1. /\ tbl'.out = {} /\ batch'[Reader] = {}
          /\ \A t \in Threads \ {Reader} : batch'[t] = batch[t]
      BY <1>4, <1>7, ThreadsApart DEF Carries
    <3>2. CASE p = NoThread
      BY <1>4, <3>1, <3>2, AtFacts, AtNext
    <3>3. CASE p = Wire
      BY <1>0, <3>3, AtFacts, AtNext
    <3>4. CASE p \in Threads
      BY <2>1, <3>1, <3>4, AtFacts, AtNext
    <3> QED
      BY <3>2, <3>3, <3>4, PlaceFacts
  <2>3. Due(tbl', Hand') = Due(tbl, Hand)
    BY <1>3, <1>8, <1>9 DEF Due, Owed, Live, Phase
  <2>4. Due(tbl, Hand)' = Due(tbl, Hand)
    BY <2>3 DEF Due, Owed, Live, Phase
  <2>5. \A p \in Places : \A r \in At(p) : r.to <= tbl'.high
    BY <1>4, <1>6, <1>8, <1>11, <1>12, CallsNat DEF OnceInv
  <2> QED
    BY <1>6, <1>8, <2>2, <2>4, <2>5 DEF OnceInv
<1>17. Flushing(Reader) /\ Flushing(Reader)'
  BY <1>0, <1>7, ThreadsApart DEF Flushing
<1>18. OnlyMoves(Reader, "mark")
  BY <1>7 DEF OnlyMoves
<1>19. TallyInv'
  BY <1>0, <1>4, <1>7, <1>8, <1>17, <1>18, TallyMoves, ThreadsApart
<1>20. OverInv'
  BY <1>0, <1>4, <1>5, SectionOver, ThreadsApart DEF Live, Phase
<1>21. Books(tbl, Hand)'
  BY <1>7, <1>9, BooksNext
<1> QED
  BY <1>7, <1>14, <1>15, <1>16, <1>19, <1>20, <1>21 DEF ReplyInv

\* A cancellation arrives; what it settles makes room to schedule.
LEMMA ReceiveCancelReply ==
  ASSUME ServiceInv, ServiceInv', ReplyInv, ReceiveCancel
  PROVE  ReplyInv'
<1> DEFINE types == {"Cancel", "CancelOp"}
<1>0. Takes(types) /\ "Close" \notin types /\ UNCHANGED readerUnchanged
  BY DEF ReceiveCancel
<1>1. PICK c : c = Call
  OBVIOUS
<1>2. PICK f : f = Fresh
  OBVIOUS
<1>3. /\ f \in TableType /\ TableInv(f, NoCall) /\ Books(f, {c})
      /\ c \in Calls /\ c <= f.high /\ f.req[c] = incoming
      /\ incoming.type \in types /\ Hears(f)
      /\ stage[Reader] = "counted" /\ Free
  BY <1>0, <1>1, <1>2, TakenFacts
<1>4. PICK u : u = Cancel(f, c)
  OBVIOUS
<1>5. Control(f.req[c])
  BY <1>3 DEF Control
<1>6. /\ u \in TableType /\ SameCalls(f, u) /\ SameWaits(f, u)
      /\ u.directRunning = f.directRunning
  BY <1>3, <1>4, <1>5, CancelKeeps
<1>7. /\ u.unflushed = f.unflushed /\ Books(u, {}) /\ Moves(f, u, {c}, {})
      /\ Plainly(f, u)
  BY <1>3, <1>4, CancelBooks
<1>8. \/ Unlock(Reader, u, "mark")
      \/ ThenSchedule(Reader, u)
  BY <1>1, <1>2, <1>4 DEF ReceiveCancel
<1> HIDE DEF types
<1>9. CASE Unlock(Reader, u, "mark")
  BY <1>0, <1>1, <1>2, <1>6, <1>7, <1>9, TakesReply
<1>10. CASE ThenSchedule(Reader, u)
  <2>1. /\ tbl' = u /\ lock' = Reader /\ Goto(Reader, "sched")
        /\ UNCHANGED <<batch, sent, dropped, after, replies, recorded>>
    BY <1>0, <1>10 DEF ThenSchedule, readerUnchanged, ioVars, hostVars, closeVars
  <2>2. OnlyMoves(Reader, "sched")
    BY <2>1, GotoMoves, ThreadsApart
  <2>3. ~tbl.closing /\ ~tbl.report
    <3>1. ~tbl.closing
      BY <1>0, <1>3 DEF Takes, ReceiveEnabled, Refuses
    <3> QED
      BY <3>1, ReportCloses
  <2>4. /\ f.unflushed = tbl.unflushed /\ f.directRunning = tbl.directRunning
        /\ f.ended = tbl.ended /\ f.report = tbl.report /\ f.revoked = tbl.revoked
        /\ \A d \in Calls : d <= tbl.high => f.req[d] = tbl.req[d]
    BY <1>3 DEF Hears, SameBusy
  <2>5. /\ tbl'.unflushed = tbl.unflushed /\ tbl'.directRunning = tbl.directRunning
        /\ tbl'.ended = tbl.ended /\ tbl'.report = tbl.report
        /\ tbl'.revoked = tbl.revoked
        /\ \A d \in Calls : d <= tbl.high => tbl'.req[d] = tbl.req[d]
    BY <1>6, <1>7, <2>1, <2>4 DEF SameCalls
  <2>6. batch[Reader] = {} /\ PlaceInv
    BY <1>3, ThreadsApart DEF ReplyInv, PlaceInv
  <2>7. StaysIn
    BY <2>1, <2>2, <2>5, <2>6, ThreadsApart DEF StaysIn, Kept, OnlyMoves
  <2>8. Carries(tbl', NoThread) /\ PlaceInv'
    BY <2>6, <2>7, StayFlow
  <2>9. Hand = {} /\ Hand' = {}
    BY <1>3, <2>2 DEF Hand, OnlyMoves
  <2>10. Accepts(f, u) /\ Reports(f, u)
    BY <1>7, PlainKinds
  <2> HIDE DEF Hand
  <2>11. OnceInv' /\ FateInv' /\ ReportInv'
    BY <1>1, <1>3, <1>6, <1>7, <2>1, <2>3, <2>5, <2>8, <2>9, <2>10, HeardFlow
  <2>12. Flushing(Reader) /\ Flushing(Reader)'
    BY <1>3, <2>2, ThreadsApart DEF Flushing, OnlyMoves
  <2>13. TallyInv'
    BY <2>1, <2>2, <2>5, <2>12, TallyMoves, ThreadsApart
  <2>14. Steady
    BY <2>1, <2>2, <2>5, ThreadsApart DEF Steady, OnlyMoves
  <2>15. OverInv'
    BY <2>3, <2>14, OverKept DEF ReplyInv
  <2>16. Books(tbl, Hand)'
    BY <1>7, <2>1, <2>9, BooksNext
  <2> QED
    BY <2>8, <2>11, <2>13, <2>15, <2>16 DEF ReplyInv
<1> QED
  BY <1>8, <1>9, <1>10

\* A session close arrives: it is told the report there is, or waits for it.
LEMMA ReceiveCloseReply ==
  ASSUME ServiceInv, ServiceInv', ReplyInv, ReceiveClose
  PROVE  ReplyInv'
<1> DEFINE types == {"Close"}
<1>0. Takes(types) /\ ~tbl.ended
      /\ UNCHANGED <<sent, dropped, after, replies, recorded>>
  BY DEF ReceiveClose, Takes, readerUnchanged, ioVars, hostVars, closeVars
<1>1. PICK c : c = Call
  OBVIOUS
<1>2. PICK f : f = Fresh
  OBVIOUS
<1>3. /\ f \in TableType /\ Books(f, {c}) /\ c \in Calls /\ c <= f.high
      /\ f.req[c] = incoming /\ f.high = c
      /\ incoming.type \in types /\ Hears(f)
      /\ stage[Reader] = "counted" /\ Free
  BY <1>0, <1>1, <1>2, TakenFacts
<1>4. f.req[c].type = "Close"
  BY <1>3
<1> HIDE DEF types
<1>5. /\ f.rec = tbl.rec /\ f.held = tbl.held /\ f.out = {}
      /\ \A d \in Calls : d <= tbl.high => f.req[d] = tbl.req[d]
  BY <1>3 DEF Hears, SameWaits
<1>6. CASE tbl.report
  <2>1. PICK r : r = Reply(c, "report")
    OBVIOUS
  <2>2. PICK u : u = Answered(f, c, r)
    OBVIOUS
  <2>3. "report" \in Says
    BY DEF Says
  <2>4. /\ Answer(f, c, "report") = Answered(f, c, r)
        /\ r \in ReplyType /\ r.to = c /\ r.what = "report" /\ r.owner \notin Calls
    BY <1>3, <2>1, <2>3, AnswerReply
  <2>5. Unlock(Reader, u, "mark")
    BY <1>1, <1>2, <1>6, <2>2, <2>4 DEF ReceiveClose
  <2> HIDE DEF Answered
  <2>6. /\ u \in TableType /\ Books(u, {}) /\ Moves(f, u, {c}, {})
        /\ u.rec = f.rec /\ u.out = f.out \cup {r}
        /\ SameCalls(f, u) /\ SameBusy(f, u) /\ SameWaits(f, u)
        /\ u.unflushed = f.unflushed
    BY <1>3, <2>2, <2>4, AnsweredBooks
  <2>7. /\ tbl' = [u EXCEPT !.out = {}]
        /\ batch' = [batch EXCEPT ![Reader] = u.out]
    BY <2>5 DEF Unlock
  <2>8. batch'[Reader] = u.out /\ tbl'.req = f.req
    <3>1. batch'[Reader] = u.out
      BY <2>7, ThreadsApart DEF ServiceInv, ServiceTypes
    <3>2. Same(u, tbl')
      BY <2>6, <2>7, HandedOut
    <3> QED
      BY <2>6, <3>1, <3>2 DEF Same, SameCalls
  <2>9. ASSUME NEW d \in 1 .. c - 1 PROVE Out(d)'
    <3>1. tbl.high \in Nat /\ tbl.high <= MaxCall /\ c = tbl.high + 1
      BY <1>1, DueHeard DEF Call, ReplyInv, Books
    <3>2. d \in 1 .. tbl.high /\ d \in Calls /\ d <= tbl.high
      BY <3>1, LimitsAssumption DEF Calls
    <3>3. batch[Reader] = {}
      BY <1>3, ThreadsApart DEF ReplyInv, PlaceInv
    <3>4. Out(d)
      BY <1>0, <1>6, <3>2, <3>3 DEF ReplyInv, ReportInv
    <3>5. tbl'.req[d] = tbl.req[d]
      BY <1>5, <2>8, <3>2
    <3> QED
      BY <1>0, <3>4, <3>5 DEF Out
  <2>10. Accepts(f, u) /\ Reports(f, u)
    BY <1>5, <2>4, <2>6, <2>9 DEF Accepts, Reports
  <2>11. \E m \in batch'[Reader] : m.to = c
    BY <2>4, <2>6, <2>8
  <2>12. /\ \A d \in Calls : Live(u, d) => Live(tbl, d)
         /\ u.held \subseteq tbl.held
    BY <1>5, <2>6 DEF Live, Phase, SameWaits
  <2>13. u.directRunning = f.directRunning
    BY <2>6 DEF SameBusy
  <2> QED
    BY <1>0, <1>1, <1>3, <2>5, <2>6, <2>10, <2>11, <2>12, <2>13, HeardSection
<1>7. CASE ~tbl.report
  <2> DEFINE label == IF tbl.closeStarted THEN "mark" ELSE "close"
  <2>1. PICK u : u = [f EXCEPT !.others = @ \cup {c}, !.closers = @ \cup {c}]
    OBVIOUS
  <2>2. Unlock(Reader, u, label)
    BY <1>1, <1>2, <1>7, <2>1 DEF ReceiveClose
  <2>3. /\ u \in TableType
        /\ SameCalls(f, u) /\ SameQueues(f, u) /\ SameBusy(f, u)
        /\ u.rec = f.rec /\ u.held = f.held
        /\ u.others = f.others \cup {c} /\ u.closers = f.closers \cup {c}
        /\ u.out = f.out /\ u.unflushed = f.unflushed
        /\ SameIndex(f, u) /\ SameLanes(f, u)
    BY ZenonT(60), <1>3, <2>1
       DEF TableType, SameCalls, SameQueues, SameBusy, SameIndex, SameLanes
  <2> HIDE <2>1
  <2>4. SameTable(f, u) /\ Shorter(u.queue, f.queue)
    BY <1>3, <2>3, ShorterSame
       DEF TableType, SameCalls, SameQueues, SameBusy, SameIndex, SameTable
  <2>5. Joins(f, u, c)
    BY <1>3, <1>4, <2>3, <2>4 DEF Joins, WaitsOn
  <2>6. Books(u, {}) /\ Moves(f, u, {c}, {}) /\ Plainly(f, u)
    BY <1>3, <2>3, <2>5, WaitBooks
  <2>7. Accepts(f, u) /\ Reports(f, u)
    BY <2>6, PlainKinds
  <2>8. /\ \A d \in Calls : Live(u, d) => Live(tbl, d)
        /\ u.held \subseteq tbl.held /\ u.out = {}
    BY <1>5, <2>3 DEF Live, Phase
  <2>9. u.directRunning = f.directRunning
    BY <2>3 DEF SameBusy
  <2>10. label \in {"mark", "close"} /\ label # "spool"
    OBVIOUS
  <2> HIDE DEF label
  <2> QED
    BY <1>0, <1>1, <1>3, <1>7, <2>2, <2>3, <2>6, <2>7, <2>8, <2>9, <2>10,
       HeardSection
<1> QED
  BY <1>6, <1>7

-----------------------------------------------------------------------------
(* A batch is marked and sent. *)

\* The views a batch delivers are marked.
LEMMA FlushMarkReply ==
  ASSUME ServiceInv, ServiceInv', ReplyInv, NEW t \in Threads, FlushMark(t)
  PROVE  ReplyInv'
<1>0. /\ tbl \in TableType /\ TableInv(tbl, NoCall) /\ Books(tbl, Hand)
      /\ batch[t] \subseteq ReplyType /\ stage \in [Threads -> AllStages]
  BY TableFacts DEF ServiceInv, ServiceTypes, StageTypes
<1>1. /\ stage[t] = "mark" /\ Goto(t, "send")
      /\ tbl' = MarkDelivered(tbl, batch[t])
      /\ UNCHANGED <<lock, batch, sent, dropped, after, replies, recorded>>
  BY DEF FlushMark, ioVars, hostVars, closeVars
<1>2. OnlyMoves(t, "send")
  BY <1>1, GotoMoves
<1>3. /\ SameCalls(tbl, tbl') /\ SameBusy(tbl, tbl') /\ SameWaits(tbl, tbl')
      /\ tbl'.others = tbl.others
      /\ \A d \in Calls : Phase(tbl', d) = Phase(tbl, d)
  BY <1>0, <1>1, MarkDeliveredKeeps
<1>4. /\ Books(tbl', Hand) /\ SameFacts(tbl, tbl')
      /\ tbl'.unflushed = tbl.unflushed /\ tbl'.out = tbl.out
      /\ \A c \in Calls : \A v \in tbl'.rec[c].views :
           v \in tbl.rec[c].views \/ \E r \in batch[t] : r.owner = c /\ r.view = v
  BY <1>0, <1>1, MarkBooks
<1>5. Hand' = Hand
  BY <1>1, <1>2, <1>3, ThreadsApart DEF Hand, OnlyMoves, SameCalls
<1>6. ASSUME NEW p \in Places PROVE At(p)' = At(p)
  <2>1. CASE p = NoThread
    BY <1>4, <2>1, AtFacts, AtNext
  <2>2. CASE p = Wire
    BY <1>1, <2>2, AtFacts, AtNext
  <2>3. CASE p \in Threads
    BY <1>1, <2>3, AtFacts, AtNext
  <2> QED
    BY <2>1, <2>2, <2>3, PlaceFacts
<1>7. Due(tbl, Hand)' = Due(tbl, Hand)
  BY <1>3, <1>4, <1>5 DEF Due, Owed, Live, Phase, SameFacts
<1> HIDE DEF Hand
<1>8. tbl'.high = tbl.high /\ tbl'.req = tbl.req /\ tbl'.ended = tbl.ended
      /\ tbl'.report = tbl.report /\ tbl'.revoked = tbl.revoked
  BY <1>3 DEF SameCalls
<1>9. OnceInv'
  BY <1>6, <1>7, <1>8 DEF ReplyInv, OnceInv
<1>10. PlaceInv'
  <2>1. ASSUME NEW v \in Threads, batch'[v] # {}
        PROVE  stage'[v] \in {"mark", "send"}
    BY <1>1, <1>2, <2>1 DEF ReplyInv, PlaceInv, OnlyMoves
  <2> QED
    BY <1>1, <1>4, <2>1 DEF ReplyInv, PlaceInv, Free
<1>11. TallyInv'
  <2>1. Flushing(t)' <=> Flushing(t)
    BY <1>1, <1>2 DEF Flushing, OnlyMoves
  <2> QED
    BY <1>1, <1>2, <1>3, <1>4, <1>8, <2>1, TallyMoves DEF SameBusy
<1>12. OverInv'
  <2>1. (Over' <=> Over) /\ (Reported' <=> Reported)
    BY <1>1, <1>2, ThreadsApart DEF Over, Reported, OnlyMoves
  <2>2. RunningCalls(tbl') = RunningCalls(tbl) /\ tbl'.held = tbl.held
    BY <1>3 DEF SameWaits, RunningCalls
  <2>3. tbl.ended => stage'[Closer] = "done"
    BY <1>1, <1>2, ThreadsApart DEF ReplyInv, OverInv, OnlyMoves
  <2> QED
    BY <1>1, <1>8, <2>1, <2>2, <2>3 DEF ReplyInv, OverInv
<1>13. ReportInv'
  <2>1. \A c : Out(c)' <=> Out(c)
    BY <1>1, <1>8 DEF Out
  <2> QED
    BY <1>1, <1>6, <1>8, <2>1 DEF ReplyInv, ReportInv
<1>15. HandedOver \subseteq HandedOver' /\ batch[t] \subseteq HandedOver'
  <2>1. /\ \A v \in Threads : stage[v] = "send" => stage'[v] = "send"
        /\ stage'[t] = "send"
    BY <1>1, <1>2 DEF OnlyMoves
  <2> QED
    BY <1>1, <2>1 DEF HandedOver
<1>16. FateInv'
  <2>1. ASSUME NEW c, NEW v, Seen(c, v) PROVE Seen(c, v)'
    BY <1>15, <2>1 DEF Seen
  <2>2. ASSUME NEW c \in Calls, NEW v, v \in tbl'.rec[c].views PROVE Seen(c, v)'
    <3>1. CASE v \in tbl.rec[c].views
      BY <2>1, <3>1 DEF ReplyInv, FateInv
    <3>2. CASE \E r \in batch[t] : r.owner = c /\ r.view = v
      BY <1>15, <3>2 DEF Seen
    <3> QED
      BY <1>4, <2>2, <3>1, <3>2
  <2>3. ASSUME NEW c, Released(c) PROVE Released(c)'
    BY <1>6, <1>8, <2>3 DEF Released
  <2>4. ASSUME NEW c \in Calls, NEW p \in Places, Reply(c, "accepted") \in At(p)'
        PROVE  \/ tbl'.rec[c].accepted
               \/ Released(c)'
               \/ \A v \in IF tbl'.req[c].view THEN Views ELSE {"Result"} : Seen(c, v)'
    <3>1. \/ tbl.rec[c].accepted
          \/ Released(c)
          \/ \A v \in IF tbl.req[c].view THEN Views ELSE {"Result"} : Seen(c, v)
      BY <1>6, <2>4 DEF ReplyInv, FateInv
    <3>2. tbl'.rec[c].accepted = tbl.rec[c].accepted
      BY <1>4 DEF SameFacts
    <3> QED
      BY <1>8, <2>1, <2>3, <3>1, <3>2
  <2>5. /\ \A c \in Calls : tbl'.rec[c].accepted = tbl.rec[c].accepted
        /\ \A c \in Calls : Live(tbl, c)' <=> Live(tbl, c)
    BY <1>3, <1>4 DEF SameFacts, Live, Phase
  <2>6. /\ \A c \in Calls : tbl'.rec[c].accepted =>
             \E p \in Places : Reply(c, "accepted") \in At(p)'
        /\ \A p \in Places : \A r \in At(p)' : r.owner \in Calls =>
             r.owner <= tbl'.high /\ ~Live(tbl, r.owner)'
    BY <1>6, <1>8, <2>5 DEF ReplyInv, FateInv
  <2> QED
    BY <2>2, <2>4, <2>6 DEF FateInv
<1>17. Books(tbl, Hand)'
  BY <1>4, <1>5, BooksNext
<1> QED
  BY <1>9, <1>10, <1>11, <1>12, <1>13, <1>16, <1>17 DEF ReplyInv

\* One reply passes the channel, or is refused by it.
LEMMA FlushSendReply ==
  ASSUME ServiceInv, ServiceInv', ReplyInv, NEW t \in Threads, NEW r,
         FlushSend(t, r) \/ FlushFull(t, r)
  PROVE  ReplyInv'
<1>0. batch \in [Threads -> SUBSET ReplyType] /\ Books(tbl, Hand)
  BY TableFacts DEF ServiceInv, ServiceTypes
<1>1. /\ stage[t] = "send" /\ r \in batch[t]
      /\ batch' = [batch EXCEPT ![t] = @ \ {r}]
      /\ UNCHANGED <<tbl, lock, stage, after, replies, recorded>>
  BY DEF FlushSend, FlushFull, hostVars, closeVars
<1>2. sent' \cup dropped' = (sent \cup dropped) \cup {r}
  <2>1. CASE FlushSend(t, r)
    BY <2>1 DEF FlushSend
  <2>2. CASE FlushFull(t, r)
    BY <2>2 DEF FlushFull
  <2> QED
    BY <2>1, <2>2
<1>3. /\ batch'[t] = batch[t] \ {r}
      /\ \A v \in Threads \ {t} : batch'[v] = batch[v]
  BY <1>0, <1>1
<1>4. Hand' = Hand /\ Due(tbl, Hand)' = Due(tbl, Hand)
  BY <1>1 DEF Hand, Due, Owed, Live, Phase
<1> HIDE DEF Hand
\* Every reply stays where it is, but for the one sent.
<1> DEFINE To(p, m) == IF m = r /\ p = t THEN Wire ELSE p
<1>5. \A p \in Places : \A m \in At(p) : To(p, m) \in Places /\ m \in At(To(p, m))'
  <2>0. SUFFICES ASSUME NEW p \in Places, NEW m \in At(p)
                 PROVE  To(p, m) \in Places /\ m \in At(To(p, m))'
    OBVIOUS
  <2>1. CASE m = r /\ p = t
    BY <1>2, <2>1, PlaceFacts, AtNext
  <2>2. CASE ~(m = r /\ p = t)
    <3>1. To(p, m) = p
      BY <2>2
    <3>2. CASE p = NoThread
      BY <1>1, <3>1, <3>2, AtFacts, AtNext, PlaceFacts
    <3>3. CASE p = Wire
      BY <1>2, <3>1, <3>3, AtFacts, AtNext, PlaceFacts
    <3>4. CASE p \in Threads
      BY <1>3, <2>2, <3>1, <3>4, AtFacts, AtNext, PlaceFacts
    <3> QED
      BY <3>2, <3>3, <3>4, PlaceFacts
  <2> QED
    BY <2>1, <2>2
<1>6. \A p \in Places : \A m \in At(p)' :
        \E q \in Places : m \in At(q) /\ p = To(q, m)
  <2>0. SUFFICES ASSUME NEW p \in Places, NEW m, m \in At(p)'
                 PROVE  \E q \in Places : m \in At(q) /\ p = To(q, m)
    OBVIOUS
  <2>1. CASE p = Wire /\ m = r
    <3>1. t \in Places /\ m \in At(t) /\ p = To(t, m)
      BY <1>1, <2>1, PlaceFacts, AtFacts
    <3> QED
      BY <3>1
  <2>2. CASE ~(p = Wire /\ m = r)
    <3>1. CASE p = NoThread
      <4>1. m \in At(p)
        BY <1>1, <2>0, <3>1, AtFacts, AtNext
      <4> QED
        BY <3>1, <4>1, PlaceFacts
    <3>2. CASE p = Wire
      <4>1. m \in At(p)
        BY <1>2, <2>0, <2>2, <3>2, AtFacts, AtNext
      <4> QED
        BY <3>2, <4>1, PlaceFacts
    <3>3. CASE p \in Threads
      <4>1. m \in At(p) /\ ~(m = r /\ p = t)
        BY <1>3, <2>0, <3>3, AtFacts, AtNext
      <4> QED
        BY <4>1
    <3> QED
      BY <3>1, <3>2, <3>3, PlaceFacts
  <2> QED
    BY <2>1, <2>2
<1> HIDE DEF To
<1>7. OnceInv'
  <2>1. ASSUME NEW p \in Places, NEW q \in Places, NEW m, NEW n,
               m \in At(p)', n \in At(q)', m.to = n.to
        PROVE  p = q /\ m = n
    <3>1. PICK a \in Places : m \in At(a) /\ p = To(a, m)
      BY <1>6, <2>1
    <3>2. PICK b \in Places : n \in At(b) /\ q = To(b, n)
      BY <1>6, <2>1
    <3> QED
      BY <2>1, <3>1, <3>2 DEF ReplyInv, OnceInv
  <2>2. ASSUME NEW p \in Places, NEW m, m \in At(p)'
        PROVE  m.to <= tbl'.high /\ m.to \notin Due(tbl, Hand)'
    BY <1>1, <1>4, <1>6, <2>2 DEF ReplyInv, OnceInv
  <2>3. ASSUME ~tbl'.ended, NEW c \in 1 .. tbl'.high
        PROVE  c \in Due(tbl, Hand)' \/ \E p \in Places : \E m \in At(p)' : m.to = c
    <3>1. c \in Due(tbl, Hand) \/ \E p \in Places : \E m \in At(p) : m.to = c
      BY <1>1, <2>3 DEF ReplyInv, OnceInv
    <3> QED
      BY <1>4, <1>5, <3>1
  <2> QED
    BY <2>1, <2>2, <2>3 DEF OnceInv
<1>8. PlaceInv'
  <2>1. r \in ReplyType
    BY <1>0, <1>1
  <2>2. sent' \cup dropped' \subseteq ReplyType
    BY <1>2, <2>1 DEF ReplyInv, PlaceInv
  <2>3. ASSUME NEW v \in Threads, batch'[v] # {} PROVE stage'[v] \in {"mark", "send"}
    BY <1>1, <1>3, <2>3 DEF ReplyInv, PlaceInv
  <2> QED
    BY <1>1, <2>2, <2>3 DEF ReplyInv, PlaceInv, Free
<1>9. TallyInv'
  <2>1. \A v \in Threads : Flushing(v)' <=> Flushing(v)
    BY <1>1, FlushSame
  <2>2. tbl'.unflushed = Cardinality(InFlight')
    BY <1>1, <2>1, TallyKept DEF ReplyInv
  <2>3. DirectInv'
    BY <1>1 DEF ReplyInv, TallyInv, DirectInv, DirectThreads
  <2> QED
    BY <2>2, <2>3 DEF TallyInv
<1>10. OverInv'
  BY <1>1, OverKept DEF ReplyInv, Steady
<1>11. \A c : Out(c) => Out(c)'
  BY <1>1, <1>2 DEF Out
<1>12. ReportInv'
  <2>1. ASSUME NEW p \in Places, NEW m, m \in At(p)', m.what = "report"
        PROVE  \A c \in 1 .. m.to - 1 : Out(c)'
    BY <1>6, <1>11, <2>1 DEF ReplyInv, ReportInv
  <2>2. ASSUME tbl'.report, ~tbl'.ended, NEW c \in 1 .. tbl'.high
        PROVE  Out(c)' \/ \E m \in batch'[Reader] : m.to = c
    <3>1. Out(c) \/ \E m \in batch[Reader] : m.to = c
      BY <1>1, <2>2 DEF ReplyInv, ReportInv
    <3>2. CASE \E m \in batch[Reader] : m.to = c
      <4>1. PICK m \in batch[Reader] : m.to = c
        BY <3>2
      <4>2. CASE m \in batch'[Reader]
        BY <4>1, <4>2
      <4>3. CASE m \notin batch'[Reader]
        <5>1. m = r
          BY <1>3, <4>1, <4>3, ThreadsApart
        <5> QED
          BY <1>2, <4>1, <5>1 DEF Out
      <4> QED
        BY <4>2, <4>3
    <3> QED
      BY <1>11, <3>1, <3>2
  <2> QED
    BY <2>1, <2>2 DEF ReportInv
<1>13. FateInv'
  <2>1. HandedOver \subseteq HandedOver'
    <3>1. ASSUME NEW m \in HandedOver PROVE m \in HandedOver'
      <4>1. CASE m \in sent \cup dropped
        BY <1>2, <4>1 DEF HandedOver
      <4>2. CASE m \notin sent \cup dropped
        <5>1. PICK v \in Threads : stage[v] = "send" /\ m \in batch[v]
          BY <4>2 DEF HandedOver
        <5>2. m = r \/ m \in batch'[v]
          BY <1>3, <5>1
        <5>3. stage'[v] = "send"
          BY <1>1, <5>1
        <5> QED
          BY <1>2, <5>2, <5>3 DEF HandedOver
      <4> QED
        BY <4>1, <4>2
    <3> QED
      BY <3>1
  <2>2. ASSUME NEW c, NEW v, Seen(c, v) PROVE Seen(c, v)'
    BY <2>1, <2>2 DEF Seen
  <2>3. ASSUME NEW c, Released(c) PROVE Released(c)'
    BY <1>1, <1>5, <2>3 DEF Released
  <2>4. ASSUME NEW c \in Calls, NEW p \in Places, Reply(c, "accepted") \in At(p)'
        PROVE  \/ tbl'.rec[c].accepted
               \/ Released(c)'
               \/ \A v \in IF tbl'.req[c].view THEN Views ELSE {"Result"} : Seen(c, v)'
    <3>1. \E q \in Places : Reply(c, "accepted") \in At(q)
      BY <1>6, <2>4
    <3>2. \/ tbl.rec[c].accepted
          \/ Released(c)
          \/ \A v \in IF tbl.req[c].view THEN Views ELSE {"Result"} : Seen(c, v)
      BY <3>1 DEF ReplyInv, FateInv
    <3> QED
      BY <1>1, <2>2, <2>3, <3>2
  <2>5. \A c \in Calls : \A v \in tbl'.rec[c].views : Seen(c, v)'
    BY <1>1, <2>2 DEF ReplyInv, FateInv
  <2>6. ASSUME NEW c \in Calls, tbl'.rec[c].accepted
        PROVE  \E p \in Places : Reply(c, "accepted") \in At(p)'
    <3>1. \E p \in Places : Reply(c, "accepted") \in At(p)
      BY <1>1, <2>6 DEF ReplyInv, FateInv
    <3> QED
      BY <1>5, <3>1
  <2>7. ASSUME NEW p \in Places, NEW m, m \in At(p)', m.owner \in Calls
        PROVE  m.owner <= tbl'.high /\ ~Live(tbl, m.owner)'
    <3>1. \E q \in Places : m \in At(q)
      BY <1>6, <2>7
    <3> QED
      BY <1>1, <2>7, <3>1 DEF ReplyInv, FateInv, Live, Phase
  <2> QED
    BY <2>4, <2>5, <2>6, <2>7 DEF FateInv
<1>14. Books(tbl, Hand)'
  BY <1>0, <1>1, <1>4, BooksNext
<1> QED
  BY <1>7, <1>8, <1>9, <1>10, <1>12, <1>13, <1>14 DEF ReplyInv

-----------------------------------------------------------------------------
(* The close report. *)

\* When the close may report, nothing is on its way, and every call heard is a
\* session close or has its reply past the channel.
LEMMA AllOut ==
  ASSUME ServiceInv, ReplyInv, stage[Closer] = "report", Free, tbl.unflushed = 0
  PROVE  /\ Hand = {} /\ \A t \in Threads : ~Flushing(t)
         /\ tbl.out = {} /\ tbl.others \subseteq tbl.closers
         /\ tbl.closing /\ ~tbl.ended /\ tbl.held = {}
         /\ \A c \in 1 .. tbl.high : Out(c)
<1>0. /\ tbl \in TableType /\ TableInv(tbl, NoCall) /\ KindInv(tbl)
  BY TableFacts DEF Books
<1>1. \A t \in Threads : ~Flushing(t)
  <2>1. IsFiniteSet(InFlight)
    BY ThreadsFinite, FS_Subset DEF InFlight
  <2>2. Cardinality(InFlight) = 0
    BY DEF ReplyInv, TallyInv
  <2>3. InFlight = {}
    BY <2>1, <2>2, FS_EmptySet
  <2> QED
    BY <2>3 DEF InFlight
<1>2. Hand = {}
  BY <1>1, ThreadsApart DEF Hand, Flushing
<1>3. ASSUME NEW t \in Threads PROVE batch[t] = {}
  <2>1. stage[t] \notin {"mark", "send"}
    BY <1>1 DEF Flushing
  <2> QED
    BY <2>1 DEF ReplyInv, PlaceInv
<1>4. tbl.out = {}
  BY DEF ReplyInv, PlaceInv
<1>5. /\ \A c \in Calls : ~Live(tbl, c)
      /\ tbl.closing /\ tbl.held = {}
  BY OverDead DEF ReplyInv, Over
<1>6. ~tbl.ended
  BY DEF ReplyInv, OverInv
<1>7. ASSUME NEW c \in tbl.others PROVE c \in tbl.closers
  <2>1. ASSUME NEW d \in Calls PROVE tbl.rec[d].waiters = {}
    <3>1. tbl.rec[d].phase \in Phases /\ ~Live(tbl, d)
      BY <1>0, <1>5 DEF TableType, RecordType
    <3>2. tbl.rec[d].phase \in {"None", "Terminal"}
      BY <3>1 DEF Live, Phase, Phases
    <3> QED
      BY <1>0, <3>2 DEF TableInv, RecordInv
  <2> QED
    BY <1>0, <1>5, <2>1 DEF TableInv, WaitInv
<1>8. ASSUME NEW c \in 1 .. tbl.high PROVE Out(c)
  <2>1. c \in Due(tbl, Hand) \/ \E p \in Places : \E r \in At(p) : r.to = c
    BY <1>6 DEF ReplyInv, OnceInv
  <2>2. CASE c \in Due(tbl, Hand)
    <3>1. c \in tbl.others
      BY <1>2, <1>5, <2>2 DEF Due, Owed
    <3> QED
      BY <1>0, <1>7, <3>1 DEF KindInv, Out
  <2>3. CASE \E p \in Places : \E r \in At(p) : r.to = c
    BY <1>3, <1>4, <2>3, PlaceFacts, AtFacts DEF Out
  <2> QED
    BY <2>1, <2>2, <2>3
<1> QED
  BY <1>1, <1>2, <1>4, <1>5, <1>6, <1>7, <1>8

\* The close reports to every waiting session close.
LEMMA CloseReportsReply ==
  ASSUME ServiceInv, ServiceInv', ReplyInv, CloseReports
  PROVE  ReplyInv'
<1>0. /\ tbl \in TableType /\ TableInv(tbl, NoCall) /\ Books(tbl, Hand)
      /\ tbl.high \in Nat /\ tbl.high <= MaxCall
  BY TableFacts, DueHeard DEF Books
<1>1. PICK told : told = IF replies THEN tbl.closers ELSE {}
  OBVIOUS
<1>2. PICK o : o = {Reply(c, "report") : c \in told}
  OBVIOUS
<1>3. PICK n : n = Less(tbl.controls, Cardinality(told))
  OBVIOUS
<1>4. PICK s : s = [tbl EXCEPT !.report = TRUE, !.closers = {}, !.unflushed = 1,
                               !.others = @ \ told, !.controls = n, !.out = o]
  OBVIOUS
<1>5. /\ stage[Closer] = "report" /\ Free /\ tbl.unflushed = 0
      /\ Unlock(Closer, s, "mark") /\ after' = "drain"
      /\ UNCHANGED <<sent, dropped, replies, recorded>>
  BY <1>1, <1>2, <1>3, <1>4 DEF CloseReports, CloseUnlock, closerUnchanged,
       hostVars, ioVars
<1>6. told = tbl.closers
  <2>1. ReaderInv /\ CloseInv
    BY DEF ServiceInv
  <2>2. tbl.closeStarted
    BY <1>5, <2>1 DEF CloseInv
  <2> QED
    BY <1>1, <2>1, <2>2 DEF ReaderInv
<1>7. n \in Nat /\ o \subseteq ReplyType
  <2>1. tbl.closers \subseteq Calls /\ tbl.controls \in Nat
    BY <1>0 DEF TableType
  <2>2. n \in Nat
    BY <1>3, <1>6, <2>1, CountNat, LessNat
  <2>3. "report" \in Says /\ "Result" \in Views
    BY DEF Says, Views
  <2>4. {Reply(c, "report") : c \in tbl.closers} \subseteq ReplyType
    BY <2>1, <2>3 DEF Reply, ReplyType
  <2> QED
    BY <1>2, <1>6, <2>2, <2>4
<1>8. s \in TableType
  <2>1. tbl.others \ told \subseteq Calls
    BY <1>0 DEF TableType
  <2> QED
    BY ZenonT(60), <1>0, <1>4, <1>7, <2>1 DEF TableType
<1>9. /\ SameBusy(tbl, s) /\ SameIndex(tbl, s)
      /\ s.high = tbl.high /\ s.req = tbl.req /\ s.revoked = tbl.revoked
      /\ s.closing = tbl.closing /\ s.ended = tbl.ended /\ s.report
      /\ s.rec = tbl.rec /\ s.queue = tbl.queue /\ s.held = tbl.held
      /\ s.closers = {} /\ s.others = tbl.others \ told
      /\ s.outstanding = tbl.outstanding /\ s.controls = n
      /\ s.out = o /\ s.unflushed = 1
  BY <1>0, <1>4 DEF TableType, SameBusy, SameIndex
<1> HIDE <1>4
<1>10. /\ Hand = {} /\ \A t \in Threads : ~Flushing(t)
       /\ tbl.out = {} /\ tbl.closing /\ ~tbl.ended /\ tbl.held = {}
       /\ \A c \in 1 .. tbl.high : Out(c)
  BY <1>5, AllOut
<1>11. \A c \in told : Control(tbl.req[c]) /\ c \in 1 .. tbl.high /\ c \in Calls
  <2>1. ASSUME NEW c \in told
        PROVE  c \in tbl.others /\ tbl.req[c].type = "Close" /\ c \in Calls
    BY <1>0, <1>6 DEF TableType, Books, KindInv
  <2> QED
    BY <1>0, <2>1, CallsNat DEF Books, KindInv, Control
<1>12. Tells(tbl, s, told, "report")
  <2>1. OffControl(tbl, told) = {} /\ OnControl(tbl, told) = told
    BY <1>11 DEF OffControl, OnControl
  <2>2. Cardinality({}) = 0
    BY FS_EmptySet
  <2>3. tbl.outstanding = Less(tbl.outstanding, Cardinality(OffControl(tbl, told)))
    BY <1>0, <2>1, <2>2, LessNone DEF TableType
  <2>4. Shorter(s.queue, tbl.queue)
    BY <1>0, <1>9, ShorterSame DEF TableType
  <2>5. s.out = tbl.out \cup {Reply(c, "report") : c \in told}
    BY <1>2, <1>9, <1>10
  <2>6. SameTable(tbl, s)
    BY <1>9 DEF SameTable, SameBusy
  <2> QED
    BY <1>3, <1>6, <1>9, <1>10, <2>1, <2>3, <2>4, <2>5, <2>6 DEF Tells
<1>13. /\ Books(s, {}) /\ Moves(tbl, s, {}, {})
       /\ \A r \in s.out \ tbl.out : r.what = "report"
  BY <1>0, <1>8, <1>10, <1>12, TellBooks
<1>14. OnceInv /\ PlaceInv /\ FateInv /\ ReportInv /\ KindInv(tbl)
  BY DEF ReplyInv, Books
<1>15. /\ Carries(s, Closer) /\ PlaceInv' /\ Books(tbl', {})
       /\ Same(s, tbl') /\ tbl'.unflushed = s.unflushed
       /\ stage'[Closer] = "mark"
       /\ \A v \in Threads \ {Closer} : stage'[v] = stage[v]
  BY <1>5, <1>8, <1>9, <1>13, <1>14, UnlockFlow, ThreadsApart
<1>16. /\ tbl'.high = tbl.high /\ tbl'.req = tbl.req /\ tbl'.ended = tbl.ended
       /\ tbl'.report /\ tbl'.revoked = tbl.revoked /\ tbl'.rec = tbl.rec
       /\ tbl'.held = tbl.held /\ tbl'.directRunning = tbl.directRunning
       /\ tbl'.unflushed = 1
  BY <1>9, <1>15 DEF Same, SameCalls, SameBusy, SameWaits
<1>17. Hand' = {}
  <2>1. stage'[Reader] = stage[Reader]
    BY <1>15, ThreadsApart
  <2> QED
    BY <1>10, <1>16, <2>1 DEF Hand
<1> HIDE DEF Hand
<1>18. /\ Begins(tbl, {}) /\ \A p \in Places : \A r \in At(p) : r.to \in Calls
  BY <1>10, <1>14, BeginsHere, PlacedTyped
<1>19. /\ Answers(tbl, s, {}, Hand') /\ Fate(tbl, s, {})
       /\ tbl.out \subseteq s.out
  BY <1>13, <1>17 DEF Moves, Answers
<1>20. OnceInv'
  BY <1>0, <1>9, <1>14, <1>15, <1>18, <1>19, FlowOnce
<1>21. Accepts(tbl, s)
  BY <1>9, <1>13 DEF Accepts
<1>22. FateInv'
  <2>1. tbl.high \in Nat
    BY <1>0 DEF TableType
  <2> QED
    BY <1>14, <1>15, <1>18, <1>19, <1>21, <2>1, FlowFate
<1>23. \A c \in 1 .. tbl.high : Out(c)'
  BY <1>5, <1>10, <1>16 DEF Out
<1>24. ReportInv'
  <2>1. Reports(tbl, s)
    <3>1. ASSUME NEW r \in s.out, NEW c \in 1 .. r.to - 1 PROVE Out(c)'
      <4>1. PICK d \in told : r = Reply(d, "report")
        BY <1>2, <1>9
      <4>2. r.to = d /\ d \in 1 .. tbl.high
        BY <1>11, <4>1 DEF Reply
      <4>3. c \in 1 .. tbl.high
        BY <1>0, <4>2
      <4> QED
        BY <1>23, <4>3
    <3> QED
      BY <3>1 DEF Reports
  <2>2. ASSUME NEW p \in Places, NEW r, r \in At(p)', r.what = "report"
        PROVE  \A c \in 1 .. r.to - 1 : Out(c)'
    BY <1>0, <1>9, <1>14, <1>15, <1>18, <1>19, <2>1, <2>2, FlowLast
  <2> QED
    BY <1>16, <1>23, <2>2 DEF ReportInv
<1>25. TallyInv'
  <2>1. ~Flushing(Closer) /\ Flushing(Closer)'
    BY <1>10, <1>15, ThreadsApart DEF Flushing
  <2>2. OnlyMoves(Closer, "mark")
    BY <1>15 DEF OnlyMoves
  <2>3. tbl'.unflushed = tbl.unflushed + 1
    BY <1>5, <1>16
  <2> QED
    BY <1>5, <1>16, <2>1, <2>2, <2>3, TallyMoves, ThreadsApart
<1>26. OverInv'
  <2>1. RunningCalls(tbl) = {}
    BY <1>5 DEF ReplyInv, OverInv, Over
  <2>2. RunningCalls(tbl') = {}
    BY <1>16, <2>1 DEF RunningCalls, Phase
  <2> QED
    BY <1>5, <1>10, <1>15, <1>16, <2>2 DEF ReplyInv, OverInv, Over, Reported
<1>27. Books(tbl, Hand)'
  BY <1>15, <1>17, BooksNext
<1> QED
  BY <1>15, <1>20, <1>22, <1>24, <1>25, <1>26, <1>27 DEF ReplyInv

-----------------------------------------------------------------------------
(* The invariant, and what it says. *)

\* An empty table's books are in order.
LEMMA EmptyBooks ==
  ASSUME NEW s, s.rec = [c \in Calls |-> NoRecord], s.others = {}, s.held = {},
         s.closers = {}, s.outstanding = 0, s.controls = 0, s.tableEntries = 0,
         s.running = 0, s.queue = <<>>, s.busy = EmptyBusy,
         s.requests = [i \in RequestIds |-> NoCall]
  PROVE  Books(s, {})
<1>1. \A c \in Calls : s.rec[c] = NoRecord /\ Phase(s, c) = "None" /\ ~Live(s, c)
  BY DEF Phase, Live, NoRecord
<1>2. KindInv(s)
  BY <1>1 DEF KindInv, NoRecord
<1>3. Cardinality({}) = 0
  BY FS_EmptySet
<1>4. LaneInv(s, {})
  <2>1. Owed(s) = {}
    BY <1>1 DEF Owed
  <2>2. OffControl(s, Due(s, {})) = {} /\ OnControl(s, Due(s, {})) = {}
    BY <2>1 DEF OffControl, OnControl, Due
  <2> QED
    BY <1>3, <2>1, <2>2 DEF LaneInv
<1>5. EntryInv(s)
  <2>1. InTable(s) = {}
    BY <1>1 DEF InTable, NoRecord
  <2> QED
    BY <1>3, <2>1, LimitsAssumption DEF EntryInv
<1>6. RunInv(s)
  <2>1. Ops(s) = {} /\ \A w, k : ClassOps(s, w, k) = {}
    BY <1>1 DEF Ops, ClassOps
  <2>2. \A w \in Workspaces, k \in Classes : s.busy[w][k] = 0
    BY DEF EmptyBusy
  <2>3. Len(s.queue) = 0 /\ 1 .. 0 = {}
    OBVIOUS
  <2>4. /\ s.running >= Cardinality(Ops(s)) /\ s.running <= RunningLimit
        /\ s.running = Cardinality(Ops(s))
    BY <1>3, <2>1, LimitsAssumption
  <2>5. \A w \in Workspaces, k \in Classes :
          s.busy[w][k] = Cardinality(ClassOps(s, w, k))
    BY <1>3, <2>1, <2>2
  <2>6. Len(s.queue) <= QueueLimit
        /\ \A i \in 1 .. Len(s.queue) : Phase(s, s.queue[i]) = "Queued"
    BY <2>3, LimitsAssumption
  <2> QED
    BY <2>4, <2>5, <2>6 DEF RunInv
<1>7. IdInv(s)
  BY <1>1 DEF IdInv, Holding
<1> QED
  BY <1>2, <1>4, <1>5, <1>6, <1>7 DEF Books

\* The session starts in order.
LEMMA ReplyInit == Init => ReplyInv
<1> SUFFICES ASSUME Init PROVE ReplyInv
  OBVIOUS
<1>1. /\ tbl.high = 0 /\ tbl.ended = FALSE /\ tbl.report = FALSE
      /\ tbl.revoked = {} /\ tbl.directRunning = 0 /\ tbl.unflushed = 0
      /\ tbl.out = {} /\ tbl.rec = [c \in Calls |-> NoRecord]
  BY DEF Init, EmptyTable
<1>2. /\ tbl.others = {} /\ tbl.held = {} /\ tbl.closers = {}
      /\ tbl.outstanding = 0 /\ tbl.controls = 0 /\ tbl.tableEntries = 0
      /\ tbl.running = 0 /\ tbl.queue = <<>> /\ tbl.busy = EmptyBusy
      /\ tbl.requests = [i \in RequestIds |-> NoCall]
  BY DEF Init, EmptyTable
<1>3. /\ stage[Reader] = "idle" /\ stage[Closer] = "none"
      /\ \A t \in Threads : stage[t] \in {"none", "idle"}
      /\ \A c \in Calls : stage[c] = "none"
      /\ \A t \in Threads : batch[t] = {}
      /\ sent = {} /\ dropped = {}
  BY ThreadsApart DEF Init
<1>4. Hand = {}
  BY <1>3 DEF Hand
<1> HIDE DEF Hand
<1>5. Books(tbl, Hand)
  BY <1>1, <1>2, <1>4, EmptyBooks
<1>6. \A p \in Places : At(p) = {}
  BY <1>1, <1>3, PlaceFacts, AtFacts
<1>7. OnceInv /\ PlaceInv
  <2>1. 1 .. tbl.high = {}
    BY <1>1
  <2> QED
    BY <1>1, <1>3, <1>6, <2>1 DEF OnceInv, PlaceInv
<1>8. TallyInv
  <2>1. InFlight = {}
    BY <1>3 DEF InFlight, Flushing
  <2>2. DirectThreads = {}
    BY <1>3 DEF DirectThreads
  <2>3. Cardinality({}) = 0
    BY FS_EmptySet
  <2> QED
    BY <1>1, <1>3, <2>1, <2>2, <2>3 DEF TallyInv, DirectInv
<1>9. OverInv
  BY <1>1, <1>3 DEF OverInv, Over, Reported
<1>10. ReportInv
  BY <1>1, <1>6 DEF ReportInv
<1>11. FateInv
  BY <1>1, <1>6 DEF FateInv, NoRecord
<1> QED
  BY <1>5, <1>7, <1>8, <1>9, <1>10, <1>11 DEF ReplyInv

\* Every step of the session keeps the invariant.
LEMMA ReplyNext ==
  ASSUME ServiceInv, ServiceInv', ReplyInv, [Next]_vars
  PROVE  ReplyInv'
<1>1. CASE UNCHANGED vars
  BY <1>1, PassReply
<1>2. CASE \E q \in Requests : ReadFrame(q)
  BY <1>2, ReadFrameReply
<1>3. CASE ReaderStep
  <2>1. CASE CountBatch
    BY <2>1, CountBatchReply
  <2>2. CASE ReceiveStale \/ ReceiveEnded \/ ReceiveRefused \/ ReceiveCall
    BY <2>2, ReceiveStaleReply, ReceiveEndedReply, ReceiveRefusedReply,
       ReceiveCallReply
  <2>3. CASE ReceiveRead \/ ReceiveView \/ ReceiveRelease \/ ReceiveCancel
    BY <2>3, ReceiveReadReply, ReceiveViewReply, ReceiveReleaseReply,
       ReceiveCancelReply
  <2>4. CASE ReceiveSpool \/ SpoolAnswered \/ ReceiveClose
    BY <2>4, ReceiveSpoolReply, SpoolAnsweredReply, ReceiveCloseReply
  <2>5. CASE ChannelClosed \/ InlineReturns
    BY <2>5, ReaderIdleReply
  <2>6. CASE \E spawned \in BOOLEAN : CloseBegins(spawned)
    BY <2>6, CloseBeginsReply
  <2> QED
    BY <1>3, <2>1, <2>2, <2>3, <2>4, <2>5, <2>6 DEF ReaderStep
<1>4. CASE AdmissionStep
  BY <1>4, AdmissionPopReply, AdmitReply, ThreadEndsReply DEF AdmissionStep
<1>5. CASE ReadsStep
  BY <1>5, AnswerHeldReply, ThreadEndsReply DEF ReadsStep
<1>6. CASE CloserStep
  <2>1. CASE CloseEnters \/ CloseSettles \/ CloseCancels
    BY <2>1, CloseEntersReply, CloseSettlesReply, CloseCancelsReply
  <2>2. CASE CloseDetaches \/ CloseAnswersHeld
    BY <2>2, CloseDetachesReply, CloseAnswersHeldReply
  <2>3. CASE CloseWaited \/ CloseReleasesSpools \/ CloseDrained \/ CloseShuts
    BY <2>3, CloserIdleReply
  <2>4. CASE CloseReports \/ CloseEnds
    BY <2>4, CloseReportsReply, CloseEndsReply
  <2> QED
    BY <1>6, <2>1, <2>2, <2>3, <2>4 DEF CloserStep
<1>7. ASSUME NEW c \in Calls,
             \/ WorkerEvent(c) \/ (\E o \in Returns : WorkerReports(c, o))
             \/ WorkerStep(c)
      PROVE  ReplyInv'
  BY <1>7, WorkerEventReply, WorkerReportsReply, WorkerSettlesReply,
     DirectNextReply DEF WorkerStep
<1>8. ASSUME NEW t \in Threads, FlushStep(t) PROVE ReplyInv'
  BY <1>8, FlushMarkReply, FlushSendReply, FlushDoneReply DEF FlushStep
<1>9. ASSUME NEW t \in Threads, ScheduleStep(t) PROVE ReplyInv'
  BY <1>9, ScheduleSkipReply, ScheduleBusyReply, PassReply, ScheduleStartReply,
     ScheduleDirectReply, ScheduleDoneReply DEF ScheduleStep
<1>10. CASE \E t \in Threads : \E r \in batch[t] : FlushFull(t, r)
  BY <1>10, FlushSendReply
<1>11. CASE ClientCloses \/ \E w \in Shared : ForeignWorker(w)
  BY <1>11, PassReply
<1> QED
  BY <1>1, <1>2, <1>3, <1>4, <1>5, <1>6, <1>7, <1>8, <1>9, <1>10, <1>11 DEF Next

\* The inductive invariant: the table's counters say what they count, each
\* reply is in one place and the only one to its call, every batch under way is
\* counted, the report comes last and no accepted operation is lost.
THEOREM ReplyInvariant == Spec => [](ServiceInv /\ ReplyInv)
<1>1. Init => ServiceInv /\ ReplyInv
  BY ServiceInit, ReplyInit
<1>2. ServiceInv /\ ReplyInv /\ [Next]_vars => ServiceInv' /\ ReplyInv'
  BY ServiceNext, ReplyNext
<1> QED
  BY <1>1, <1>2, PTL DEF Spec

\* A set within one element counts one or none.
LEMMA OneOrNone ==
  /\ Cardinality({}) = 0
  /\ \A x : Cardinality({x}) = 1
  BY FS_EmptySet, FS_Singleton

\* What is unanswered is what is due.
LEMMA UnansweredDue ==
  ASSUME NEW c \in Calls PROVE Unanswered(c) <=> c \in Due(tbl, Hand)
  BY DEF Unanswered, Due, Owed, Hand

\* Every call taken has one reply and no second one: owed, or being built, on
\* its way, sent or refused (`answered_on`, `settle`, `flush`).
THEOREM EveryCallOneReply == Spec => []OneReply
<1>1. ServiceInv /\ ReplyInv => OneReply
  <2> SUFFICES ASSUME ServiceInv, ReplyInv, NEW c \in 1 .. tbl.high
               PROVE  OneReply!(c)
    BY DEF OneReply
  <2> DEFINE A == {t \in Threads : \E r \in batch[t] : r.to = c}
             B == {r \in tbl.out : r.to = c}
             C == {r \in sent \cup dropped : r.to = c}
             d == IF Unanswered(c) THEN 1 ELSE 0
             n == Cardinality(A) + Cardinality(B) + Cardinality(C) + d
  <2> HIDE DEF A, B, C, d
  <2> SUFFICES n <= 1 /\ (~tbl.ended => n = 1)
    BY DEF A, B, C, d, Count
  <2>0. c \in Calls /\ OnceInv
    BY TableFacts, LimitsAssumption DEF Calls, ReplyInv
  <2>1. d = (IF c \in Due(tbl, Hand) THEN 1 ELSE 0)
    BY <2>0, UnansweredDue DEF d
  <2>2. CASE \A p \in Places : \A r \in At(p) : r.to # c
    <3>1. A = {} /\ B = {} /\ C = {}
      BY <2>2, PlaceFacts, AtFacts DEF A, B, C
    <3>2. n = d
      BY <2>1, <3>1, OneOrNone
    <3>3. ~tbl.ended => c \in Due(tbl, Hand)
      BY <2>0, <2>2 DEF OnceInv
    <3> QED
      BY <2>1, <3>2, <3>3
  <2>3. ASSUME NEW p \in Places, NEW r \in At(p), r.to = c
        PROVE  n <= 1 /\ (~tbl.ended => n = 1)
    <3>1. d = 0
      BY <2>0, <2>1, <2>3 DEF OnceInv
    <3>2. \A q \in Places : \A m \in At(q) : m.to = c => q = p /\ m = r
      BY <2>0, <2>3 DEF OnceInv
    <3>3. CASE p = NoThread
      <4>1. A = {} /\ B = {r} /\ C = {}
        BY <2>3, <3>2, <3>3, PlaceFacts, AtFacts DEF A, B, C
      <4>2. Cardinality(A) = 0 /\ Cardinality(B) = 1 /\ Cardinality(C) = 0
        BY <4>1, OneOrNone
      <4> QED
        BY <3>1, <4>2
    <3>4. CASE p = Wire
      <4>1. A = {} /\ B = {} /\ C = {r}
        BY <2>3, <3>2, <3>4, PlaceFacts, AtFacts DEF A, B, C
      <4>2. Cardinality(A) = 0 /\ Cardinality(B) = 0 /\ Cardinality(C) = 1
        BY <4>1, OneOrNone
      <4> QED
        BY <3>1, <4>2
    <3>5. CASE p \in Threads
      <4>1. A = {p} /\ B = {} /\ C = {}
        BY <2>3, <3>2, <3>5, PlaceFacts, AtFacts DEF A, B, C
      <4>2. Cardinality(A) = 1 /\ Cardinality(B) = 0 /\ Cardinality(C) = 0
        BY <4>1, OneOrNone
      <4> QED
        BY <3>1, <4>2
    <3> QED
      BY <3>3, <3>4, <3>5, PlaceFacts
  <2> QED
    BY <2>2, <2>3
<1> QED
  BY <1>1, ReplyInvariant, PTL

\* An accepted operation's record goes only when it was released or every view
\* its method declares was handed over (`evict`, `flush`).
THEOREM EvictionsAreDelivered == Spec => []EvictedOnlyDelivered
<1>1. ServiceInv /\ ReplyInv => EvictedOnlyDelivered
  <2> SUFFICES ASSUME ServiceInv, ReplyInv, NEW c \in Calls,
                      Reply(c, "accepted") \in AllReplies, Phase(tbl, c) = "None"
               PROVE  \/ \E r \in AllReplies :
                           r.what = "released" /\ tbl.req[r.to].target = c
                      \/ \A v \in IF tbl.req[c].view THEN Views ELSE {"Result"} :
                           \E r \in HandedOver : r.owner = c /\ r.view = v
    BY DEF EvictedOnlyDelivered
  <2>2. \A r : r \in AllReplies <=> \E p \in Places : r \in At(p)
    BY PlaceFacts, AtFacts DEF AllReplies
  <2>3. PICK p \in Places : Reply(c, "accepted") \in At(p)
    BY <2>2
  <2>4. ~tbl.rec[c].accepted
    BY DEF ReplyInv, Books, KindInv, Phase
  <2>5. \/ Released(c)
        \/ \A v \in IF tbl.req[c].view THEN Views ELSE {"Result"} : Seen(c, v)
    BY <2>3, <2>4 DEF ReplyInv, FateInv
  <2>6. CASE Released(c)
    BY <2>2, <2>6 DEF Released
  <2>7. CASE \A v \in IF tbl.req[c].view THEN Views ELSE {"Result"} : Seen(c, v)
    BY <2>7 DEF Seen
  <2> QED
    BY <2>5, <2>6, <2>7
<1> QED
  BY <1>1, ReplyInvariant, PTL

\* A close report leaves after the reply to every earlier call (`run_close`,
\* step 8, and a session close that arrives after the report).
THEOREM ReportComesLast == Spec => []CloseReportLast
<1>1. ServiceInv /\ ReplyInv => CloseReportLast
  <2> SUFFICES ASSUME ServiceInv, ReplyInv, NEW r \in sent, r.what = "report",
                      NEW c \in 1 .. r.to - 1
               PROVE  tbl.req[c].type = "Close" \/ \E p \in sent \cup dropped : p.to = c
    BY DEF CloseReportLast
  <2>1. r \in At(Wire) /\ Wire \in Places
    BY PlaceFacts, AtFacts
  <2>2. Out(c)
    BY <2>1 DEF ReplyInv, ReportInv
  <2> QED
    BY <2>2 DEF Out
<1> QED
  BY <1>1, ReplyInvariant, PTL

\* A handler starts once for a call, only while the call is unsettled and
\* before any reply tells how it ended (`admit`, `schedule`, `take`, `cancel`,
\* `run_close`): a call not accepted is owed its reply, the reply of one that
\* is accepted says just that, and the views replied are of no live call.
THEOREM HandlersRunOnceUntold == Spec => RunsOnceUntold
<1>1. ServiceInv /\ ReplyInv /\ [Next]_vars =>
        [\A c \in Calls : Starts(c) =>
           /\ stage[c] = "none" /\ Live(tbl, c)
           /\ \A r \in AllReplies : ~TellsEnd(r, c)]_vars
  <2> SUFFICES ASSUME ServiceInv, ReplyInv, [Next]_vars, NEW c \in Calls, Starts(c)
               PROVE  /\ stage[c] = "none" /\ Live(tbl, c)
                      /\ \A r \in AllReplies : ~TellsEnd(r, c)
    OBVIOUS
  <2>1. Phase(tbl, c) \in {"Queued", "DirectWaiting"}
    BY ServiceNext DEF StepOK, StartStep
  <2>2. stage[c] = "none" /\ Live(tbl, c)
    BY <2>1 DEF ServiceInv, ThreadInv, Live
  <2>3. ASSUME NEW p \in Places, NEW r \in At(p) PROVE ~TellsEnd(r, c)
    <3>1. r.owner # c
      BY <2>2 DEF ReplyInv, FateInv
    <3>2. r.to = c => r.what = "accepted"
      <4>1. CASE ~tbl.rec[c].accepted
        <5>1. c \in Due(tbl, Hand)
          BY <2>2, <4>1 DEF Due, Owed
        <5> QED
          BY <5>1 DEF ReplyInv, OnceInv
      <4>2. CASE tbl.rec[c].accepted
        <5>1. PICK q \in Places : Reply(c, "accepted") \in At(q)
          BY <4>2 DEF ReplyInv, FateInv
        <5>2. Reply(c, "accepted").to = c /\ Reply(c, "accepted").what = "accepted"
          BY DEF Reply
        <5> QED
          BY <5>1, <5>2 DEF ReplyInv, OnceInv
      <4> QED
        BY <4>1, <4>2
    <3> QED
      BY <3>1, <3>2 DEF TellsEnd
  <2>4. \A r \in AllReplies : \E p \in Places : r \in At(p)
    BY PlaceFacts, AtFacts DEF AllReplies
  <2> QED
    BY <2>2, <2>3, <2>4
<1> QED
  BY <1>1, ReplyInvariant, PTL DEF Spec, RunsOnceUntold

\* The counters the limits are checked against say what they count, the request
\* IDs held are those of the live operations, the limits hold for what they
\* limit, and once the session has ended nothing of it is live.
THEOREM TableSaysWhatIs == Spec => []TableExact
<1>1. ServiceInv /\ ReplyInv => TableExact
  <2> SUFFICES ASSUME ServiceInv, ReplyInv PROVE TableExact
    OBVIOUS
  <2>1. /\ tbl \in TableType /\ TableInv(tbl, NoCall) /\ KindInv(tbl)
        /\ LaneInv(tbl, Hand) /\ EntryInv(tbl) /\ RunInv(tbl) /\ IdInv(tbl)
    BY TableFacts DEF Books
  <2>2. RunningOps = Ops(tbl)
    BY DEF RunningOps, RunningCalls, Ops
  <2>3. CountersExact
    <3>1. /\ OnLane(FALSE) = OffControl(tbl, Due(tbl, Hand))
          /\ OnLane(TRUE) = OnControl(tbl, Due(tbl, Hand))
      <4>1. \A c : c \in 1 .. tbl.high /\ Unanswered(c) <=> c \in Due(tbl, Hand)
        <5>1. \A d \in Due(tbl, Hand) : d \in 1 .. tbl.high /\ d \in Calls
          BY <2>1, DueHeard
        <5>2. \A c \in 1 .. tbl.high : c \in Calls
          BY TableFacts, LimitsAssumption DEF Calls
        <5> QED
          BY <5>1, <5>2, UnansweredDue
      <4>2. OnLane(FALSE) = OffControl(tbl, Due(tbl, Hand))
        BY <4>1 DEF OnLane, OffControl
      <4>3. OnLane(TRUE) = OnControl(tbl, Due(tbl, Hand))
        BY <4>1 DEF OnLane, OnControl
      <4> QED
        BY <4>2, <4>3
    <3>2. /\ tbl.outstanding = Count(OnLane(FALSE))
          /\ tbl.controls = Count(OnLane(TRUE))
      BY <2>1, <3>1 DEF LaneInv, Count
    <3>3. tbl.tableEntries = Count({c \in Calls : tbl.rec[c].inTable})
      BY <2>1 DEF EntryInv, InTable, Count
    <3>4. tbl.directRunning = Count(DirectThreads)
      BY DEF ReplyInv, TallyInv, DirectInv, Count
    <3>5. /\ tbl.running >= Count(RunningOps)
          /\ ~tbl.closing => tbl.running = Count(RunningOps)
      BY <2>1, <2>2 DEF RunInv, Count
    <3>6. ASSUME NEW w \in Workspaces, NEW k \in Classes
          PROVE  LET ops == {c \in RunningOps : tbl.req[c].ws = w /\ tbl.req[c].class = k}
                 IN  /\ tbl.busy[w][k] >= Count(ops)
                     /\ ~tbl.closing => tbl.busy[w][k] = Count(ops)
      <4>1. {c \in RunningOps : tbl.req[c].ws = w /\ tbl.req[c].class = k}
              = ClassOps(tbl, w, k)
        BY <2>2 DEF Ops, ClassOps
      <4> QED
        BY <2>1, <4>1 DEF TableInv, BusyInv, RunInv, Count
    <3> QED
      BY <3>2, <3>3, <3>4, <3>5, <3>6 DEF CountersExact
  <2>4. RequestIdsLive
    BY <2>1 DEF IdInv, Holding, RequestIdsLive
  <2>5. EndedIsSettled
    <3> SUFFICES ASSUME tbl.ended
                 PROVE  /\ \A c \in Calls : ~Live(tbl, c)
                        /\ tbl.held = {}
                        /\ \A c \in Calls : Executing(c) => c \in recorded \cap tbl.revoked
      BY DEF EndedIsSettled
    <3>1. OverInv /\ Over
      BY DEF ReplyInv, OverInv, Over
    <3>2. tbl.held = {} /\ \A c \in Calls : ~Live(tbl, c)
      BY <3>1, OverDead
    <3>3. ASSUME NEW c \in Calls, Executing(c) PROVE c \in recorded \cap tbl.revoked
      <4>1. Phase(tbl, c) # "Running"
        BY <3>2 DEF Live
      <4>2. c \in tbl.revoked
        BY <3>3, <4>1 DEF Executing, ServiceInv, ThreadInv
      <4> QED
        BY <3>1, <4>2 DEF OverInv
    <3> QED
      BY <3>2, <3>3
  <2>6. LimitsHold
    <3>1. Count(RunningOps) <= RunningLimit
      <4>1. Cardinality(Ops(tbl)) \in Nat
        BY CountNat DEF Ops
      <4> QED
        BY <2>1, <2>2, <4>1, LimitsAssumption DEF RunInv, Count, TableType
    <3>2. Count(DirectThreads) <= DirectLimit
      BY DEF ReplyInv, TallyInv, DirectInv, Count, ServiceInv, StartInv
    <3>3. Count({c \in Calls : tbl.rec[c].inTable}) <= TableLimit
      BY <2>1 DEF EntryInv, InTable, Count
    <3>4. Len(tbl.queue) <= QueueLimit
      BY <2>1 DEF RunInv
    <3> QED
      BY <3>1, <3>2, <3>3, <3>4 DEF LimitsHold
  <2> QED
    BY <2>3, <2>4, <2>5, <2>6 DEF TableExact
<1> QED
  BY <1>1, ReplyInvariant, PTL
=============================================================================
