--------------------------- MODULE EventLogProofs ---------------------------
(***************************************************************************)
(* EventLog's invariants, for every capacity. RingShape is inductive by    *)
(* itself; NoSilentGap and CompleteMeansAll need it, to know which records *)
(* a cursor has behind it; NoMissedWake is apart from both.                *)
(***************************************************************************)
EXTENDS EventLog, TLAPS

\* What every reachable state satisfies.
Inv ==
  /\ TypeOK /\ RingShape
  /\ cursor <= nextSeq - 1
  /\ NoSilentGap /\ CompleteMeansAll /\ NoMissedWake

\* Appending to a ring that keeps its shape keeps it.
LEMMA PushShape ==
  ASSUME TypeOK, RingShape, Push
  PROVE  entries' \in Seq(Entry) /\ RingShape'
PROOF
<1> USE CapacityAssumption
<1> DEFINE new == [seq |-> nextSeq, reset |-> FALSE]
           n == Len(entries)
           e == Append(entries, new)
<1>1. entries \in Seq(Entry) /\ nextSeq \in Nat \ {0} /\ n \in Nat /\ n <= Capacity
  BY DEF TypeOK, RingShape
<1>2. new \in Entry BY <1>1 DEF Entry
<1>3. /\ e \in Seq(Entry) /\ Len(e) = n + 1
      /\ \A i \in 1 .. n : e[i] = entries[i]
      /\ e[n + 1] = new
  BY <1>1, <1>2
<1>4. \A i \in 1 .. n + 1 : /\ e[i].seq = nextSeq - 1 - n + i
                            /\ i > 1 => ~e[i].reset
  <2> SUFFICES ASSUME NEW i \in 1 .. n + 1
               PROVE e[i].seq = nextSeq - 1 - n + i /\ (i > 1 => ~e[i].reset)
    OBVIOUS
  <2>1. CASE i \in 1 .. n
    <3>1. e[i] = entries[i] BY <1>3, <2>1
    <3> QED BY <1>1, <2>1, <3>1 DEF RingShape
  <2>2. CASE i = n + 1
    <3>1. e[i] = new BY <1>3, <2>2
    <3> QED BY <1>1, <2>2, <3>1
  <2> QED BY <1>1, <2>1, <2>2
<1>5. nextSeq' = nextSeq + 1 BY DEF Push
<1> HIDE DEF e, new
<1>6. CASE n + 1 <= Capacity
  <2>1. entries' = e BY <1>1, <1>3, <1>6 DEF Push, Pushed, e, new
  <2>2. nextSeq - 1 # n => n >= 1 /\ entries[1].reset BY DEF RingShape
  <2>3. nextSeq' - 1 # Len(e) => Len(e) >= 1 /\ e[1].reset
    BY <1>1, <1>3, <1>5, <2>2
  <2>4. \A i \in 1 .. Len(e) : /\ e[i].seq = nextSeq' - 1 - Len(e) + i
                               /\ i > 1 => ~e[i].reset
    BY <1>1, <1>3, <1>4, <1>5
  <2> QED BY <1>1, <1>3, <1>6, <2>1, <2>3, <2>4 DEF RingShape
<1>7. CASE n = Capacity
  <2> DEFINE first == [seq |-> e[2].seq, reset |-> TRUE]
             rest == SubSeq(e, 3, n + 1)
             f == <<first>> \o rest
  <2>1. entries' = f
    <3>1. Len(e) > Capacity /\ Len(e) - Capacity + 1 = 2 /\ Len(e) - Capacity + 2 = 3
      BY <1>1, <1>3, <1>7
    <3>2. entries' = Overflowed(e) BY <3>1 DEF Push, Pushed, e, new
    <3> QED BY <1>3, <3>1, <3>2 DEF Overflowed
  <2>2. e[2].seq = nextSeq + 1 - n BY <1>1, <1>4, <1>7
  <2>3. first \in Entry /\ first.seq = e[2].seq /\ first.reset = TRUE
    <3>1. e[2] \in Entry BY <1>1, <1>3, <1>7
    <3> QED BY <3>1 DEF Entry
  <2>4. /\ rest \in Seq(Entry) /\ Len(rest) = n - 1
        /\ \A i \in 1 .. n - 1 : rest[i] = e[i + 2]
    BY <1>1, <1>3, <1>7
  <2> HIDE DEF first, rest
  <2>5. /\ f \in Seq(Entry) /\ Len(f) = n
        /\ f[1] = first
        /\ \A i \in 2 .. n : f[i] = e[i + 1]
    BY <1>1, <1>7, <2>3, <2>4
  <2> HIDE DEF f
  <2>6. \A i \in 1 .. n : /\ f[i].seq = nextSeq' - 1 - n + i
                          /\ i > 1 => ~f[i].reset
    <3> SUFFICES ASSUME NEW i \in 1 .. n
                 PROVE /\ f[i].seq = nextSeq' - 1 - n + i
                       /\ i > 1 => ~f[i].reset
      OBVIOUS
    <3>1. CASE i = 1 BY <1>1, <1>5, <2>2, <2>3, <2>5, <3>1
    <3>2. CASE i \in 2 .. n
      <4>1. f[i] = e[i + 1] BY <2>5, <3>2
      <4>2. i + 1 \in 1 .. n + 1 /\ i + 1 > 1 BY <1>1, <3>2
      <4>3. e[i + 1].seq = nextSeq - 1 - n + (i + 1) /\ ~e[i + 1].reset
        BY <1>4, <4>2
      <4> QED BY <1>1, <1>5, <3>2, <4>1, <4>3
    <3> QED BY <1>1, <3>1, <3>2
  <2>7. f[1].reset BY <2>3, <2>5
  <2> QED BY <1>1, <1>7, <2>1, <2>5, <2>6, <2>7 DEF RingShape
<1> QED BY <1>1, <1>6, <1>7

\* What a batch that ends at entry `upto` brings: the cursor moves there, and
\* every record in between is received or covered by a reset.
LEMMA BatchCovers ==
  ASSUME TypeOK, RingShape, cursor <= nextSeq - 1, NoSilentGap,
         NEW upto \in After, ReceiveBatch(upto)
  PROVE  /\ cursor' \in Nat /\ got' \subseteq Nat /\ resets' \subseteq Nat
         /\ told' \in BOOLEAN
         /\ cursor' <= nextSeq - 1
         /\ NoSilentGap'
         /\ told' => complete /\ cursor' = nextSeq - 1
PROOF
<1> DEFINE n == Len(entries)
<1>1. /\ entries \in Seq(Entry) /\ nextSeq \in Nat \ {0} /\ n \in Nat
      /\ cursor \in Nat /\ got \subseteq Nat /\ resets \subseteq Nat
  BY DEF TypeOK
<1>2. \A i \in 1 .. n : /\ entries[i].seq \in Nat /\ entries[i].reset \in BOOLEAN
                        /\ entries[i].seq = nextSeq - 1 - n + i
                        /\ i > 1 => ~entries[i].reset
  <2>1. \A i \in 1 .. n : entries[i] \in Entry BY <1>1
  <2> QED BY <2>1 DEF RingShape, Entry
<1>3. upto \in 1 .. n /\ entries[upto].seq > cursor BY DEF After
<1>4. cursor' = entries[upto].seq BY DEF ReceiveBatch
<1>5. /\ Records(upto) \subseteq Nat /\ Resets(upto) \subseteq Nat
  BY <1>2 DEF Records, Resets, Batch, After
<1>6. got' \subseteq Nat /\ resets' \subseteq Nat
  BY <1>1, <1>5 DEF ReceiveBatch
<1>7. cursor' \in Nat /\ cursor' <= nextSeq - 1
  BY <1>1, <1>2, <1>3, <1>4
<1>8. NoSilentGap'
  <2> SUFFICES ASSUME NEW k \in 1 .. cursor'
               PROVE k \in got' \/ \E r \in resets' : k <= r
    BY DEF NoSilentGap
  <2>1. CASE k <= cursor
    <3>1. k \in got \/ \E r \in resets : k <= r
      BY <1>1, <1>7, <2>1 DEF NoSilentGap
    <3> QED BY <3>1 DEF ReceiveBatch
  <2>2. CASE k > cursor
    <3> DEFINE i == k - (nextSeq - 1 - n)
    <3>1. CASE i \in 2 .. n
      <4>1. entries[i].seq = k /\ ~entries[i].reset BY <1>1, <1>2, <3>1
      <4>2. i \in After BY <1>1, <2>2, <3>1, <4>1 DEF After
      <4>3. i <= upto BY <1>1, <1>2, <1>3, <1>4, <1>7, <3>1
      <4>4. k \in Records(upto) BY <4>1, <4>2, <4>3 DEF Records, Batch
      <4> QED BY <4>4 DEF ReceiveBatch
    <3>2. CASE i <= 1
      <4>1. n >= 1 /\ 1 \in 1 .. n /\ 1 <= upto BY <1>1, <1>3
      <4>2. entries[1].seq = nextSeq - n BY <1>1, <1>2, <4>1
      <4>3. 1 \in After
        BY <1>1, <2>2, <3>2, <4>1, <4>2 DEF After
      <4>4. CASE entries[1].reset
        <5>1. entries[1].seq \in Resets(upto)
          BY <4>1, <4>3, <4>4 DEF Resets, Batch
        <5>2. entries[1].seq \in resets' BY <5>1 DEF ReceiveBatch
        <5> QED BY <1>1, <3>2, <4>2, <5>2
      <4>5. CASE ~entries[1].reset
        <5>1. nextSeq - 1 = n BY <4>5 DEF RingShape
        <5>2. k = 1 /\ entries[1].seq = 1 BY <1>1, <1>7, <3>2, <4>2, <5>1
        <5>3. k \in Records(upto)
          BY <4>1, <4>3, <4>5, <5>2 DEF Records, Batch
        <5> QED BY <5>3 DEF ReceiveBatch
      <4> QED BY <4>4, <4>5
    <3>3. i \in Int /\ i <= n BY <1>1, <1>7
    <3> QED BY <1>1, <3>1, <3>2, <3>3
  <2> QED BY <1>1, <1>7, <2>1, <2>2
<1>9. ASSUME told' PROVE complete /\ cursor' = nextSeq - 1
  <2>1. complete /\ \A i \in After : entries[i].seq <= entries[upto].seq
    BY <1>9 DEF ReceiveBatch
  <2>2. n \in 1 .. n /\ entries[n].seq = nextSeq - 1 BY <1>1, <1>2, <1>3
  <2>3. n \in After
    BY <1>1, <1>2, <1>3, <2>2 DEF After
  <2> QED BY <1>1, <1>4, <1>7, <2>1, <2>2, <2>3
<1>10. told' \in BOOLEAN BY DEF ReceiveBatch
<1> QED BY <1>6, <1>7, <1>8, <1>9, <1>10

\* What any answer to a read brings.
LEMMA ReceiveCovers ==
  ASSUME Inv, Receive
  PROVE  /\ cursor' \in Nat /\ got' \subseteq Nat /\ resets' \subseteq Nat
         /\ told' \in BOOLEAN
         /\ cursor' <= nextSeq - 1
         /\ NoSilentGap'
         /\ told' => complete /\ cursor' = nextSeq - 1
PROOF
<1>1. CASE ReceiveNone
  <2>1. /\ After = {} /\ told' = complete /\ cursor' = cursor /\ got' = got
        /\ resets' = resets
    BY <1>1 DEF ReceiveNone
  <2>2. NoSilentGap' BY <2>1 DEF Inv, NoSilentGap
  <2>3. cursor >= nextSeq - 1
    <3> DEFINE n == Len(entries)
    <3>1. n \in Nat /\ nextSeq \in Nat \ {0} /\ cursor \in Nat BY DEF Inv, TypeOK
    <3>2. CASE n = 0
      BY <3>1, <3>2 DEF Inv, RingShape
    <3>3. CASE n > 0
      <4>1. n \in 1 .. n BY <3>1, <3>3
      <4>2. entries[n].seq = nextSeq - 1 BY <3>1, <4>1 DEF Inv, RingShape
      <4> QED BY <2>1, <3>1, <4>1, <4>2 DEF After
    <3> QED BY <3>1, <3>2, <3>3
  <2> QED BY <2>1, <2>2, <2>3 DEF Inv, TypeOK
<1>2. CASE \E upto \in After : ReceiveBatch(upto)
  BY <1>2, BatchCovers DEF Inv
<1> QED BY <1>1, <1>2 DEF Receive

\* Every step keeps the invariant.
LEMMA InvStep ==
  ASSUME Inv, [Next]_vars
  PROVE  Inv'
PROOF
<1> USE CapacityAssumption
<1>1. CASE Push
  <2>1. entries' \in Seq(Entry) /\ RingShape' BY <1>1, PushShape DEF Inv
  <2>2. TypeOK' BY <1>1, <2>1 DEF Inv, TypeOK, Push, clientVars
  <2>3. cursor' <= nextSeq' - 1
    BY <1>1 DEF Inv, TypeOK, Push, clientVars
  <2>4. NoSilentGap' BY <1>1 DEF Inv, NoSilentGap, Push, clientVars
  <2>5. CompleteMeansAll' BY <1>1 DEF Inv, CompleteMeansAll, Push, clientVars
  <2>6. NoMissedWake' BY <1>1 DEF NoMissedWake, Push
  <2> QED BY <2>1, <2>2, <2>3, <2>4, <2>5, <2>6 DEF Inv
<1>2. CASE Complete
  BY <1>2 DEF Inv, TypeOK, RingShape, NoSilentGap, CompleteMeansAll,
              NoMissedWake, Complete, clientVars
<1>3. CASE Notify
  BY <1>3 DEF Inv, TypeOK, RingShape, NoSilentGap, CompleteMeansAll,
              NoMissedWake, Notify, ringVars, clientVars
<1>4. CASE ReadNow
  <2>1. /\ cursor' \in Nat /\ got' \subseteq Nat /\ resets' \subseteq Nat
        /\ told' \in BOOLEAN /\ cursor' <= nextSeq - 1 /\ NoSilentGap'
        /\ told' => complete /\ cursor' = nextSeq - 1
    BY <1>4, ReceiveCovers DEF ReadNow
  <2>2. /\ UNCHANGED <<entries, nextSeq, complete, producer, pending, reads, held>>
        /\ ~held
    BY <1>4 DEF ReadNow, ringVars
  <2> QED BY <2>1, <2>2 DEF Inv, TypeOK, RingShape, CompleteMeansAll, NoMissedWake
<1>5. CASE ReadHeld
  BY <1>5 DEF Inv, TypeOK, RingShape, NoSilentGap, CompleteMeansAll,
              NoMissedWake, ReadHeld, ringVars, clientVars
<1>6. CASE CheckAnswers
  <2>1. /\ cursor' \in Nat /\ got' \subseteq Nat /\ resets' \subseteq Nat
        /\ told' \in BOOLEAN /\ cursor' <= nextSeq - 1 /\ NoSilentGap'
        /\ told' => complete /\ cursor' = nextSeq - 1
    BY <1>6, ReceiveCovers DEF CheckAnswers
  <2>2. /\ UNCHANGED <<entries, nextSeq, complete, producer, pending>>
        /\ held' = FALSE /\ reads' = "wait"
    BY <1>6 DEF CheckAnswers, ringVars
  <2> QED BY <2>1, <2>2 DEF Inv, TypeOK, RingShape, CompleteMeansAll, NoMissedWake
<1>7. CASE CheckKeeps
  BY <1>7 DEF Inv, TypeOK, RingShape, NoSilentGap, CompleteMeansAll,
              NoMissedWake, CheckKeeps, Ready, After, ringVars, clientVars
<1>8. CASE CheckExpires
  BY <1>8 DEF Inv, TypeOK, RingShape, NoSilentGap, CompleteMeansAll,
              NoMissedWake, CheckExpires, ringVars, clientVars
<1>9. CASE Wake
  BY <1>9 DEF Inv, TypeOK, RingShape, NoSilentGap, CompleteMeansAll,
              NoMissedWake, Wake, ringVars, clientVars
<1>10. CASE WakeUnasked
  BY <1>10 DEF Inv, TypeOK, RingShape, NoSilentGap, CompleteMeansAll,
              NoMissedWake, WakeUnasked, ringVars, clientVars
<1>11. CASE UNCHANGED vars
  BY <1>11 DEF Inv, TypeOK, RingShape, NoSilentGap, CompleteMeansAll,
               NoMissedWake, Ready, After, vars
<1> QED
  BY <1>1, <1>2, <1>3, <1>4, <1>5, <1>6, <1>7, <1>8, <1>9, <1>10, <1>11
  DEF Next, ReadsStep

\* The invariant holds throughout: the initial log is empty and unread.
THEOREM LogInvariant == Spec => []Inv
PROOF
<1>1. Init => Inv
  <2> SUFFICES ASSUME Init PROVE Inv OBVIOUS
  <2>1. TypeOK
    <3>1. entries \in Seq(Entry) BY DEF Init
    <3>2. complete \in BOOLEAN /\ pending \in BOOLEAN /\ held \in BOOLEAN
          /\ told \in BOOLEAN
      BY Zenon DEF Init
    <3>3. nextSeq \in Nat \ {0} /\ cursor \in Nat BY DEF Init
    <3>4. got \subseteq Nat /\ resets \subseteq Nat BY DEF Init
    <3> QED BY <3>1, <3>2, <3>3, <3>4 DEF Init, TypeOK
  <2>2. RingShape BY CapacityAssumption DEF Init, RingShape
  <2>3. cursor <= nextSeq - 1 /\ NoSilentGap BY DEF Init, NoSilentGap
  <2>4. CompleteMeansAll BY DEF Init, CompleteMeansAll
  <2>5. NoMissedWake BY DEF Init, NoMissedWake
  <2> QED BY <2>1, <2>2, <2>3, <2>4, <2>5 DEF Inv
<1>2. Inv /\ [Next]_vars => Inv' BY InvStep
<1> QED BY <1>1, <1>2, PTL DEF Spec

\* The ring keeps its shape for every capacity of at least 2 (`push`).
THEOREM RingKeepsShape == Spec => [](TypeOK /\ RingShape)
PROOF
<1>1. Inv => TypeOK /\ RingShape BY DEF Inv
<1> QED BY <1>1, LogInvariant, PTL

\* A subscriber never misses a record silently (`push`, `read`).
THEOREM NeverSilentGap == Spec => []NoSilentGap
PROOF
<1>1. Inv => NoSilentGap BY DEF Inv
<1> QED BY <1>1, LogInvariant, PTL

\* The end is told only to a subscriber that has everything (`read`, `complete`).
THEOREM EndMeansAll == Spec => []CompleteMeansAll
PROOF
<1>1. Inv => CompleteMeansAll BY DEF Inv
<1> QED BY <1>1, LogInvariant, PTL

\* The read thread misses no wake-up (`notify`, `wait`, `read_loop`).
THEOREM NeverMissesWake == Spec => []NoMissedWake
PROOF
<1>1. Inv => NoMissedWake BY DEF Inv
<1> QED BY <1>1, LogInvariant, PTL

\* The log's safety invariants together, for every capacity of at least 2 and
\* any number of records: EventLog::push and read, ReadSignal, the read loop.
THEOREM LogIsSound == Spec => []LogSound
PROOF
<1>1. RingShape /\ NoSilentGap /\ CompleteMeansAll /\ NoMissedWake => LogSound
  BY DEF LogSound
<1> QED BY <1>1, RingKeepsShape, NeverSilentGap, EndMeansAll, NeverMissesWake,
           PTL
=============================================================================
