------------------------------ MODULE EventLog ------------------------------
(***************************************************************************)
(* One operation's event log, the subscriber that reads it and the wake-up *)
(* of the read thread (crates/session-host/src/service/events.rs and       *)
(* ReadSignal in service.rs).                                              *)
(*                                                                         *)
(* The log is a ring: when it overflows, its oldest records give way to    *)
(* one reset record. The producer, the call's worker, appends inside its   *)
(* gate, so appends and the log's completion never overlap; each wakes the *)
(* read thread after it let the ring's lock go. What the record and byte   *)
(* limits of a read let through is any non-empty prefix.                   *)
(***************************************************************************)
EXTENDS Integers, Sequences

CONSTANTS Capacity,   \* Limits.event_log
          MaxRecords  \* bound: records the operation appends

ASSUME CapacityAssumption == Capacity \in Nat /\ Capacity >= 2
ASSUME RecordsAssumption == MaxRecords \in Nat

VARIABLES
  entries,   \* Ring.entries: sequence numbers, and which record is a reset
  nextSeq,   \* Ring.next_seq
  complete,  \* Ring.complete
  producer,  \* "idle", or "notify" between the ring's lock and the wake-up
  pending,   \* ReadSignal.pending
  reads,     \* the read thread: "check" or "wait"
  held,      \* the subscriber's read is held
  cursor,    \* the subscriber's cursor
  got,       \* the records it received
  resets,    \* the resets it received
  told       \* it was told that the log is complete

vars == <<entries, nextSeq, complete, producer, pending, reads, held, cursor,
          got, resets, told>>
ringVars == <<entries, nextSeq, complete>>
clientVars == <<cursor, got, resets, told>>

Entry == [seq : Nat, reset : BOOLEAN]

Init ==
  /\ entries = <<>> /\ nextSeq = 1 /\ complete = FALSE
  /\ producer = "idle" /\ pending = FALSE
  /\ reads = "check" /\ held = FALSE
  /\ cursor = 0 /\ got = {} /\ resets = {} /\ told = FALSE

-----------------------------------------------------------------------------
(* The producer. *)

\* Mutant of Overflowed: the reset bears the number of the first record dropped.
OverflowedFirst(e) ==
  <<[seq |-> e[1].seq, reset |-> TRUE]>>
    \o SubSeq(e, Len(e) - Capacity + 2, Len(e))

\* A ring over its capacity keeps its last Capacity - 1 records, behind a reset
\* that bears the number of the last one dropped.
Overflowed(e) ==
  <<[seq |-> e[Len(e) - Capacity + 1].seq, reset |-> TRUE]>>
    \o SubSeq(e, Len(e) - Capacity + 2, Len(e))

Pushed(e) == Append(e, [seq |-> nextSeq, reset |-> FALSE])

\* `EventLog::push`, under the ring's lock.
Push ==
  /\ producer = "idle" /\ ~complete /\ nextSeq <= MaxRecords
  /\ entries' = IF Len(Pushed(entries)) > Capacity
                THEN Overflowed(Pushed(entries)) ELSE Pushed(entries)
  /\ nextSeq' = nextSeq + 1
  /\ producer' = "notify"
  /\ UNCHANGED <<complete, pending, reads, held, clientVars>>

\* Mutant of Complete: the end of the log wakes nobody.
CompleteSilently ==
  /\ producer = "idle" /\ ~complete
  /\ complete' = TRUE
  /\ UNCHANGED <<entries, nextSeq, producer, pending, reads, held, clientVars>>

\* `EventLog::complete`, when the operation settles.
Complete ==
  /\ producer = "idle" /\ ~complete
  /\ complete' = TRUE
  /\ producer' = "notify"
  /\ UNCHANGED <<entries, nextSeq, pending, reads, held, clientVars>>

\* `ReadSignal::notify`, after either.
Notify ==
  /\ producer = "notify"
  /\ pending' = TRUE
  /\ producer' = "idle"
  /\ UNCHANGED <<ringVars, reads, held, clientVars>>

-----------------------------------------------------------------------------
(* Reading: `EventLog::read` for a call and for the read thread. *)

\* The entries after the cursor, by index.
After == {i \in 1 .. Len(entries) : entries[i].seq > cursor}
Ready == After # {} \/ complete

\* The entries of a batch that ends with entry `upto`, by index.
Batch(upto) == {i \in After : i <= upto}
Records(upto) ==
  {entries[i].seq : i \in {m \in Batch(upto) : ~entries[m].reset}}
Resets(upto) ==
  {entries[i].seq : i \in {m \in Batch(upto) : entries[m].reset}}

\* The subscriber receives a batch that the limits end at `upto`; the log is
\* complete for it once nothing comes after.
ReceiveBatch(upto) ==
  /\ cursor' = entries[upto].seq
  /\ got' = got \cup Records(upto)
  /\ resets' = resets \cup Resets(upto)
  /\ told' = (complete /\ \A i \in After : entries[i].seq <= entries[upto].seq)

\* A batch with no record.
ReceiveNone ==
  /\ After = {}
  /\ told' = complete
  /\ UNCHANGED <<cursor, got, resets>>

Receive == ReceiveNone \/ \E upto \in After : ReceiveBatch(upto)

\* A read that finds something is answered on the reading thread.
ReadNow ==
  /\ ~held /\ ~told /\ Ready
  /\ Receive
  /\ UNCHANGED <<ringVars, producer, pending, reads, held>>

\* One that finds nothing is held, and wakes the read thread to its deadline.
ReadHeld ==
  /\ ~held /\ ~told /\ ~Ready
  /\ held' = TRUE
  /\ pending' = TRUE
  /\ UNCHANGED <<ringVars, producer, reads, clientVars>>

-----------------------------------------------------------------------------
(* The read thread: `read_loop`. *)

\* A held read that has something to return is answered.
CheckAnswers ==
  /\ reads = "check" /\ held /\ Ready
  /\ Receive
  /\ held' = FALSE
  /\ reads' = "wait"
  /\ UNCHANGED <<ringVars, producer, pending>>

\* Nothing to return, and the read's wait has not elapsed.
CheckKeeps ==
  /\ reads = "check" /\ ~(held /\ Ready)
  /\ reads' = "wait"
  /\ UNCHANGED <<ringVars, producer, pending, held, clientVars>>

\* The read's wait has elapsed, or the session closes: it returns nothing.
CheckExpires ==
  /\ reads = "check" /\ held /\ ~Ready
  /\ held' = FALSE
  /\ reads' = "wait"
  /\ UNCHANGED <<ringVars, producer, pending, clientVars>>

\* `ReadSignal::wait` returns, and the wake-up is reset.
Wake ==
  /\ reads = "wait" /\ pending
  /\ pending' = FALSE
  /\ reads' = "check"
  /\ UNCHANGED <<ringVars, producer, held, clientVars>>

\* It returns after its timeout all the same.
WakeUnasked ==
  /\ reads = "wait" /\ ~pending
  /\ reads' = "check"
  /\ UNCHANGED <<ringVars, producer, pending, held, clientVars>>

-----------------------------------------------------------------------------

ReadsStep == CheckAnswers \/ CheckKeeps \/ Wake

Next ==
  \/ Push \/ Complete \/ Notify
  \/ ReadNow \/ ReadHeld
  \/ ReadsStep \/ CheckExpires \/ WakeUnasked

Spec == Init /\ [][Next]_vars

\* The wake-ups and the read thread go on; neither the producer nor the
\* subscriber nor any timer has to.
FairSpec == Spec /\ WF_vars(Notify) /\ WF_vars(ReadsStep)

-----------------------------------------------------------------------------
(* Properties. *)

\* The variables have their types.
TypeOK ==
  /\ entries \in Seq(Entry)
  /\ nextSeq \in Nat \ {0}
  /\ complete \in BOOLEAN /\ pending \in BOOLEAN /\ held \in BOOLEAN
  /\ told \in BOOLEAN
  /\ producer \in {"idle", "notify"} /\ reads \in {"check", "wait"}
  /\ cursor \in Nat
  /\ got \subseteq Nat /\ resets \subseteq Nat

\* The ring never holds more than its capacity, its numbers run without a gap
\* up to the last record appended, and it starts with record 1 until a reset
\* stands, in front and nowhere else, for what was dropped (`push`).
RingShape ==
  /\ Len(entries) <= Capacity
  /\ \A i \in 1 .. Len(entries) :
       /\ entries[i].seq = nextSeq - 1 - Len(entries) + i
       /\ i > 1 => ~entries[i].reset
  /\ nextSeq - 1 # Len(entries) => Len(entries) >= 1 /\ entries[1].reset

\* A subscriber never misses a record without being told: whatever batches its
\* reads return and whenever the ring overflows between them, each record up
\* to its cursor reached it or is covered by a reset that did (§5.4).
NoSilentGap ==
  \A n \in 1 .. cursor : n \in got \/ \E r \in resets : n <= r

\* The end of the log is told only to a subscriber that has it all, and after
\* the last append.
CompleteMeansAll == told => complete /\ cursor = nextSeq - 1

\* The read thread never sleeps on a held read that has something to return:
\* its wake-up is pending, or about to be set.
NoMissedWake ==
  held /\ Ready /\ reads = "wait" => pending \/ producer = "notify"

\* The four together.
LogSound == RingShape /\ NoSilentGap /\ CompleteMeansAll /\ NoMissedWake

\* A held read is answered once there is something to return, without the help
\* of any timer.
HeldAnswered == held /\ Ready ~> ~held
=============================================================================
