----------------------------- MODULE ByteStream -----------------------------
(***************************************************************************)
(* One end of a byte-stream channel: senders that take turns at the        *)
(* writer, the reader thread that routes what the peer sends, and the end  *)
(* of the session at this end, met by any of them                          *)
(* (crates/session-channel/src/byte_stream.rs).                            *)
(*                                                                         *)
(* Each mutex is held by one thread from one step to another; a section    *)
(* that only reads or sets what its own short lock guards (`ended`,        *)
(* `write_failed`, the turns) is one step. A frame's bytes are left out: a *)
(* frame is written whole or torn, read or not.                            *)
(***************************************************************************)
EXTENDS WriteQueue, FiniteSets

CONSTANTS Senders,     \* threads that call `send`
          Closers,     \* threads that call `close`
          Reader,      \* the reader thread
          NoFrame,     \* no frame in hand
          Keys,        \* [call, control : BOOLEAN, target : ...]: tag and FrameKey
          MaxSends,    \* bound: calls of `send`
          MaxFrames    \* bound: frames the peer sends

Threads == Senders \cup Closers \cup {Reader}
Nobody == "nobody"

ASSUME ThreadsAssumption ==
  /\ Reader \notin Senders \cup Closers
  /\ Senders \cap Closers = {}
  /\ Nobody \notin Threads
ASSUME KeysAssumption ==
  \A k \in Keys : DOMAIN k = {"call", "control", "target"}
                  /\ k.call \in BOOLEAN /\ k.control \in BOOLEAN
ASSUME BoundsAssumption == MaxSends \in Nat /\ MaxFrames \in Nat

VARIABLES
  queue,      \* Turns.queue: the frames of the senders that wait
  busy,       \* Turns.busy
  next,       \* Turns.next: the number of the next frame
  stage,      \* where each thread is
  hand,       \* the frame of the sender that has the turn
  writerLock, \* who holds the writer's mutex
  poisoned,   \* that mutex is poisoned
  writer,     \* the writer is there: it has not been dropped
  failed,     \* Shared.write_failed is set
  ended,      \* Shared.ended is set
  delivery,   \* who holds the delivery fence
  told,       \* how often the router was told of the end
  incoming,   \* frames the reader has read
  wire        \* what was written on the stream: frames, whole or torn

turnVars == <<queue, busy, next>>
writerVars == <<writerLock, poisoned, writer, failed, wire>>
vars == <<turnVars, stage, hand, writerVars, ended, delivery, told, incoming>>

Frame == [call : BOOLEAN, control : BOOLEAN, target : {k.target : k \in Keys},
          by : Senders, ticket : Nat, late : BOOLEAN]
Stages == {"idle", "check", "asleep", "lock", "decide", "write", "tell",
           "finish", "unlock", "release", "give",
           "read", "deliver", "route", "gone"}

Init ==
  /\ queue = <<>> /\ busy = FALSE /\ next = 0
  /\ stage = [t \in Threads |-> IF t = Reader THEN "read" ELSE "idle"]
  /\ hand = NoFrame
  /\ writerLock = Nobody /\ poisoned = FALSE /\ writer = TRUE
  /\ failed = FALSE /\ ended = FALSE
  /\ delivery = Nobody /\ told = 0
  /\ incoming = 0
  /\ wire = <<>>

Goto(t, place) == stage' = [stage EXCEPT ![t] = place]

-----------------------------------------------------------------------------
(* The end of the session: `Shared::end` and `release_if_ended`. *)

\* Where a thread goes on once the router has been told, or need not be.
AfterEnd(t) == IF t \in Senders THEN "finish" ELSE "release"

\* Mutant of End: an end that a sender meets is left to the reader to tell.
EndByReader(t) ==
  /\ ended' = TRUE
  /\ Goto(t, IF ended \/ t \in Senders THEN AfterEnd(t) ELSE "tell")

\* The first to end the session tells the router.
End(t) ==
  /\ ended' = TRUE
  /\ Goto(t, IF ended THEN AfterEnd(t) ELSE "tell")

\* Mutant of Tell: the router is told without the delivery fence.
TellUnfenced(t) ==
  /\ stage[t] = "tell"
  /\ told' = told + 1
  /\ Goto(t, AfterEnd(t))
  /\ UNCHANGED <<turnVars, hand, writerVars, ended, delivery, incoming>>

\* `router.ended`, inside the delivery fence.
Tell(t) ==
  /\ stage[t] = "tell" /\ delivery = Nobody
  /\ told' = told + 1
  /\ Goto(t, AfterEnd(t))
  /\ UNCHANGED <<turnVars, hand, writerVars, ended, delivery, incoming>>

\* Where a thread goes on after release_if_ended.
AfterRelease(t) == IF t \in Senders THEN "give" ELSE "gone"

\* An ended session's writer is dropped by whoever finds it free.
ReleaseIfEnded(t) ==
  /\ stage[t] = "release"
  /\ writer' = (writer /\ ~(ended /\ writerLock = Nobody))
  /\ Goto(t, AfterRelease(t))
  /\ UNCHANGED <<turnVars, hand, writerLock, poisoned, failed, wire, ended,
                 delivery, told, incoming>>

\* `close`, and the drop of the end.
Close(t) ==
  /\ t \in Closers /\ stage[t] = "idle"
  /\ End(t)
  /\ UNCHANGED <<turnVars, hand, writerVars, delivery, told, incoming>>

-----------------------------------------------------------------------------
(* Turns: `Turns::wait` and the drop of a Turn. *)

\* A call of `send` queues its frame.
Arrive(s, k) ==
  /\ stage[s] = "idle" /\ next < MaxSends
  /\ LET f == [call |-> k.call, control |-> k.control, target |-> k.target,
               by |-> s, ticket |-> next, late |-> ended]
     IN  queue' = Append(queue, f)
  /\ next' = next + 1
  /\ Goto(s, "check")
  /\ UNCHANGED <<busy, hand, writerVars, ended, delivery, told, incoming>>

MyTurn(s) == ~busy /\ Peek(queue).by = s

TakeTurn(s) ==
  /\ stage[s] = "check" /\ MyTurn(s)
  /\ queue' = Popped(queue)
  /\ busy' = TRUE /\ hand' = Peek(queue)
  /\ Goto(s, "lock")
  /\ UNCHANGED <<next, writerVars, ended, delivery, told, incoming>>

\* Not its turn: the sender waits to be notified.
Sleep(s) ==
  /\ stage[s] = "check" /\ ~MyTurn(s)
  /\ Goto(s, "asleep")
  /\ UNCHANGED <<turnVars, hand, writerVars, ended, delivery, told, incoming>>

\* Mutant of Notified: nobody is woken.
NotifiedNobody(s, st) == [st EXCEPT ![s] = "idle"]

\* `notify_all`: each sender that waits checks again, and s returns.
Notified(s, st) ==
  [t \in Threads |-> IF t = s THEN "idle"
                     ELSE IF st[t] = "asleep" THEN "check" ELSE st[t]]

\* `send` returns, giving its turn back.
GiveTurn(s) ==
  /\ s \in Senders /\ stage[s] = "give"
  /\ busy' = FALSE /\ hand' = NoFrame
  /\ stage' = Notified(s, stage)
  /\ UNCHANGED <<queue, next, writerVars, ended, delivery, told,
                 incoming>>

-----------------------------------------------------------------------------
(* `send`, with its turn. *)

\* `lock_writer`. A poisoned lock ends the session, with the lock held; a
\* session that has ended gives the send its error.
LockWriter(s) ==
  /\ stage[s] = "lock" /\ writerLock = Nobody
  /\ writerLock' = s
  /\ \/ ~poisoned /\ Goto(s, "decide") /\ UNCHANGED ended
     \/ poisoned /\ End(s)
  /\ UNCHANGED <<turnVars, hand, poisoned, writer, failed, wire, delivery,
                 told, incoming>>

\* The session has ended, or the writer met the far side's failure before.
Refused(s) ==
  /\ stage[s] = "decide" /\ (ended \/ failed)
  /\ Goto(s, "finish")
  /\ UNCHANGED <<turnVars, hand, writerVars, ended, delivery, told, incoming>>

\* No writer in a session that goes on, or a frame that fails its check.
Invalid(s) ==
  /\ stage[s] = "decide" /\ ~ended /\ ~failed
  /\ End(s)
  /\ UNCHANGED <<turnVars, hand, writerVars, delivery, told, incoming>>

StartWrite(s) ==
  /\ stage[s] = "decide" /\ ~ended /\ ~failed /\ writer
  /\ Goto(s, "write")
  /\ UNCHANGED <<turnVars, hand, writerVars, ended, delivery, told, incoming>>

Written(whole) == Append(wire, [frame |-> hand, whole |-> whole])

WriteDone(s) ==
  /\ stage[s] = "write"
  /\ wire' = Written(TRUE)
  /\ Goto(s, "finish")
  /\ UNCHANGED <<turnVars, hand, writerLock, poisoned, writer, failed, ended,
                 delivery, told, incoming>>

\* The far side stopped listening: the session goes on reading.
WritePeerGone(s) ==
  /\ stage[s] = "write"
  /\ wire' = Written(FALSE)
  /\ failed' = TRUE
  /\ Goto(s, "finish")
  /\ UNCHANGED <<turnVars, hand, writerLock, poisoned, writer, ended,
                 delivery, told, incoming>>

\* Any other failure ends the session.
WriteFails(s) ==
  /\ stage[s] = "write"
  /\ wire' = Written(FALSE)
  /\ End(s)
  /\ UNCHANGED <<turnVars, hand, writerLock, poisoned, writer, failed,
                 delivery, told, incoming>>

\* Mutant of WritePanics: unwinding does not give the turn back.
WritePanicsBusy(s) ==
  /\ stage[s] = "write"
  /\ wire' = Written(FALSE)
  /\ poisoned' = TRUE /\ writerLock' = Nobody
  /\ Goto(s, "idle")
  /\ UNCHANGED <<turnVars, hand, writer, failed, ended, delivery, told,
                 incoming>>

\* A stream that panics poisons the lock; unwinding gives the turn back.
WritePanics(s) ==
  /\ stage[s] = "write"
  /\ wire' = Written(FALSE)
  /\ poisoned' = TRUE /\ writerLock' = Nobody
  /\ busy' = FALSE /\ hand' = NoFrame
  /\ stage' = Notified(s, stage)
  /\ UNCHANGED <<queue, next, writer, failed, ended, delivery, told,
                 incoming>>

\* An ended session's writer goes with the lock still held.
Finish(s) ==
  /\ stage[s] = "finish"
  /\ writer' = (writer /\ ~ended)
  /\ Goto(s, "unlock")
  /\ UNCHANGED <<turnVars, hand, writerLock, poisoned, failed, wire, ended,
                 delivery, told, incoming>>

\* Mutant of Unlock: the end of the session is not looked at again.
UnlockOnly(s) ==
  /\ stage[s] = "unlock"
  /\ writerLock' = Nobody
  /\ Goto(s, "give")
  /\ UNCHANGED <<turnVars, hand, poisoned, writer, failed, wire, ended,
                 delivery, told, incoming>>

Unlock(s) ==
  /\ stage[s] = "unlock"
  /\ writerLock' = Nobody
  /\ Goto(s, "release")
  /\ UNCHANGED <<turnVars, hand, poisoned, writer, failed, wire, ended,
                 delivery, told, incoming>>

-----------------------------------------------------------------------------
(* The reader thread: `read_loop`. *)

\* `read_frame` returns a frame.
ReadFrame ==
  /\ stage[Reader] = "read" /\ incoming < MaxFrames
  /\ incoming' = incoming + 1
  /\ Goto(Reader, "deliver")
  /\ UNCHANGED <<turnVars, hand, writerVars, ended, delivery, told>>

\* The stream ends, fails, panics or carries what is no frame.
ReadEnds ==
  /\ stage[Reader] = "read"
  /\ End(Reader)
  /\ UNCHANGED <<turnVars, hand, writerVars, delivery, told, incoming>>

\* Inside the delivery fence, a frame of an ended session is discarded.
Deliver ==
  /\ stage[Reader] = "deliver" /\ delivery = Nobody
  /\ \/ ended /\ Goto(Reader, "release") /\ UNCHANGED delivery
     \/ ~ended /\ delivery' = Reader /\ Goto(Reader, "route")
  /\ UNCHANGED <<turnVars, hand, writerVars, ended, told, incoming>>

\* `router.route` returns; its error or its panic ends the session.
Route ==
  /\ stage[Reader] = "route"
  /\ delivery' = Nobody
  /\ \/ Goto(Reader, "read") /\ UNCHANGED ended
     \/ End(Reader)
  /\ UNCHANGED <<turnVars, hand, writerVars, told, incoming>>

-----------------------------------------------------------------------------

SendStep(s) ==
  \/ TakeTurn(s) \/ Sleep(s) \/ LockWriter(s) \/ Refused(s)
  \/ StartWrite(s) \/ WriteDone(s) \/ Finish(s) \/ Unlock(s) \/ GiveTurn(s)

SendFault(s) ==
  Invalid(s) \/ WritePeerGone(s) \/ WriteFails(s) \/ WritePanics(s)

EndStep(t) == Tell(t) \/ ReleaseIfEnded(t)

Next ==
  \/ \E s \in Senders : \E k \in Keys : Arrive(s, k)
  \/ \E s \in Senders : SendStep(s) \/ SendFault(s)
  \/ \E t \in Closers : Close(t)
  \/ \E t \in Threads : EndStep(t)
  \/ ReadFrame \/ ReadEnds \/ Deliver \/ Route

Spec == Init /\ [][Next]_vars

\* The stream returns from a write and the router from `route`, which never
\* blocks; the read that waits for the peer may wait for ever.
FairSpec ==
  /\ Spec
  /\ \A s \in Senders : WF_vars(SendStep(s))
  /\ \A t \in Threads : WF_vars(EndStep(t))
  /\ WF_vars(Deliver \/ Route)

-----------------------------------------------------------------------------
(* Properties. *)

TypeOK ==
  /\ queue \in Seq(Frame) /\ busy \in BOOLEAN /\ next \in Nat
  /\ stage \in [Threads -> Stages]
  /\ hand \in Frame \cup {NoFrame}
  /\ writerLock \in Senders \cup {Nobody} /\ delivery \in {Reader, Nobody}
  /\ poisoned \in BOOLEAN /\ writer \in BOOLEAN
  /\ failed \in BOOLEAN /\ ended \in BOOLEAN
  /\ told \in Nat /\ incoming \in Nat
  /\ wire \in Seq([frame : Frame, whole : BOOLEAN])

\* On the wire, a frame is ahead of one that called `send` before it only where
\* the writer's rule lets it: never ahead of its own target's, never ahead of
\* a SessionCall, and only if it is a control frame (D-N).
WireOrder ==
  \A i, j \in 1 .. Len(wire) :
    i < j /\ wire[j].frame.ticket < wire[i].frame.ticket =>
      MayOvertake(wire[i].frame, wire[j].frame)

\* Nothing is written after a frame that was not written whole, whatever went
\* wrong with it: the peer never reads a frame from the middle of another.
FramingKept == \A i \in 1 .. Len(wire) - 1 : wire[i].whole

\* A frame whose `send` was called after the session had ended here is not
\* written.
NothingSentLate == \A i \in 1 .. Len(wire) : ~wire[i].frame.late

\* The three together: what the peer can read is sound.
WireSound == WireOrder /\ FramingKept /\ NothingSentLate

\* No turn is lost: when the writer is free, the sender whose frame comes next
\* is awake (`Turns::wait` and the drop of a Turn).
NoSleepingTurn ==
  ~busy /\ queue # <<>> => stage[Peek(queue).by] = "check"

\* The router is told of the end at most once, and is handed nothing after.
ToldOnceAfterLastRoute ==
  /\ told <= 1
  /\ told = 1 => ended /\ stage[Reader] # "route"

\* Some thread that uses the writer, or ends the session, has yet to look at
\* the end again.
SomeoneReleases ==
  \E t \in Threads : stage[t] \in {"decide", "write", "tell", "finish",
                                   "unlock", "release"}

\* The writer goes only once the session has ended, and it does go: while it is
\* still there, someone has yet to release it. A write that panicked is apart.
WriterReleased ==
  /\ ~writer => ended
  /\ ended /\ writer /\ ~poisoned => SomeoneReleases

\* Every call of `send` returns, whatever other senders, the reader and the end
\* of the session do meanwhile: no frame waits for ever, and nobody waits for
\* the writer and the delivery fence crosswise.
SendReturns ==
  \A s \in Senders : stage[s] # "idle" ~> stage[s] = "idle"

\* The router learns of the end.
EndIsTold == ended ~> told = 1
=============================================================================
