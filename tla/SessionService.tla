--------------------------- MODULE SessionService ---------------------------
(***************************************************************************)
(* One session's operation service: the reading, admission, read, worker   *)
(* and close threads over the table of SessionTable                        *)
(* (crates/session-host/src/service.rs, service/workers.rs, the read       *)
(* thread of service/events.rs and the admission thread and schedule of    *)
(* service/table/admit.rs), with the host's record of detached workers     *)
(* (detached.rs) and the channel the replies leave by.                     *)
(*                                                                         *)
(* A section under the table lock is one action, but for the loops that    *)
(* start, settle or detach calls one by one: those hold `lock` from one    *)
(* action to the next. Gates act at once, as OperationGate's refinement of *)
(* GateContract lets them: `cancelled` and `revoked` are sets of calls.    *)
(* A thread is a number: workers bear the call they run.                   *)
(***************************************************************************)
EXTENDS SessionTable

CONSTANTS Requests,         \* what the client may ask
          SpawnMayFail,     \* whether a worker thread may fail to start
          CloseSpawnMayFail,\* whether the close thread may fail to start
          ChannelMayEnd,    \* whether the client may close the channel
          Shared            \* workspaces other sessions of the host act on

ASSUME ServiceAssumption ==
  /\ Requests \subseteq Request /\ Requests # {}
  /\ Shared \subseteq Workspaces
  /\ {SpawnMayFail, CloseSpawnMayFail, ChannelMayEnd} \subseteq BOOLEAN

Reader == 0
Admission == -1
Reads == -2
Closer == -3
NoThread == -4
Threads == Closer .. MaxCall

VARIABLES
  tbl,        \* the table (Inner.state)
  lock,       \* the thread inside a loop under the table lock
  scan,       \* `schedule`'s index into the queue, its blocked workspaces, and
              \* whether it found the entry there clear of detached workers
  stage,      \* where each thread is
  batch,      \* the replies each thread has yet to send
  incoming,   \* the request the reading thread is handling
  admitting,  \* the call the admission thread is resolving, and whether it
              \* was cancelled when popped
  result,     \* what each worker's handler returned
  after,      \* where the close thread goes after its flush
  replies,    \* whether a `session.close` started the close
  chan,       \* the channel is open
  sent,       \* replies handed to the channel
  dropped,    \* replies that could not be sent: the channel was closed or full
  recorded,   \* this session's calls in the host's detached record
  foreign,    \* workspaces other sessions' detached workers still run on
  spools      \* the session still holds its diff and log spools

ioVars == <<chan, sent, dropped>>
hostVars == <<recorded, foreign, spools>>
closeVars == <<after, replies>>
vars == <<tbl, lock, scan, stage, batch, incoming, admitting, result,
          ioVars, hostVars, closeVars>>

ReaderStages == {"idle", "popped", "counted", "spool", "sched", "close",
                 "lost", "inline", "mark", "send", "gone"}
AdmissionStages == {"idle", "resolve", "sched", "mark", "send", "gone"}
ReadStages == {"idle", "mark", "send", "gone"}
CloserStages == {"none", "start", "settle", "wait", "detach", "spools",
                 "report", "drain", "shut", "end", "mark", "send", "done"}
WorkerStages == {"none", "run", "reported", "sched", "mark", "send", "next",
                 "ended"}

NoRequest == CHOOSE q \in Requests : TRUE

Init ==
  /\ tbl = EmptyTable(NoRequest)
  /\ lock = NoThread
  /\ scan = [i |-> 1, blocked |-> {}, clear |-> FALSE]
  /\ stage = [t \in Threads |-> IF t \in Calls \cup {Closer} THEN "none" ELSE "idle"]
  /\ batch = [t \in Threads |-> {}]
  /\ incoming = NoRequest
  /\ admitting = [call |-> NoCall, cancelled |-> FALSE]
  /\ result = [c \in Calls |-> "None"]
  /\ after = "wait" /\ replies = FALSE
  /\ chan = TRUE /\ sent = {} /\ dropped = {}
  /\ recorded = {} /\ foreign = {} /\ spools = TRUE

Goto(t, label) == stage' = [stage EXCEPT ![t] = label]

\* A section of the table lock ends with the table `s`: its replies become
\* the thread's batch.
Unlock(t, s, label) ==
  /\ tbl' = [s EXCEPT !.out = {}]
  /\ batch' = [batch EXCEPT ![t] = s.out]
  /\ lock' = NoThread
  /\ Goto(t, label)

\* A section goes on to `schedule`, which keeps the lock.
ThenSchedule(t, s) ==
  /\ tbl' = s
  /\ lock' = t
  /\ scan' = [i |-> 1, blocked |-> {}, clear |-> FALSE]
  /\ Goto(t, "sched")
  /\ UNCHANGED batch

Free == lock = NoThread

\* A worker's thread still holds its marker (WorkerAlive).
Alive(c) == stage[c] \in {"run", "reported", "sched", "mark", "send"}

\* `DetachedWorkers::running_on`.
DetachedOn(w) ==
  w \in foreign \/ \E c \in recorded : tbl.req[c].ws = w /\ Alive(c)

-----------------------------------------------------------------------------
(* Sending a batch: `flush`. *)

\* The views the batch delivers are marked before any reply is sent.
FlushMark(t) ==
  /\ stage[t] = "mark" /\ Free
  /\ tbl' = MarkDelivered(tbl, batch[t])
  /\ Goto(t, "send")
  /\ UNCHANGED <<lock, scan, batch, incoming, admitting, result, ioVars,
                 hostVars, closeVars>>

\* One reply is handed to the channel, or refused by a closed one.
FlushSend(t, r) ==
  /\ stage[t] = "send"
  /\ r \in batch[t]
  /\ batch' = [batch EXCEPT ![t] = @ \ {r}]
  /\ sent' = IF chan THEN sent \cup {r} ELSE sent
  /\ dropped' = IF chan THEN dropped ELSE dropped \cup {r}
  /\ UNCHANGED <<tbl, lock, scan, stage, incoming, admitting, result, chan,
                 hostVars, closeVars>>

\* A full lane: the reply cannot be delivered and the channel is closed.
FlushFull(t, r) ==
  /\ ChannelMayEnd
  /\ stage[t] = "send" /\ chan
  /\ r \in batch[t]
  /\ batch' = [batch EXCEPT ![t] = @ \ {r}]
  /\ dropped' = dropped \cup {r}
  /\ chan' = FALSE
  /\ UNCHANGED <<tbl, lock, scan, stage, incoming, admitting, result, sent,
                 hostVars, closeVars>>

\* Where a thread goes on after its flush. A protocol error makes the reading
\* thread end the session.
Onward(t) ==
  CASE t = Reader    -> IF incoming.type = "Stale" THEN "lost" ELSE "idle"
    [] t = Admission -> "idle"
    [] t = Reads     -> "idle"
    [] t = Closer    -> after
    [] OTHER         -> IF tbl.req[t].type = "Direct" THEN "next" ELSE "ended"

\* The batch is uncounted once it is sent.
FlushDone(t) ==
  /\ stage[t] = "send" /\ batch[t] = {} /\ Free
  /\ tbl' = [tbl EXCEPT !.unflushed = Less(@, 1)]
  /\ Goto(t, Onward(t))
  /\ UNCHANGED <<lock, scan, batch, incoming, admitting, result, ioVars,
                 hostVars, closeVars>>

-----------------------------------------------------------------------------
(* The reading thread: `Service::receive` and `table::receive`. *)

readerUnchanged == <<incoming, admitting, result, ioVars, hostVars, closeVars>>

\* A frame is read from the open channel.
ReadFrame(q) ==
  /\ stage[Reader] = "idle" /\ chan
  /\ tbl.high < MaxCall
  /\ incoming' = q
  /\ Goto(Reader, "popped")
  /\ UNCHANGED <<tbl, lock, scan, batch, admitting, result, ioVars, hostVars,
                 closeVars>>

\* Counted before the table's section, so that a close never overtakes the
\* replies this call produces.
CountBatch ==
  /\ stage[Reader] = "popped" /\ Free
  /\ tbl' = [tbl EXCEPT !.unflushed = @ + 1]
  /\ Goto(Reader, "counted")
  /\ UNCHANGED <<lock, scan, batch, readerUnchanged>>

\* The call's own section: its ID is the next one and its request is known.
Call == tbl.high + 1
Heard == [tbl EXCEPT !.high = Call, !.req[Call] = incoming]
ReceiveEnabled(types) ==
  /\ stage[Reader] = "counted" /\ Free
  /\ incoming.type \in types

\* A call ID not above the highest ends the session as a protocol error.
ReceiveStale ==
  /\ ReceiveEnabled({"Stale"})
  /\ Unlock(Reader, tbl, "mark")
  /\ UNCHANGED <<scan, readerUnchanged>>

ReceiveEnded ==
  /\ ReceiveEnabled(RequestTypes \ {"Stale"})
  /\ tbl.ended
  /\ Unlock(Reader, Heard, "mark")
  /\ UNCHANGED <<scan, readerUnchanged>>

Refuses ==
  \/ incoming.type = "Malformed"
  \/ tbl.closing /\ incoming.type # "Close"
  \/ Full(tbl, incoming)

\* A malformed call, one after the close began, or one over its lane's limit.
ReceiveRefused ==
  /\ ReceiveEnabled(RequestTypes \ {"Stale"})
  /\ ~tbl.ended /\ Refuses
  /\ Unlock(Reader, [Heard EXCEPT !.out = {Reply(Call, "refused")}], "mark")
  /\ UNCHANGED <<scan, readerUnchanged>>

Takes(types) == ReceiveEnabled(types) /\ ~tbl.ended /\ ~Refuses
Fresh == Counted(Heard, incoming)

ReceiveCall ==
  /\ Takes({"Direct", "Operation"})
  /\ Unlock(Reader, Create(Fresh, Call), "mark")
  /\ UNCHANGED <<scan, readerUnchanged>>

ReceiveRead ==
  /\ Takes({"Read", "EndStream"})
  /\ Unlock(Reader, ReadEvents(Fresh, Call), "mark")
  /\ UNCHANGED <<scan, readerUnchanged>>

ReceiveView ==
  /\ Takes({"Result", "Response"})
  /\ Unlock(Reader, View(Fresh, Call), "mark")
  /\ UNCHANGED <<scan, readerUnchanged>>

ReceiveRelease ==
  /\ Takes({"Release"})
  /\ Unlock(Reader, Release(Fresh, Call), "mark")
  /\ UNCHANGED <<scan, readerUnchanged>>

ReceiveCancel ==
  /\ Takes({"Cancel", "CancelOp"})
  /\ IF CancelFinds(Fresh, Call) /\ Waiting(tbl, incoming.target)
     THEN ThenSchedule(Reader, Cancel(Fresh, Call))
     ELSE Unlock(Reader, Cancel(Fresh, Call), "mark") /\ UNCHANGED scan
  /\ UNCHANGED readerUnchanged

\* A spool call is answered by core with the table unlocked.
ReceiveSpool ==
  /\ Takes({"Spool"})
  /\ Unlock(Reader, Fresh, "spool")
  /\ UNCHANGED <<scan, readerUnchanged>>

SpoolAnswered ==
  /\ stage[Reader] = "spool" /\ Free
  /\ Unlock(Reader, Answer(tbl, tbl.high, "spool"), "mark")
  /\ UNCHANGED <<scan, readerUnchanged>>

ReceiveClose ==
  /\ Takes({"Close"})
  /\ IF tbl.report
     THEN Unlock(Reader, Answer(Fresh, Call, "report"), "mark")
     ELSE Unlock(Reader, [Fresh EXCEPT !.others = @ \cup {Call},
                                       !.closers = @ \cup {Call}],
                 IF tbl.closeStarted THEN "mark" ELSE "close")
  /\ UNCHANGED <<scan, readerUnchanged>>

\* The reading thread finds the channel closed: `Service::channel_closed`.
ChannelClosed ==
  /\ stage[Reader] = "idle" /\ ~chan
  /\ Goto(Reader, "lost")
  /\ UNCHANGED <<tbl, lock, scan, batch, readerUnchanged>>

\* `workers::close`, for a `session.close` or for the channel's end: the first
\* one starts the close, on a thread of its own or, when none can be created,
\* on this one.
CloseBegins(spawned) ==
  LET next == IF stage[Reader] = "close" THEN "mark" ELSE "gone" IN
  /\ stage[Reader] \in {"close", "lost"} /\ Free
  /\ spawned \/ CloseSpawnMayFail
  /\ IF tbl.closeStarted
     THEN /\ Goto(Reader, next)
          /\ UNCHANGED <<tbl, replies>>
     ELSE /\ tbl' = [tbl EXCEPT !.closeStarted = TRUE, !.closing = TRUE]
          /\ replies' = (stage[Reader] = "close")
          /\ stage' = [stage EXCEPT ![Closer] = "start",
                         ![Reader] = IF spawned THEN next ELSE "inline"]
  /\ UNCHANGED <<lock, scan, batch, incoming, admitting, result, ioVars,
                 hostVars, after>>

\* A close that ran on the reading thread returns to it.
InlineReturns ==
  /\ stage[Reader] = "inline" /\ stage[Closer] = "done"
  /\ Goto(Reader, IF replies THEN "mark" ELSE "gone")
  /\ UNCHANGED <<tbl, lock, scan, batch, readerUnchanged>>

-----------------------------------------------------------------------------
(* The admission thread: `admission_loop` and `admit`. *)

\* A pending call is popped, and skipped when it was settled meanwhile.
AdmissionPop ==
  /\ stage[Admission] = "idle" /\ Free
  /\ ~tbl.ended /\ tbl.pending # <<>>
  /\ LET c == Head(tbl.pending) IN
     /\ tbl' = [tbl EXCEPT !.pending = Tail(@)]
     /\ IF Phase(tbl, c) = "Received"
        THEN /\ admitting' = [call |-> c, cancelled |-> c \in tbl.cancelled]
             /\ Goto(Admission, "resolve")
        ELSE UNCHANGED <<admitting, stage>>
  /\ UNCHANGED <<lock, scan, batch, incoming, result, ioVars, hostVars,
                 closeVars>>

\* Resolution, which takes no lock, has ended well or not; the call is
\* admitted, queued or settled, if nothing settled it meanwhile.
Admit(ok) ==
  LET c == admitting.call
      s == [tbl EXCEPT !.unflushed = @ + 1]
  IN
  /\ stage[Admission] = "resolve" /\ Free
  /\ IF Phase(tbl, c) # "Received"
     THEN Unlock(Admission, s, "mark") /\ UNCHANGED scan
     ELSE IF admitting.cancelled \/ c \in tbl.cancelled
     THEN Unlock(Admission, Settle(s, c, "Cancelled"), "mark") /\ UNCHANGED scan
     ELSE IF ~ok
     THEN Unlock(Admission, Settle(s, c, "Failed"), "mark") /\ UNCHANGED scan
     ELSE IF ~IsOperation(tbl.req[c])
     THEN ThenSchedule(Admission, AdmitDirect(s, c))
     ELSE IF AdmitRefuses(tbl, c, DetachedOn(tbl.req[c].ws))
     THEN Unlock(Admission, Settle(s, c, "Failed"), "mark") /\ UNCHANGED scan
     ELSE ThenSchedule(Admission, AdmitOperation(s, c))
  /\ UNCHANGED readerUnchanged

AdmissionEnds ==
  /\ stage[Admission] = "idle" /\ Free /\ tbl.ended
  /\ Goto(Admission, "gone")
  /\ UNCHANGED <<tbl, lock, scan, batch, readerUnchanged>>

-----------------------------------------------------------------------------
(* `schedule`, on whichever thread holds the lock. *)

Scanning(t) ==
  /\ stage[t] = "sched" /\ lock = t
  /\ scan.i <= Len(tbl.queue) /\ tbl.running < RunningLimit

Candidate == tbl.queue[scan.i]
Unqueued == [tbl EXCEPT !.queue = Drop(@, scan.i)]
CandidateWs == tbl.req[Candidate].ws
Stays(t) == stage[t] = "sched" /\ UNCHANGED <<lock, batch, readerUnchanged>>

\* An entry whose record is gone leaves the queue.
ScheduleSkip(t) ==
  /\ Scanning(t)
  /\ Phase(tbl, Candidate) = "None"
  /\ tbl' = Unqueued
  /\ UNCHANGED <<scan, stage>>
  /\ Stays(t)

\* `running_on` takes the detached record's own lock and lets it go: what it
\* found is used in later steps, before which other sessions may detach.
Busy == Exclusive(tbl.req[Candidate]) /\ DetachedOn(CandidateWs)
Examined(t) == Scanning(t) /\ Phase(tbl, Candidate) # "None" /\ scan.clear
Unexamined(t) == Scanning(t) /\ Phase(tbl, Candidate) # "None" /\ ~scan.clear

\* A write or push beside a worker detached since its admission is refused.
ScheduleBusy(t) ==
  /\ Unexamined(t)
  /\ Busy
  /\ tbl' = Settle(Unqueued, Candidate, "Failed")
  /\ UNCHANGED <<scan, stage>>
  /\ Stays(t)

ScheduleClear(t) ==
  /\ Unexamined(t)
  /\ ~Busy
  /\ scan' = [i |-> scan.i, blocked |-> scan.blocked, clear |-> TRUE]
  /\ UNCHANGED <<tbl, stage>>
  /\ Stays(t)

Startable ==
  /\ CandidateWs \notin scan.blocked
  /\ Admits(tbl.busy[CandidateWs], tbl.req[Candidate].class)

\* Mutant of ScheduleBlocked: an operation that waits does not keep the later
\* ones of its workspace waiting.
ScheduleOvertaken(t) ==
  /\ Examined(t)
  /\ ~Startable
  /\ scan' = [i |-> scan.i + 1, blocked |-> {}, clear |-> FALSE]
  /\ UNCHANGED <<tbl, stage>>
  /\ Stays(t)

\* The classes keep it waiting, and with it the rest of its workspace.
ScheduleBlocked(t) ==
  /\ Examined(t)
  /\ ~Startable
  /\ scan' = [i |-> scan.i + 1, blocked |-> scan.blocked \cup {CandidateWs},
              clear |-> FALSE]
  /\ UNCHANGED <<tbl, stage>>
  /\ Stays(t)

\* It starts on a thread of its own, or is settled when none can be created.
\* A record already settled has no gate left to start with.
ScheduleStart(t, spawned) ==
  LET c == Candidate
      busier == ChangeBusy(Unqueued, c, 1)
  IN
  /\ Examined(t)
  /\ Startable
  /\ spawned \/ SpawnMayFail
  /\ tbl' = IF CanTake(tbl, c) /\ ~spawned
            THEN Settle(Take(busier, c), c, "Failed") ELSE Take(busier, c)
  /\ stage' = IF CanTake(tbl, c) /\ spawned
              THEN [stage EXCEPT ![c] = "run"] ELSE stage
  /\ scan' = [i |-> scan.i, blocked |-> scan.blocked, clear |-> FALSE]
  /\ Stays(t)

Scanned(t) ==
  /\ stage[t] = "sched" /\ lock = t
  /\ scan.i > Len(tbl.queue) \/ tbl.running >= RunningLimit

\* Mutant of ScheduleDirect: a worker that cannot be created stays counted.
ScheduleDirectLeaking(t, spawned) ==
  LET c == NextDirect(tbl)
      taken == [TakeDirect(tbl) EXCEPT !.directRunning = @ + 1]
  IN
  /\ Scanned(t)
  /\ tbl.directRunning < DirectLimit /\ tbl.directQueue # <<>>
  /\ spawned \/ SpawnMayFail
  /\ tbl' = IF c = NoCall \/ spawned THEN taken ELSE Settle(taken, c, "Failed")
  /\ stage' = IF c # NoCall /\ spawned
              THEN [stage EXCEPT ![c] = "run"] ELSE stage
  /\ UNCHANGED scan
  /\ Stays(t)

\* A direct worker starts with the first waiting direct call.
ScheduleDirect(t, spawned) ==
  LET c == NextDirect(tbl)
      taken == TakeDirect(tbl)
  IN
  /\ Scanned(t)
  /\ tbl.directRunning < DirectLimit /\ tbl.directQueue # <<>>
  /\ spawned \/ SpawnMayFail
  /\ tbl' = IF c = NoCall THEN taken
            ELSE IF spawned THEN [taken EXCEPT !.directRunning = @ + 1]
            ELSE Settle(taken, c, "Failed")
  /\ stage' = IF c # NoCall /\ spawned
              THEN [stage EXCEPT ![c] = "run"] ELSE stage
  /\ UNCHANGED scan
  /\ Stays(t)

ScheduleDone(t) ==
  /\ Scanned(t)
  /\ tbl.directRunning >= DirectLimit \/ tbl.directQueue = <<>>
  /\ Unlock(t, tbl, "mark")
  /\ UNCHANGED <<scan, readerUnchanged>>

-----------------------------------------------------------------------------
(* Workers: `run` and the direct workers' loop. *)

workerUnchanged == <<scan, incoming, admitting, ioVars, hostVars, closeVars>>

\* An event passes the gate into the log, unless the call is cancelled or its
\* gate revoked; the append takes no table lock.
WorkerEvent(c) ==
  /\ stage[c] = "run" /\ IsOperation(tbl.req[c])
  /\ c \notin tbl.cancelled \cup tbl.revoked
  /\ tbl.log[c] < MaxEvents /\ c \notin tbl.complete
  /\ tbl' = [tbl EXCEPT !.log[c] = @ + 1]
  /\ UNCHANGED <<lock, batch, stage, result, workerUnchanged>>

\* The handler returns, or panics, and reports through its gate; a revoked
\* gate ignores the report. It ends Cancelled only with a cancelled token.
WorkerReports(c, o) ==
  /\ stage[c] = "run"
  /\ o = "Cancelled" => c \in tbl.cancelled
  /\ result' = [result EXCEPT ![c] = o]
  /\ Goto(c, IF c \notin tbl.revoked THEN "reported"
             ELSE IF tbl.req[c].type = "Direct" THEN "next" ELSE "ended")
  /\ UNCHANGED <<tbl, lock, batch, workerUnchanged>>

\* Mutant of WorkerSettles: what the worker frees is not scheduled.
WorkerSettlesOnly(c) ==
  /\ stage[c] = "reported" /\ Free
  /\ Unlock(c, Settle([tbl EXCEPT !.unflushed = @ + 1], c, result[c]), "mark")
  /\ UNCHANGED <<scan, readerUnchanged>>

\* A report that landed is settled, and what it frees is scheduled.
WorkerSettles(c) ==
  /\ stage[c] = "reported" /\ Free
  /\ ThenSchedule(c, Settle([tbl EXCEPT !.unflushed = @ + 1], c, result[c]))
  /\ UNCHANGED readerUnchanged

\* A direct worker takes the next waiting direct call, or ends.
DirectNext(c) ==
  LET d == NextDirect(tbl) IN
  /\ stage[c] = "next" /\ Free
  /\ tbl' = IF d # NoCall THEN TakeDirect(tbl)
            ELSE [TakeDirect(tbl) EXCEPT !.directRunning = Less(@, 1)]
  /\ stage' = [t \in Threads |-> IF t = c THEN "ended"
                                  ELSE IF t = d /\ d # NoCall THEN "run"
                                  ELSE stage[t]]
  /\ UNCHANGED <<lock, batch, result, workerUnchanged>>

-----------------------------------------------------------------------------
(* The read thread: `read_loop`. *)

\* Mutant of AnswerHeld: the read thread's batch is not counted.
AnswerHeldUncounted(expired) ==
  LET answered == {c \in tbl.held : Ready(tbl, c) \/ tbl.closing \/ c \in expired}
      s == [tbl EXCEPT
              !.held = @ \ answered,
              !.others = @ \ answered,
              !.outstanding = Less(@, Cardinality(answered)),
              !.out = {Reply(c, "events") : c \in answered}]
  IN
  /\ stage[Reads] = "idle" /\ Free
  /\ answered # {} \/ stage[Closer] \in {"report", "drain"}
  /\ Unlock(Reads, s, "mark")
  /\ UNCHANGED <<scan, readerUnchanged>>

\* The held reads that have something to return, or whose wait has elapsed,
\* or all of them once the session closes. An iteration that answers none
\* counts an empty batch too. It is a step of its own only while the close
\* waits for that count, which nothing else reads.
AnswerHeld(expired) ==
  LET answered == {c \in tbl.held : Ready(tbl, c) \/ tbl.closing \/ c \in expired}
      s == [tbl EXCEPT
              !.unflushed = @ + 1, !.held = @ \ answered,
              !.others = @ \ answered,
              !.outstanding = Less(@, Cardinality(answered)),
              !.out = {Reply(c, "events") : c \in answered}]
  IN
  /\ stage[Reads] = "idle" /\ Free
  /\ answered # {} \/ stage[Closer] \in {"report", "drain"}
  /\ Unlock(Reads, s, "mark")
  /\ UNCHANGED <<scan, readerUnchanged>>

ReadsEnd ==
  /\ stage[Reads] = "idle" /\ Free /\ tbl.ended
  /\ Goto(Reads, "gone")
  /\ UNCHANGED <<tbl, lock, scan, batch, readerUnchanged>>

-----------------------------------------------------------------------------
(* The close thread: `run_close`. *)

closerUnchanged == <<scan, incoming, admitting, result, ioVars, replies>>

\* The close thread ends a section, to flush and then go on to `label`.
CloseUnlock(s, label) ==
  /\ Unlock(Closer, s, "mark")
  /\ after' = label

Least(S) == CHOOSE c \in S : \A d \in S : c <= d

\* Steps 2 and 3: settle what has not started, cancel what runs.
CloseEnters ==
  /\ stage[Closer] = "start" /\ Free
  /\ tbl' = [tbl EXCEPT !.unflushed = @ + 1, !.pending = <<>>]
  /\ lock' = Closer
  /\ Goto(Closer, "settle")
  /\ UNCHANGED <<batch, after, hostVars, closerUnchanged>>

CloseSettles ==
  /\ stage[Closer] = "settle" /\ NotStarted(tbl) # {}
  /\ LET c == Least(NotStarted(tbl)) IN
       tbl' = Settle([tbl EXCEPT !.cancelled = @ \cup {c}], c, "Cancelled")
  /\ UNCHANGED <<lock, stage, batch, after, hostVars, closerUnchanged>>

CloseCancels ==
  /\ stage[Closer] = "settle" /\ NotStarted(tbl) = {}
  /\ CloseUnlock([tbl EXCEPT !.directQueue = <<>>,
                             !.cancelled = @ \cup RunningCalls(tbl)], "wait")
  /\ UNCHANGED <<hostVars, closerUnchanged>>

\* Mutant of CloseWaited: the wait for the workers has no bound.
CloseWaitedUnbounded ==
  /\ stage[Closer] = "wait" /\ Free
  /\ RunningCalls(tbl) = {}
  /\ lock' = Closer
  /\ Goto(Closer, "detach")
  /\ UNCHANGED <<tbl, batch, after, hostVars, closerUnchanged>>

\* Step 4: the workers have ended, or the close bound has passed.
CloseWaited ==
  /\ stage[Closer] = "wait" /\ Free
  /\ lock' = Closer
  /\ Goto(Closer, "detach")
  /\ UNCHANGED <<tbl, batch, after, hostVars, closerUnchanged>>

\* Step 5: a call that still runs is revoked, recorded as detached and
\* settled.
CloseDetaches ==
  /\ stage[Closer] = "detach" /\ RunningCalls(tbl) # {}
  /\ LET c == Least(RunningCalls(tbl)) IN
     /\ tbl' = Settle([tbl EXCEPT !.revoked = @ \cup {c},
                                  !.cancelled = @ \cup {c},
                                  !.detached = @ + 1], c, "Detached")
     /\ recorded' = recorded \cup {c}
  /\ UNCHANGED <<lock, stage, batch, after, foreign, spools, closerUnchanged>>

\* Step 6: held reads return what remains.
CloseAnswersHeld ==
  /\ stage[Closer] = "detach" /\ RunningCalls(tbl) = {}
  /\ CloseUnlock([tbl EXCEPT
                    !.unflushed = @ + 1, !.held = {},
                    !.others = @ \ tbl.held,
                    !.outstanding = Less(@, Cardinality(tbl.held)),
                    !.out = @ \cup {Reply(c, "events") : c \in tbl.held}],
                 "spools")
  /\ UNCHANGED <<hostVars, closerUnchanged>>

\* Step 7.
CloseReleasesSpools ==
  /\ stage[Closer] = "spools"
  /\ spools' = FALSE
  /\ Goto(Closer, "report")
  /\ UNCHANGED <<tbl, lock, batch, after, recorded, foreign, closerUnchanged>>

\* Step 8: the report, once no batch is on its way, to every waiting
\* `session.close` if one of them started the close.
CloseReports ==
  /\ stage[Closer] = "report" /\ Free
  /\ tbl.unflushed = 0
  /\ LET told == IF replies THEN tbl.closers ELSE {} IN
       CloseUnlock([tbl EXCEPT
                     !.report = TRUE, !.closers = {}, !.unflushed = 1,
                     !.others = @ \ told,
                     !.controls = Less(@, Cardinality(told)),
                     !.out = {Reply(c, "report") : c \in told}], "drain")
  /\ UNCHANGED <<hostVars, closerUnchanged>>

\* Step 9: the channel closes once no batch is on its way, and the session
\* has ended.
CloseDrained ==
  /\ stage[Closer] = "drain" /\ Free
  /\ tbl.unflushed = 0
  /\ Goto(Closer, "shut")
  /\ UNCHANGED <<tbl, lock, batch, after, hostVars, closerUnchanged>>

CloseShuts ==
  /\ stage[Closer] = "shut"
  /\ chan' = FALSE
  /\ Goto(Closer, "end")
  /\ UNCHANGED <<tbl, lock, batch, after, hostVars, scan, incoming, admitting,
                 result, sent, dropped, replies>>

CloseEnds ==
  /\ stage[Closer] = "end" /\ Free
  /\ tbl' = [tbl EXCEPT !.ended = TRUE]
  /\ Goto(Closer, "done")
  /\ UNCHANGED <<lock, batch, after, hostVars, closerUnchanged>>

-----------------------------------------------------------------------------
(* Outside the session. *)

ClientCloses ==
  /\ ChannelMayEnd /\ chan
  /\ chan' = FALSE
  /\ UNCHANGED <<tbl, lock, scan, stage, batch, incoming, admitting, result,
                 sent, dropped, hostVars, closeVars>>

\* Another session of the host detaches a worker on a workspace, or the last
\* such worker ends.
ForeignWorker(w) ==
  /\ foreign' = IF w \in foreign THEN foreign \ {w} ELSE foreign \cup {w}
  /\ UNCHANGED <<tbl, lock, scan, stage, batch, incoming, admitting, result,
                 ioVars, recorded, spools, closeVars>>

-----------------------------------------------------------------------------

FlushStep(t) ==
  \/ FlushMark(t)
  \/ \E r \in batch[t] : FlushSend(t, r)
  \/ FlushDone(t)

ScheduleStep(t) ==
  \/ ScheduleSkip(t)
  \/ ScheduleBusy(t)
  \/ ScheduleClear(t)
  \/ ScheduleBlocked(t)
  \/ \E spawned \in BOOLEAN : ScheduleStart(t, spawned)
  \/ \E spawned \in BOOLEAN : ScheduleDirect(t, spawned)
  \/ ScheduleDone(t)

ReaderStep ==
  \/ CountBatch
  \/ ReceiveStale \/ ReceiveEnded \/ ReceiveRefused \/ ReceiveCall
  \/ ReceiveRead \/ ReceiveView \/ ReceiveRelease \/ ReceiveCancel
  \/ ReceiveSpool \/ SpoolAnswered \/ ReceiveClose
  \/ ChannelClosed
  \/ \E spawned \in BOOLEAN : CloseBegins(spawned)
  \/ InlineReturns

AdmissionStep ==
  \/ AdmissionPop
  \/ \E ok \in BOOLEAN : Admit(ok)
  \/ AdmissionEnds

WorkerStep(c) ==
  \/ WorkerSettles(c)
  \/ DirectNext(c)

ReadsStep ==
  \/ \E expired \in SUBSET tbl.held : AnswerHeld(expired)
  \/ ReadsEnd

CloserStep ==
  \/ CloseEnters \/ CloseSettles \/ CloseCancels
  \/ CloseWaited
  \/ CloseDetaches \/ CloseAnswersHeld
  \/ CloseReleasesSpools
  \/ CloseReports
  \/ CloseDrained \/ CloseShuts \/ CloseEnds

Returns == {"Completed", "Cancelled", "Failed"}

Next ==
  \/ \E q \in Requests : ReadFrame(q)
  \/ ReaderStep
  \/ AdmissionStep
  \/ ReadsStep
  \/ CloserStep
  \/ \E c \in Calls : \/ WorkerEvent(c)
                      \/ \E o \in Returns : WorkerReports(c, o)
                      \/ WorkerStep(c)
  \/ \E t \in Threads : FlushStep(t) \/ ScheduleStep(t)
  \/ \E t \in Threads : \E r \in batch[t] : FlushFull(t, r)
  \/ ClientCloses
  \/ \E w \in Shared : ForeignWorker(w)

Spec == Init /\ [][Next]_vars
\* Every thread of the session keeps running: sections are short, sends do
\* not block, the waits of the read thread and of close's step 4 elapse. A
\* close thread that waits for the batches is woken by each flush, and gets
\* the lock though the read thread's idle iterations go on: between two of
\* them it sleeps up to a second. A handler may run for ever, the client may
\* stop sending, and the world outside is free.
Fairness ==
  /\ WF_vars(ReaderStep) /\ WF_vars(AdmissionStep) /\ WF_vars(CloserStep)
  /\ WF_vars(ReadsStep)
  /\ SF_vars(CloseReports) /\ SF_vars(CloseDrained)
  /\ \A c \in Calls : WF_vars(WorkerStep(c))
  /\ \A t \in Threads : WF_vars(FlushStep(t)) /\ WF_vars(ScheduleStep(t))

FairSpec == Spec /\ Fairness

\* Every handler returns, which the host cannot bring about.
HandlersReturn ==
  \A c \in Calls : WF_vars(\E o \in Returns : WorkerReports(c, o))

-----------------------------------------------------------------------------
(* Properties. *)

\* The table's records, counters and queues have their types.
TypeOK ==
  /\ tbl.high \in 0 .. MaxCall
  /\ tbl.req \in [Calls -> Requests]
  /\ \A c \in Calls :
       /\ tbl.rec[c].phase \in Phases
       /\ tbl.rec[c].outcome \in Outcomes
       /\ tbl.rec[c].waiters \subseteq Calls
       /\ tbl.rec[c].views \subseteq Views
  /\ {tbl.outstanding, tbl.controls, tbl.running, tbl.directRunning,
      tbl.tableEntries, tbl.unflushed, tbl.detached} \subseteq Nat
  /\ \A q \in {tbl.pending, tbl.queue, tbl.directQueue, tbl.retained} :
       q \in Seq(Calls)
  /\ tbl.requests \in [RequestIds -> Calls \cup {NoCall}]
  /\ tbl.others \cup tbl.held \cup tbl.closers \subseteq Calls
  /\ lock \in Threads \cup {NoThread}
  /\ stage[Reader] \in ReaderStages
  /\ stage[Admission] \in AdmissionStages
  /\ stage[Reads] \in ReadStages
  /\ stage[Closer] \in CloserStages
  /\ \A c \in Calls : stage[c] \in WorkerStages
  /\ recorded \subseteq Calls /\ foreign \subseteq Workspaces

Executing(c) == stage[c] = "run"

Conflict(p, q) ==
  /\ IsOperation(p) /\ IsOperation(q) /\ p.ws = q.ws
  /\ "Write" \in {p.class, q.class} \/ {p.class, q.class} = {"Push"}

\* No two handlers run at once whose classes exclude each other on their
\* workspace: a write runs beside no operation and a push beside no push,
\* whatever the spawns, cancellations and the close do, detached handlers
\* included (Busy::admits, `schedule`, `settle`).
ClassExclusion ==
  \A c, d \in Calls :
    c # d /\ Executing(c) /\ Executing(d) => ~Conflict(tbl.req[c], tbl.req[d])

AllReplies == sent \cup dropped \cup tbl.out \cup UNION {batch[t] : t \in Threads}

\* The call still has its reply to come.
Unanswered(c) ==
  \/ Live(tbl, c) /\ ~tbl.rec[c].accepted
  \/ c \in tbl.others
  \/ stage[Reader] = "spool" /\ c = tbl.high

Count(S) == Cardinality(S)

\* Every call the session took gets one reply and no second one: it is owed
\* one, or exactly one is being built, on its way, sent or refused by the
\* closed channel (`answered_on`, `settle`, `flush`).
OneReply ==
  \A c \in 1 .. tbl.high :
    LET n == Count({t \in Threads : \E r \in batch[t] : r.to = c})
             + Count({r \in tbl.out : r.to = c})
             + Count({r \in sent \cup dropped : r.to = c})
             + (IF Unanswered(c) THEN 1 ELSE 0)
    IN  n <= 1 /\ (~tbl.ended => n = 1)

InSeq(c, q) == \E i \in 1 .. Len(q) : q[i] = c

\* Nothing that waits is forgotten: outside the sections of the table lock, a
\* live record is with the thread or queue that will move it on, and a call
\* waiting for an answer is where its answer will come from.
NothingForgotten ==
  Free =>
  \A c \in Calls :
    /\ Phase(tbl, c) = "Received" =>
         \/ InSeq(c, tbl.pending)
         \/ stage[Admission] = "resolve" /\ admitting.call = c
    /\ Phase(tbl, c) = "Queued" => InSeq(c, tbl.queue)
    /\ Phase(tbl, c) = "DirectWaiting" => InSeq(c, tbl.directQueue)
    /\ Phase(tbl, c) = "Running" => stage[c] \in {"run", "reported"}
    /\ c \in tbl.others =>
         \/ c \in tbl.held \cup tbl.closers
         \/ \E d \in Calls : Live(tbl, d) /\ c \in tbl.rec[d].waiters

OnLane(control) ==
  {c \in 1 .. tbl.high : Unanswered(c) /\ (Control(tbl.req[c]) <=> control)}
RunningOps == {c \in RunningCalls(tbl) : IsOperation(tbl.req[c])}
DirectThreads ==
  {c \in Calls : tbl.req[c].type = "Direct" /\ stage[c] \notin {"none", "ended"}}

\* The counters the limits are checked against say what they count, so that
\* no saturating subtraction ever hides a miscount. A close leaves settled
\* calls in the queue, and `schedule` may then count one that never runs:
\* from there on the running counts are upper bounds.
CountersExact ==
  /\ tbl.outstanding = Count(OnLane(FALSE))
  /\ tbl.controls = Count(OnLane(TRUE))
  /\ tbl.tableEntries = Count({c \in Calls : tbl.rec[c].inTable})
  /\ tbl.directRunning = Count(DirectThreads)
  /\ tbl.running >= Count(RunningOps)
  /\ ~tbl.closing => tbl.running = Count(RunningOps)
  /\ \A w \in Workspaces, k \in Classes :
       LET ops == {c \in RunningOps : tbl.req[c].ws = w /\ tbl.req[c].class = k}
       IN  /\ tbl.busy[w][k] >= Count(ops)
           /\ ~tbl.closing => tbl.busy[w][k] = Count(ops)

\* The request IDs held are those of the live admitted operations, one each
\* (`is_live`, `admit`, `settle`).
RequestIdsLive ==
  \A i \in RequestIds :
    {c \in Calls : /\ IsOperation(tbl.req[c]) /\ tbl.req[c].rid = i
                   /\ Phase(tbl, c) \in {"Queued", "Running"}}
      = IF tbl.requests[i] = NoCall THEN {} ELSE {tbl.requests[i]}

\* No start is missed: outside the sections of the table lock, an operation
\* that waits does so because the running limit is reached, its class is
\* excluded on its workspace, or an earlier one waits there; and a direct call
\* waits only while every direct worker is busy.
NoMissedStart ==
  Free /\ ~tbl.closing =>
    /\ tbl.directQueue # <<>> => tbl.directRunning = DirectLimit
    /\ tbl.running < RunningLimit =>
         \A i \in 1 .. Len(tbl.queue) :
           LET q == tbl.req[tbl.queue[i]] IN
           \/ ~Admits(tbl.busy[q.ws], q.class)
           \/ \E j \in 1 .. i - 1 : tbl.req[tbl.queue[j]].ws = q.ws

Starts(c) == stage[c] # "run" /\ stage'[c] = "run"

\* Operations of one workspace start in the order they were queued.
QueueOrder ==
  [][\A c, d \in Calls :
       /\ Starts(c) /\ IsOperation(tbl.req[c])
       /\ d < c /\ Phase(tbl, d) = "Queued"
       => tbl.req[d].ws # tbl.req[c].ws]_vars

\* No handler starts once close has settled what had not started, although
\* admission, finishing workers and direct workers still schedule.
NoStartAfterClose ==
  [][stage[Closer] \notin {"none", "start", "settle"} =>
       \A c \in Calls : ~Starts(c)]_vars

\* A settled record's outcome never changes: a report that passed the gate just
\* before the close bound revoked it, and settles after the record was settled
\* as detached, changes nothing the views tell (`settle`, `run`, `run_close`).
OutcomeFinal ==
  [][\A c \in Calls :
       Phase(tbl, c) = "Terminal" /\ Phase(tbl', c) # "None" =>
         tbl'.rec[c].outcome = tbl.rec[c].outcome]_vars

\* Both: what the close settled stays as it is.
CloseIsFinal == NoStartAfterClose /\ OutcomeFinal

\* The replies of batches whose views are marked, and those already sent.
HandedOver ==
  sent \cup dropped
    \cup UNION {batch[t] : t \in {u \in Threads : stage[u] = "send"}}

\* An accepted operation's record goes only when the client released it or
\* every view its method declares was handed over (`evict`, `flush`).
EvictedOnlyDelivered ==
  \A c \in Calls :
    Reply(c, "accepted") \in AllReplies /\ Phase(tbl, c) = "None" =>
      \/ \E r \in AllReplies :
           r.what = "released" /\ tbl.req[r.to].target = c
      \/ \A v \in IF tbl.req[c].view THEN Views ELSE {"Result"} :
           \E r \in HandedOver : r.owner = c /\ r.view = v

\* A close report comes after the reply to every earlier call.
CloseReportLast ==
  \A r \in sent : r.what = "report" =>
    \A c \in 1 .. r.to - 1 :
      tbl.req[c].type = "Close" \/ \E p \in sent \cup dropped : p.to = c

\* Once the session has ended nothing of it is live: every record is settled,
\* no read is held, and a handler that still runs is revoked and in the host's
\* detached record.
EndedIsSettled ==
  tbl.ended =>
    /\ \A c \in Calls : ~Live(tbl, c)
    /\ tbl.held = {}
    /\ \A c \in Calls : Executing(c) => c \in recorded \cap tbl.revoked

\* The limits hold for what they limit.
LimitsHold ==
  /\ Count(RunningOps) <= RunningLimit
  /\ Count(DirectThreads) <= DirectLimit
  /\ Count({c \in Calls : tbl.rec[c].inTable}) <= TableLimit
  /\ Len(tbl.queue) <= QueueLimit

\* The four together: what the table says is what is.
TableExact == CountersExact /\ RequestIdsLive /\ EndedIsSettled /\ LimitsHold

\* A close that has begun ends the session, whatever the handlers do.
CloseCompletes == tbl.closeStarted ~> tbl.ended

\* If handlers return, every call taken is answered, if only by the channel's
\* refusal, also the calls that wait on another one.
EveryCallAnswered ==
  HandlersReturn =>
    \A c \in Calls :
      tbl.high >= c /\ ~tbl.ended ~> \E r \in sent \cup dropped : r.to = c

\* What is said of how a call ended, in its own reply or in a view of its
\* result.
TellsEnd(r, c) == r.owner = c \/ (r.to = c /\ r.what # "accepted")

\* A handler starts once for a call, only while the call is unsettled and
\* before anyone is told how it ended, although a cancellation, a refusal or the
\* close may settle it while admission resolves it, while it is queued (where a
\* kept result's entry may stay), or just before its worker starts (`admit`,
\* `schedule`, `take`, `cancel`, `run_close`).
RunsOnceUntold ==
  [][\A c \in Calls : Starts(c) =>
       /\ stage[c] = "none" /\ Live(tbl, c)
       /\ \A r \in AllReplies : ~TellsEnd(r, c)]_vars
=============================================================================
