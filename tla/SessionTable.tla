---------------------------- MODULE SessionTable ----------------------------
(***************************************************************************)
(* The session's table, the state behind the session host's table lock,    *)
(* and what the host does to it in one hold of the lock                    *)
(* (crates/session-host/src/service/table/).                               *)
(*                                                                         *)
(* A table is a record `s`; each operator below takes a table and gives    *)
(* the table after the Rust function of its name, with the replies that    *)
(* function returns added to s.out. SessionService runs them on threads.   *)
(*                                                                         *)
(* An operation's ID is written as the call that created it: `operations`  *)
(* maps one to the other from `create` to `discard`, so it is the set of   *)
(* operation records. Bodies, texts and cleanup facts are left out.        *)
(***************************************************************************)
EXTENDS Integers, Sequences, FiniteSets

CONSTANTS MaxCall,          \* bound: calls the client makes
          Workspaces,       \* workspace keys
          RequestIds,       \* RequestMeta.request_id values
          RunningLimit, QueueLimit, TableLimit, OutstandingLimit,
          ControlLimit, DirectLimit,      \* limits.rs, Limits
          MaxEvents         \* bound: events one operation appends

ASSUME LimitsAssumption ==
  /\ MaxCall \in Nat
  /\ RunningLimit \in Nat \ {0} /\ QueueLimit \in Nat \ {0}
  /\ TableLimit \in Nat \ {0} /\ OutstandingLimit \in Nat \ {0}
  /\ ControlLimit \in Nat \ {0} /\ DirectLimit \in Nat \ {0}
  /\ MaxEvents \in Nat
  /\ TableLimit >= RunningLimit + QueueLimit      \* validate_limits

Calls == 1 .. MaxCall
NoCall == 0
Classes == {"Fetch", "Push", "Write"}
Views == {"Result", "Response"}
Phases == {"None", "Received", "Queued", "DirectWaiting", "Running", "Terminal"}
Outcomes == {"None", "Completed", "Cancelled", "Failed", "Detached"}

\* What a call asks (`Request`, with the call's mode and what resolution
\* finds). Every kind has every field, the ones it does not use at a default.
RequestTypes == {"Direct", "Operation", "Read", "EndStream", "Spool", "Result",
                 "Response", "Cancel", "CancelOp", "Release", "Close",
                 "Malformed", "Stale"}
Request == [type : RequestTypes, class : Classes, submit : BOOLEAN,
            view : BOOLEAN, ws : Workspaces, rid : RequestIds,
            target : Calls \cup {NoCall}, cursor : 0 .. MaxEvents,
            hold : BOOLEAN]

\* Control calls, and only they, travel on the control lane (HostPorts::lane).
Control(q) == q.type \in {"Cancel", "CancelOp", "Close"}
IsOperation(q) == q.type = "Operation"

-----------------------------------------------------------------------------
(* The state. *)

\* A record not in the table: never created, or discarded.
NoRecord ==
  [phase |-> "None", resolved |-> FALSE, gate |-> FALSE, accepted |-> FALSE,
   inTable |-> FALSE, waiters |-> {}, outcome |-> "None", views |-> {}]

EmptyBusy == [w \in Workspaces |-> [k \in Classes |-> 0]]

\* `ask` gives the request of each received call.
EmptyTable(ask) ==
  [high |-> 0, req |-> [c \in Calls |-> ask], rec |-> [c \in Calls |-> NoRecord],
   closing |-> FALSE, closeStarted |-> FALSE, ended |-> FALSE,
   outstanding |-> 0, controls |-> 0, running |-> 0, directRunning |-> 0,
   tableEntries |-> 0, unflushed |-> 0, detached |-> 0,
   busy |-> EmptyBusy, requests |-> [r \in RequestIds |-> NoCall],
   others |-> {}, held |-> {}, closers |-> {}, report |-> FALSE,
   pending |-> <<>>, queue |-> <<>>, directQueue |-> <<>>, retained |-> <<>>,
   cancelled |-> {}, revoked |-> {}, complete |-> {},
   log |-> [c \in Calls |-> 0], out |-> {}]

Phase(s, c) == s.rec[c].phase
Live(s, c) == Phase(s, c) \notin {"None", "Terminal"}
RunningCalls(s) == {c \in Calls : Phase(s, c) = "Running"}
NotStarted(s) ==
  {c \in Calls : Phase(s, c) \in {"Received", "Queued", "DirectWaiting"}}

\* The call that created operation `op`'s record is still there.
Known(s, op) == op \in Calls /\ Phase(s, op) # "None" /\ IsOperation(s.req[op])

\* usize::saturating_sub.
Less(n, m) == IF n >= m THEN n - m ELSE 0

Reply(c, what) == [to |-> c, what |-> what, owner |-> NoCall, view |-> "Result"]
ViewReply(c, owner, view, outcome) ==
  [to |-> c, what |-> outcome, owner |-> owner, view |-> view]

\* A sequence without its element at an index, or without a value.
Drop(q, i) == SubSeq(q, 1, i - 1) \o SubSeq(q, i + 1, Len(q))
Without(q, c) ==
  IF \E i \in 1 .. Len(q) : q[i] = c
  THEN Drop(q, CHOOSE i \in 1 .. Len(q) : q[i] = c) ELSE q

\* `answered_on`: the call no longer counts against its lane.
AnsweredOn(s, c) ==
  [s EXCEPT !.others = @ \ {c},
            !.outstanding = IF Control(s.req[c]) THEN @ ELSE Less(@, 1),
            !.controls = IF Control(s.req[c]) THEN Less(@, 1) ELSE @]

\* `answered_on` and the reply the caller returns.
Answer(s, c, what) == [AnsweredOn(s, c) EXCEPT !.out = @ \cup {Reply(c, what)}]

\* Removes a record and what indexes it.
Discard(s, c) ==
  [s EXCEPT !.rec[c] = NoRecord,
            !.tableEntries = IF s.rec[c].inTable THEN Less(@, 1) ELSE @,
            !.retained = Without(@, c)]

\* Mutant of Delivered: the response its method declares is not waited for.
DeliveredResult(s, c) == "Result" \in s.rec[c].views

\* A record is delivered once every view its method declares was handed over.
Delivered(s, c) ==
  /\ "Result" \in s.rec[c].views
  /\ s.req[c].view => "Response" \in s.rec[c].views

Evictable(s) == {i \in 1 .. Len(s.retained) : Delivered(s, s.retained[i])}

\* `evict`, of the oldest delivered terminal record.
Evict(s) ==
  Discard(s, s.retained[CHOOSE i \in Evictable(s) :
                          \A j \in Evictable(s) : i <= j])

\* `mark_delivered`, of the views a batch of replies delivers.
MarkDelivered(s, batch) ==
  [s EXCEPT !.rec = [c \in Calls |->
     IF Phase(s, c) = "None" THEN s.rec[c]
     ELSE [s.rec[c] EXCEPT
             !.views = @ \cup {r.view : r \in {q \in batch : q.owner = c}}]]]

-----------------------------------------------------------------------------
(* Settling. *)

ChangeBusy(s, c, d) ==
  [s EXCEPT !.running = IF d = 1 THEN @ + 1 ELSE Less(@, 1),
            !.busy[s.req[c].ws][s.req[c].class] =
               IF d = 1 THEN @ + 1 ELSE Less(@, 1)]

\* What a waiter is told once the record it waits on is terminal.
WaiterReply(s, w, c, outcome) ==
  CASE Control(s.req[w])            -> Reply(w, "cleanup")
    [] s.req[w].type = "Result"     -> ViewReply(w, c, "Result", outcome)
    [] s.req[w].type = "Response"   -> ViewReply(w, c, "Response", outcome)

\* Mutant of Settled: only a record that is gone counts as settled.
SettledGone(s, c) == Phase(s, c) = "None"

\* Nothing is left to settle.
Settled(s, c) == Phase(s, c) \in {"None", "Terminal"}

\* Mutant of TerminalRecord: the record keeps its gate.
TerminalRecordGated(r, outcome) ==
  [r EXCEPT !.phase = "Terminal", !.waiters = {}, !.outcome = outcome]

\* The record once it is settled: it has no gate left to start with.
TerminalRecord(r, outcome) ==
  [r EXCEPT !.phase = "Terminal", !.gate = FALSE, !.waiters = {},
            !.outcome = outcome]

\* The request IDs held once `c` is settled.
FreeIds(s, c) ==
  [i \in RequestIds |->
     IF s.rec[c].resolved /\ i = s.req[c].rid /\ s.requests[i] = c
     THEN NoCall ELSE s.requests[i]]

\* Mutant of Keeps: a submit is kept although it was never accepted.
KeepsSubmits(s, c) == IsOperation(s.req[c]) /\ s.req[c].submit

\* An accepted submit's record stays, to be asked for its views.
Keeps(s, c) ==
  IsOperation(s.req[c]) /\ s.req[c].submit /\ s.rec[c].accepted

\* `settle`: the record is terminal, its waiters are answered, its request ID
\* and its place in the classes are free, and unless it is kept its own call
\* is answered and the record goes. Settling twice changes nothing.
Settle(s, c, outcome) ==
  LET r == s.rec[c]
      cancels == {w \in r.waiters : Control(s.req[w])}
      settled ==
        [s EXCEPT
           !.rec[c] = TerminalRecord(r, outcome),
           !.complete = @ \cup {c},
           !.out = @ \cup {WaiterReply(s, w, c, outcome) : w \in r.waiters},
           !.others = @ \ r.waiters,
           !.controls = Less(@, Cardinality(cancels)),
           !.outstanding = Less(@, Cardinality(r.waiters \ cancels)),
           !.requests = FreeIds(s, c)]
      freed == IF r.phase = "Running" /\ IsOperation(s.req[c])
               THEN ChangeBusy(settled, c, -1) ELSE settled
  IN  IF Settled(s, c) THEN s
      ELSE IF Keeps(s, c) THEN [freed EXCEPT !.retained = Append(@, c)]
      ELSE Discard(Answer(freed, c, outcome), c)

-----------------------------------------------------------------------------
(* Receiving a call, on the reading thread. *)

\* The call's lane is at its limit.
Full(s, q) ==
  IF Control(q) THEN s.controls >= ControlLimit
  ELSE s.outstanding >= OutstandingLimit

\* The call is counted on its lane.
Counted(s, q) ==
  [s EXCEPT !.outstanding = IF Control(q) THEN @ ELSE @ + 1,
            !.controls = IF Control(q) THEN @ + 1 ELSE @]

\* `create`, of a direct or operation call's record at receipt.
Create(s, c) ==
  [s EXCEPT !.rec[c] = [NoRecord EXCEPT !.phase = "Received", !.gate = TRUE],
            !.pending = Append(@, c)]

\* What an events read finds: records after its cursor, or a complete log.
Ready(s, c) ==
  \/ s.log[s.req[c].target] > s.req[c].cursor
  \/ s.req[c].target \in s.complete

\* `read_events`: an answer at once, or a held read.
ReadEvents(s, c) ==
  LET q == s.req[c] IN
  IF ~Known(s, q.target) THEN Answer(s, c, "refused")
  ELSE IF q.type = "EndStream" \/ Ready(s, c) \/ ~q.hold
  THEN Answer(s, c, "events")
  ELSE [s EXCEPT !.others = @ \cup {c}, !.held = @ \cup {c}]

\* Mutant of View: the call waits although its operation is terminal.
ViewWaits(s, c) ==
  IF ~Known(s, s.req[c].target) THEN Answer(s, c, "refused")
  ELSE [s EXCEPT !.rec[s.req[c].target].waiters = @ \cup {c},
                 !.others = @ \cup {c}]

\* `view`: `operation.result` and `operation.response`.
View(s, c) ==
  LET q == s.req[c]
      o == q.target
  IN  IF ~Known(s, o) THEN Answer(s, c, "refused")
      ELSE IF s.rec[o].outcome # "None"
      THEN [AnsweredOn(s, c) EXCEPT
              !.out = @ \cup {ViewReply(c, o, q.type, s.rec[o].outcome)}]
      ELSE [s EXCEPT !.rec[o].waiters = @ \cup {c}, !.others = @ \cup {c}]

\* `release`: only of a terminal record.
Release(s, c) ==
  LET o == s.req[c].target IN
  IF ~Known(s, o) \/ Live(s, o) THEN Answer(s, c, "refused")
  ELSE Discard(Answer(s, c, "released"), o)

\* `operation.cancel` finds a record, by its call or by its operation.
CancelFinds(s, c) ==
  LET q == s.req[c] IN
  IF q.type = "CancelOp" THEN Known(s, q.target)
  ELSE /\ q.target \in Calls
       /\ q.target < c
       /\ q.target \notin s.others
       /\ Phase(s, q.target) # "None"

\* A record whose cancellation settles it at once, before it runs.
Waiting(s, c) == Phase(s, c) \in {"Queued", "DirectWaiting"}

\* `cancel`. The caller schedules after it settled a waiting record.
Cancel(s, c) ==
  LET o == s.req[c].target
      waits == [s EXCEPT !.rec[o].waiters = @ \cup {c},
                         !.others = @ \cup {c},
                         !.cancelled = @ \cup {o}]
  IN  IF ~CancelFinds(s, c) THEN Answer(s, c, "refused")
      ELSE IF Phase(s, o) = "Terminal" THEN Answer(s, c, "cleanup")
      ELSE IF Waiting(s, o)
      THEN Settle([waits EXCEPT !.queue = Without(@, o),
                                !.directQueue = Without(@, o)], o, "Cancelled")
      ELSE waits

-----------------------------------------------------------------------------
(* Admission and the schedule. *)

\* Writes and pushes do not run beside a worker detached on their workspace.
Exclusive(q) == q.class \in {"Write", "Push"}

\* Why `admit` refuses an operation; `busy` says whether a detached worker
\* still runs on its workspace.
AdmitRefuses(s, c, busy) ==
  \/ s.requests[s.req[c].rid] # NoCall
  \/ Exclusive(s.req[c]) /\ busy
  \/ Len(s.queue) >= QueueLimit
  \/ s.tableEntries >= TableLimit /\ Evictable(s) = {}

\* `admit`, of a direct call.
AdmitDirect(s, c) ==
  [s EXCEPT !.rec[c] = [@ EXCEPT !.resolved = TRUE, !.phase = "DirectWaiting"],
            !.directQueue = Append(@, c)]

\* `admit`, of an operation no limit refuses: a full table makes room first.
AdmitOperation(s, c) ==
  LET roomy == IF s.tableEntries >= TableLimit THEN Evict(s) ELSE s
      submit == s.req[c].submit
      queued ==
        [roomy EXCEPT
           !.tableEntries = @ + 1,
           !.requests[s.req[c].rid] = c,
           !.rec[c] = [@ EXCEPT !.inTable = TRUE, !.resolved = TRUE,
                                !.phase = "Queued", !.accepted = submit],
           !.queue = Append(@, c)]
  IN  IF submit THEN Answer(queued, c, "accepted") ELSE queued

\* Mutant of Admits: a push checks only for other pushes.
AdmitsLoosely(b, class) ==
  CASE class = "Fetch" -> b["Write"] = 0
    [] class = "Push"  -> b["Push"] = 0
    [] class = "Write" -> b["Write"] = 0 /\ b["Push"] = 0 /\ b["Fetch"] = 0

\* `Busy::admits`.
Admits(b, class) ==
  CASE class = "Fetch" -> b["Write"] = 0
    [] class = "Push"  -> b["Write"] = 0 /\ b["Push"] = 0
    [] class = "Write" -> b["Write"] = 0 /\ b["Push"] = 0 /\ b["Fetch"] = 0

\* `take`: the record's gate goes to its worker.
CanTake(s, c) == s.rec[c].gate /\ s.rec[c].resolved
Take(s, c) ==
  IF CanTake(s, c)
  THEN [s EXCEPT !.rec[c] = [@ EXCEPT !.gate = FALSE, !.phase = "Running"]]
  ELSE s

\* The waiting direct calls `next_direct` can take, and the first of them.
Takeable(s) == {i \in 1 .. Len(s.directQueue) : CanTake(s, s.directQueue[i])}
NextDirect(s) ==
  IF Takeable(s) = {} THEN NoCall
  ELSE s.directQueue[CHOOSE i \in Takeable(s) : \A j \in Takeable(s) : i <= j]

\* `next_direct`: pops up to the first call it can take, and takes it.
TakeDirect(s) ==
  IF Takeable(s) = {} THEN [s EXCEPT !.directQueue = <<>>]
  ELSE LET i == CHOOSE i \in Takeable(s) : \A j \in Takeable(s) : i <= j
       IN  [Take(s, s.directQueue[i]) EXCEPT
              !.directQueue = SubSeq(@, i + 1, Len(@))]
=============================================================================
