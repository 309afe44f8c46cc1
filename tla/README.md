# Verification of gwz-core

gwz-core runs Git operations over workspaces of several repositories. A driver
(the command line, a language binding, a server) opens a *session* on a host
context, sends calls over a *channel*, and gets replies, event logs and results
back. This project models the two places where the program is hard to test:

- where threads meet: the session host, which schedules calls, cancels and
  detaches their workers and closes the session; the channels its frames travel
  by; the supervisor, member locks and connection reservations of the host;
- where a process may die: the durable record of a coordinated merge, and the
  metadata of a local family of clones.

The models are TLA+ modules translated from the Rust sources; TLC checks them
on small instances, and TLAPS proves most safety properties of all of them
but the local family's for every instance. Names in the modules are the source's names where TLA+ allows them.
Paths below are relative to the repository.

`PROJECT.json` is the machine-readable index: components, runs, mutants, the map
from definitions to source lines, findings, hazards, theorems.

## 1. Inventory

### The session host (`crates/session-host`)

| Part | State | Operations | Meets others through |
| --- | --- | --- | --- |
| Operation gate and token (`gate.rs`, `token.rs`) | `cancelled`, pending callbacks, `revoked`, the crossing lock, the crosser record, a weak reference to the session | `effect`, `append`, `report` (all `cross`), `cancel`, `revoke`, `on_cancel` and its drop, `GateView::state` | the worker crosses; the reading and the close thread cancel and revoke |
| Session table (`service/table*`) | records of calls, lanes and counters, pending/queue/direct queue, retained records, request IDs, held reads, waiting closes, batches on their way | receipt, admission, schedule, settling, views and release, cancellation, eviction | one mutex; every thread of the session |
| Threads and close (`service.rs`, `service/workers.rs`) | the stage of each thread, its reply batch, the close's progress | receive, flush, start a worker, report, next direct call, the nine steps of a close | table lock, gates, channel, detached record |
| Event log (`service/events.rs`) | a ring of records, `next_seq`, `complete`, the read signal, held reads | push, complete, notify, read, hold, wake | the worker appends; reading and read threads read |
| Detached workers (`detached.rs`) | the workers that outlived their session | record, `running_on` | close records; admission and schedule of every session ask |
| Supervisor (`supervisor.rs`) | jobs, jobs being polled, quarantine, closed/released | supervise, shutdown, drop, the poll thread | host context |
| Limits (`limits.rs`) | none | validation | constants of the table |

What makes them correct: a revoked worker touches the session no more; the
classes of operations exclude each other on a workspace; every call gets exactly
one reply; nothing that waits is forgotten; the counters the limits rest on are
exact; a close ends, tells last, and leaves nothing live; a subscriber never
misses an event silently.

What is hard: flags read one by one under different locks, loops that give up
and retake the table lock, workers that return after they were detached, a
close that meets calls at every stage, a thread that cannot be created, a
channel that ends at any time, wake-ups.

### The channel (`crates/session-contract`, `crates/session-channel`)

| Part | State | Operations |
| --- | --- | --- |
| Byte-stream end (`byte_stream.rs`) | turns, the writer and its lock, `write_failed`, `ended`, the delivery fence | `send`, `close`, the reader thread |
| Write queue (`write_queue.rs`) | the frames that wait | push, peek, pop by the control rule |
| In-process end (`in_process.rs`) | two inboxes, the ending, who stopped | `send`, `recv`, `close` |
| Contract (`session-contract`) | none | frames, tags, lanes, traits |

Correct means: frames leave whole, in the order the protocol depends on; nothing
follows a torn frame; the router is told of the end once, after the last frame;
the writer of an ended session is dropped; nobody waits for ever. Hard is that
any thread may end the session at any point, and that a write may fail in three
ways, a panic among them.

### The host's shared parts (`src/operation`, `src/git/endpoint`)

| Part | State | Operations |
| --- | --- | --- |
| Member locks (`memberlockmanager.rs`) | the members held, waiters, callbacks on their tokens | `lock`, the guard's drop, a cancellation's wake |
| Reservations and pools (`shared_reservation.rs`, `ssh_pool.rs`) | reservations taken per host, live requests and the ceilings they make, waiting connections, wakes | begin, poll, dispose, admit and end of a request, a pool's turn |

Correct means: two sessions of one host never update one member's refs at once,
however they spell the workspace; a waiter or connection is never left asleep
beside what it waits for; a cancelled wait ends. Hard are the look before a
sleep, a wake delivered outside a lock, and ceilings that move.

### The merge lifecycle (`src/workspace_ops/merge`)

State: the durable record (state, a row per member with its pending action, the
publication's step, the rollback's cursor), the members' repositories, the
workspace root's branch, files and index, and the command under way, which dies
with its process. Operations: resume, continue, abort, each a loop of observe,
then commit a record or execute one physical step. Correct means: the record
accounts for what is in the repositories whenever the process dies; the merge is
all or nothing; a user's work is not discarded; a command ends; a recovery can be
left. Hard are the gap between a step and its record, steps that fail with or
without effect, and a user who changes repositories meanwhile.

### The local family (`src/local_clone`, `crates/family-*`, `crates/local-disposal`, `crates/workspace-install`)

State: an index of rows at the root, a pointer and an allocation marker in each
lane, the tree of each lane, the advisory lock beside the index. Operations:
create, dispose with or without `--keep`, disband, by several processes. Correct
means: in whatever state a killed process leaves the files, no pointer is
stranded, a `ready` row with its marker means a whole workspace, and no source
disappears under a copy. Hard are five kinds of file that change one by one, and
what is read before the wait for the lock.

### The rest

Transport host and carriers (`src/transport_host`), setup retry, the Git backend
(`src/git`), the workspace lock and the commit log (`src/operation`), the other
commands (`src/workspace_ops`), checked artifacts (`src/checked_artifact`),
import, inspection and copy crates, and helpers (diff, status, settings, protocol
conversion). `PROJECT.json` lists each with what is planned for it or why it
stays out.

## 2. Modules

| Module | Models | Composes |
| --- | --- | --- |
| `GateContract` | what a gate promises (abstract specification) | |
| `OperationGate` | `gate.rs`, `token.rs`, `Worker.gate`, at the grain of single loads, stores and locks | refines `GateContract` |
| `OperationGateProofs` | theorems about it | |
| `SessionTable` | the operations on the table, as operators from table to table | |
| `SessionService` | the session's threads over the table, the host's detached record, the channel | `SessionTable`; gates act at once, which `OperationGate`'s refinement of `GateContract` justifies |
| `SessionServiceProofs` | theorems about `SessionTable` and `SessionService` | |
| `SessionReplyProofs` | theorems about what a session answers, counts and evicts | |
| `EventLog`, `EventLogProofs` | one operation's log, its subscriber, the read thread's wake-up | |
| `WriteQueue` | the order of frames that wait for the writer | |
| `ByteStream`, `ByteStreamProofs` | one end of a byte-stream channel | `WriteQueue` |
| `Supervisor` | `supervisor.rs`: jobs, the polling thread, shutdown, drop | |
| `MemberLocks` | `memberlockmanager.rs` with the token's callbacks | |
| `ChannelContract` | what `FrameSink` and `FrameSource` promise (abstract specification) | |
| `InProcessChannel` | `in_process.rs`: inboxes, lanes, waits, the ending | refines `ChannelContract` |
| `InProcessChannelProofs` | theorems about it, the refinement among them | |
| `Reservations` | `shared_reservation.rs` and the turns of the pools' drivers | |
| `HostWaitProofs` | theorems about `MemberLocks`, `Supervisor` and `Reservations` | |
| `MergeContract` | what a coordinated merge promises an observer of the repositories (abstract specification) | |
| `MergeLifecycle` | record, repositories and command of a started merge | refines `MergeContract` |
| `MergeLifecycleProofs` | theorems about it, the refinement among them | |
| `LocalFamily` | create, keep, delete and disband of local clones | |
| `MCHostParts` | supervisor, member locks, in-process channel, reservations and event log for TLC | a sum: `part` chooses one in the first state |
| `MCWorkspace` | merge lifecycle and local family for TLC | a sum, as above |
| other `MC...` | constants and menus of requests for TLC | |

The parts of a sum share no state, so a behaviour of one of them is all that a
behaviour of the product could show; the sum explores each in full and none of
their products.

### How state and actions correspond

**OperationGate.** Each thread has a program counter inside `cross`, `cancel` or
`revoke`; each action is one atomic operation of the code (`Borrow`, `CrossLock`,
`CheckRevoked`, `Upgrade`, `CheckToken`, `FinishClosure`; `CancelSwap`,
`CancelTake`, `RunCallback`; `RevokeLock`, `RevokeStore`). A registration and the
three reads of `GateView::state` have steps of their own. A closure that panics
ends as one that returns: the same locals drop. The session's strong count is
`hostHolds` with the set `upgraded`.

**SessionTable and SessionService.** A call is the number it bears; its request
is one of the `Requests` a run offers. A section under the table lock is one
action, `Unlock` ending it with the thread's reply batch. Sections that loop
(`schedule`, the settling and detaching loops of close) hold `lock` across
actions. A batch is counted in `unflushed`, its views are marked, its replies
sent one by one, and the count taken back, as `flush` does. `WorkerReports` is
the handler's return through its gate; a revoked gate ignores it. The close
thread's stages are the steps of `run_close`; when no thread can be created, the
reading thread is `"inline"` until the close is done. `Init` is the state after
`start` and a successful `open`. `foreign` stands for the detached workers of
other sessions.

`schedule` looks at the detached record under that record's own lock (`running_on`)
and starts the operation later, so the look (`ScheduleBusy`, `ScheduleClear`) and
what follows it (`ScheduleBlocked`, `ScheduleStart`) are separate steps: another
session may detach a worker between them, and the operation then starts beside it.
The comment there ("refused, not run beside it") speaks of workers "another session
detached since admission", which the code refuses up to its look and no later; no
property says more. An iteration of the read thread that answers no read counts an
empty batch in `unflushed` as well. It is a step only while a close waits for that
count, the one place where it can be seen.

**EventLog.** `Push` holds the ring's lock; `Notify` is the wake-up after it. A
read returns any non-empty prefix of what lies after its cursor, which is what
the record and byte limits can amount to. `Wake` is a wake-up that was asked for,
`WakeUnasked` a timeout.

**ByteStream.** `stage` says where each thread is in `send`, `close` or
`read_loop`; the writer's mutex and the delivery fence are held from one action
to another, the short locks of `ended`, `write_failed` and the turns within one.
`Goto`, `End`, `Tell`, `ReleaseIfEnded` follow `Shared::end` and
`release_if_ended`. A frame is written whole or torn, in the four ways of `send`:
done, peer gone, failed, panicked (which poisons the lock). `late` marks a frame
whose `send` began after the end; it is history and decides nothing.

**Supervisor.** A job is in one place: new, listed, taken for a poll, being
dropped, quarantined, dropped. Each section under the mutex is an action, a poll
is an action outside it, and a notification is an action after its unlock that
reaches whoever sleeps then.

**MemberLocks.** The mutex is a variable: `Lock`, `Look`, `Insert` or `Park` are
separate because the canceller sets the token without it. A cancellation sets
the flag, takes the callbacks, and each callback takes the mutex (`WakeLocks`)
and notifies. A root is one of several spellings, some without an identity.

**InProcessChannel.** A send is one section and a notification it owes; `recv`
takes a frame, is told of the ending, or waits. `sent`, `received` and `heard`
are history and are the variables of the contract.

**Reservations.** A pool's turn polls its connections one by one; a connection
without a reservation leaves its driver's waker. `Deliver` is the wake on its
way. The pool core, an external crate, decides when connections are asked for
and closed.

**MergeLifecycle.** `Begin` is a command, `Ask` one round of its loop: the
dispatcher's choice, the observation and either a new record or an intent whose
physical step `ExecuteOwned` then makes, with or without effect. A crash drops
`inv` and keeps the rest. User actions edit, resolve and disturb. Observation
and commit are one action: both happen under the workspace lock, and a user's
change between them is the same as one after the commit.

**LocalFamily.** A process's `step` is where it stands in `install`, `run` or
`disband`. Every write of a file is an action; `Abandon` is an error, a refusal,
a cancellation, an expired wait or a kill, at any of them. The lock is located
anew at every attempt (`Seek`, `TryLock`), while `placed` and `seen` are what
`place` read before. A tree is absent, empty, partial, torn (copied from a tree
that was being removed) or whole. A lane's name stands for its path, paths are
siblings, the reads of one workspace's metadata are one step, and hazards an
inspection finds are among the reasons to abandon.

## 3. Runs

| Run | Question | Bounds |
| --- | --- | --- |
| `gate` | revocation final, no self-wait, callbacks neither lost nor run twice, `state()` monotone, the contract implemented; a revoke returns, a standing callback runs | two worker threads, two controllers, one callback, a viewer; one crossing each |
| `service_schedule` | class exclusion, no missed start, queue order | three calls of every class on two workspaces, running limit 2, spawns that fail |
| `service_results` | one reply per call, nothing forgotten, eviction only of what was delivered | four calls, table of two |
| `service_close` | nothing starts or changes its outcome after a close; its report comes last; a handler starts once, and not after anyone was told how its call ended | three calls: queued, running, finishing, cancelled, a held read |
| `service_faults` | exact counters, the limits and the end state when the channel ends, a lane fills, the client breaks the protocol, threads fail to start, other sessions detach workers | two calls, outstanding limit 1 |
| `service_liveness` | a close completes; every call is answered if handlers return | two calls of ten kinds |
| `inline_close` | finding: a close on the reading thread never ends | two calls |
| `byte_stream` | wire order, framing, turns, the end told once, the writer released, sends return | two senders, four kinds of frame, one closer, two sends, one incoming frame |
| `host_parts` | supervisor: shutdowns count every job, a released supervisor empties; locks: exclusion, no forgotten waiter, cancelled waits end; channel: the contract, no deaf receiver; reservations: no connection sleeps over a free one; event log: no silent gap, no early end, no missed wake, held reads answered | two jobs, two shutdowns; two takers, two spellings of one root and one without identity; three receivers, two frames per side, lanes of two and one; three connections, two pools, two requests, base of one; log of capacity 3 and seven records, hence four overflows |
| `merge` | merge: the record accounts for the repositories, no residue, resolutions kept, recoveries reopen, commands end, all or nothing; family: metadata sound in every state a crash leaves, sources stand | two members with every mix of outcomes, both candidates, one disturbance at a time; two processes, three workspaces, three commands |
| `merge_edit` | finding: an abort discards an edit | two members |
| `merge_recovery` | finding: a corrected operation stays in recovery | two members |

Why the bounds suffice. In the service every interaction the code has is between
two calls and, at most, a third that schedules or closes; a table of two with
four calls forces eviction, limits of one or two are met from both sides. Two
crossers and two controllers give every race of the gate, whose locks hand over
between two threads. Two senders both queue before either takes its turn, so
frames overtake each other; what more senders could add is covered by the
proofs, which have no bound. Two takers race for one member while a third thing,
the canceller, comes between a look and a wait; three receivers put two on one
side, so that a wake given to one can be needed by the other. In a merge one
member may come before or after the one that stops, which is all the order the
dispatcher sees. In the family three commands are enough to found a family, clone
a lane of a lane and dispose of what is being cloned. `MaxCall`, `MaxCrossings`,
`MaxEvents`, `MaxRecords`, `MaxSends`, `MaxFrames`, `MaxStrays`, `MaxDirty` and
`MaxCommands` bound what has no bound in the code (or a 64-bit one); `Id` has as
many ids as three commands can hold; every other constant is a limit the code has
too.

Deadlock is checked in `merge`: a merge always admits a user's or a command's
step, and a family whose commands are used up rests by an explicit stutter. It
is not checked elsewhere: a session that has ended, a log that was read to its
end and a channel whose calls were all made do stop. What must not stop is stated
as liveness.

Every property has a mutant, a definition changed as a plausible bug would change
it, named after what it breaks and placed before the definition it replaces; TLC
finds the property violated with it.

### Fairness

Threads inside a call keep running (weak fairness per thread): closures and
callbacks are short by contract ("must not block"), sections under the table
lock are loops over finite tables, sends to a channel do not block the session
beyond the stream's own write. Nothing is assumed of the client, of the peer, of
other sessions, or of when a call is made. Handlers may run for ever:
`CloseCompletes` holds regardless, since the wait of close's step 4 elapses;
`EveryCallAnswered` says explicitly that it assumes `HandlersReturn`. The close's
two waits for `unflushed` to reach zero have strong fairness: the read thread's idle
iterations count a batch for a moment again and again, so the count is zero again and
again but not for good; every flush wakes the close, and the read thread sleeps up to
a second between two iterations while the close needs the lock once. The read
thread's timers are not used for `HeldAnswered`. In the byte stream a write
returns (in any of the four ways) and `route` returns; the read that waits for
the peer need not.

The supervisor's thread runs, its timed waits elapse, and a job polled again and
again settles some day (strong fairness of that outcome: it is the jobs' promise,
and without it the thread rightly never stops). In the member locks whoever has
the mutex gives it back and whoever is notified gets it; holders of a member may
keep it for ever, and `CancelledWaitEnds` holds regardless. In the merge the
process under way keeps going (weak fairness of its steps) while it lives; the
user, crashes and failures are free, and no fairness makes a step succeed. The
channel, the reservations and the family are checked for safety only: they have
no thread of their own.

## 4. Findings

Three runs show the code doing other than its comments or documents say.

1. `inline_close`: when the close thread cannot be created, `run_close` runs on
   the reading thread inside `receive`, waits for the count of batches to fall to
   zero, and that thread's own batch is counted. The session never ends.
2. `merge_edit`: after a crash between Git's conflict and the record of it, an
   abort takes the conflicted files' bytes as they are then for the original, and
   the rollback discards an edit made in between; `forward.rs` forbids the same
   thing for a continue.
3. `merge_recovery`: an operation that fell into recovery when its evidence
   commit had been made and not recorded is not recognised again once the
   disturbance is gone, since the recovery check asks for the root at the
   evidence's base. `RecoveryReopens` shows that this is the only such case.

Observed in reading or exploring, without a run of their own:

- `session-host/src/service/workers.rs:324`: `run_close` looks for batches,
  releases the lock and then closes the channel; a call counted in between loses
  its reply.
- `session-channel/src/byte_stream.rs:235`: a call whose write panics unwinds
  without looking at `ended` again, so the writer of an ended session lives until
  the end is dropped or used again. `WriterReleased` excepts it.
- `src/local_clone/create.rs:223`: a create from a lane uses the root and family
  id that `place` read before the wait. `try_lock` locates the lane anew at every
  poll, so if a keep or a disband has removed the lane's pointer meanwhile, the
  create locks the lane itself and founds an index there under the old family's
  id: two roots with one id, which REQ-161 and REQ-162 of `GWZRequirements.md`
  exclude and `wait.rs:26-32` denies. With four commands a workspace can end with
  both an index and a pointer. `LocalFamily` includes these behaviours;
  `FamilySound` and `SourceStands` hold in spite of them.
- `family-store/src/publish.rs:91`: "a failure ... leaves any previous `target`
  untouched" is not so when only the directory's flush fails.
- `family-store-contract/src/lib.rs:366`: the `PathCollision` refusal of
  `install_pointer` is absent from the YAML store.
- `src/git/endpoint/shared_reservation.rs:464`: `end_operation` wakes nobody,
  though the ceiling may rise to the base when the last request with a lower one
  ends. Only connections of requests that have ended can be affected;
  `NoSleepingConnection` is therefore about those of live requests.

## 5. Proofs

TLAPS checks every theorem to the last leaf, for every value of the constants
that satisfies the named `ASSUME`s. Those say what the code's types and set-up
say: threads, tokens and names are distinct from the marks for "none"; bounds and
limits are natural numbers, a log's capacity is at least 2, a lane's at least 1;
a session's limits are positive and its table holds what may run and queue
(`validate_limits`); jobs, connections, requests and receivers are finite sets;
the merge's targets are a sequence of distinct members, their kinds are the four
of the plan and a candidate changes the lock, the boundary, both or neither.
`Keying` is how the member locks name a root, by identity or by spelling, and the
theorems hold for each.

In every component the property itself is not inductive. What has to be added is
mostly where each thread stands and what it holds there, and that what is
counted is what is there.

**The gate.** `GateInv` is the type invariant with `LockInv` (who is where between
`CrossLock` and `Release` holds the crossing lock, the gate mutex and, inside, the
crosser record), `RevokeInv` (a `revoke` has returned only after the flag was set
and the token cancelled; nobody is past the check of a set flag), and
`CallbackInv` (a callback is in one place: pending, taken by one thread, or run).
`RevokeIsFinal` alone is not inductive: it needs to know that a revoker stores the
flag with the crossing lock held, and that a thread past the check holds that
lock. From it follow `RevocationIsFinal`, `NeverSelfWaits`, `CallbacksSafe`
(at most once, never lost), their conjunction `GateIsSafe`, and
`GateRefinement`: every step of the gate is a step of `GateContract` or a
stutter, with `inside` mapped to the crossers in their closure and `ended` to a
strong count of zero. `ViewNeverGoesBack` (`ViewMonotone`) needs `ViewInv` besides:
what `state()` reads only goes one way, and a view that reads past the flag after it
showed a revoked gate was shown an ended session, which it finds ended again.

**The event log.** `Inv` joins the types, `RingShape`, `NoSilentGap`,
`CompleteMeansAll`, `NoMissedWake` and that the cursor is below `nextSeq`. The
core is that a batch of a ring of that shape covers every number from the cursor
to its last: `BatchCovers`. Theorems: `RingKeepsShape`, `NeverSilentGap`,
`EndMeansAll`, `NeverMissesWake` and their conjunction `LogIsSound`, for every
capacity from 2.

**The byte stream.** `Inv` adds to the types `TurnInv` (whoever is between check and
sleep has exactly one frame queued; whoever is past its turn holds `hand` and
`busy`), and `OrderInv`, which carries the order of frames from the queue over the
hand to the wire: the queue is in ticket order, and whatever left before an older
frame that is still here was allowed to overtake it. The rule's own facts are
lemmas on `WriteQueue` (`NextIndexFacts`, `PeekAppend`, `PoppedFacts`): the frame
chosen is the least unblocked control frame or the first, and it may overtake
every frame before it. `NoTurnLost` rests on `PeekAppend`: a frame that joins
changes the next one only to itself. `EndInv` adds who may tell the router,
who holds the writer's lock, that a torn frame is the last and is followed by a
set `failed`, `ended` or poisoned lock, that a late frame meets an ended
session, and `WriterReleased`. Theorems: `WireKeepsOrder`, `NoTurnLost`,
`RouterToldOnce`, `FramingNeverLost`, `LateFramesRefused`, `WireIsSound` (order,
framing and late frames together), `WriterIsReleased`.

**Member locks.** `LocksInv` adds to the types `MutexInv` (the mutex is held from
the look to the insert or the wait), `KeysInv` (the held keys are the guards' keys,
no two alike) and `CallbackInv` (where a taker's callback is: attached, being run
before or after the mutex). Its fourth part carries the look before the sleep: a
taker that has looked at its token and is cancelled before it waits still has its
callback ahead of it, since the callback needs the mutex. Theorems: `LocksCorrect`
(exclusion and no forgotten waiter), `GuardsHaveOwnKeys`.

**Supervisor.** `SupervisorInv` has `BatchInv` (the jobs taken for a poll number at
most `polling`, and a thread that leaves has none), `ReleaseInv` (one shutdown at a
time, nothing is counted before the release) and `ShutdownExact`. Counting is done
with the cardinality lemmas of the library. Theorems: `SupervisorCorrect`,
`StopLeavesNothing`, `CountIsFinal`.

**Reservations.** `ReservationsInv`: the totals are the cardinalities of the
connections that exist, in all and per host (`CountsInv`), what waits belongs to a
live request and its driver is about to look or on the list a return wakes
(`WaitingInv`). Theorems: `ReservationsExact`, `ReservationsCorrect` (no connection
of a live request sleeps over a reservation), `GrantsWithinCeilings`.

**In-process channel.** `ChannelInv` is the types, that a side that stopped keeps
nothing, that what was received with what is queued is what was sent, and
`NoDeafReceiver`, whose step counts the wake-ups still owed against the frames
that are there. Theorems: `NobodyDeaf`, `LanesStayBounded`, and `ChannelRefines`:
every step is one of `ChannelContract` or a stutter, `sent`, `received` and
`heard` standing for themselves.

**Merge lifecycle.** `MergeInv` joins what a row may say (`RowInv`), what each state
of the record implies for its rows, origin and cursor (`PhaseInv`), how far the
publication is (`PublicationInv`), where each member and each root file may be
beside what is recorded, and which action is under way. A round of a command is
first flattened to the few kinds of step a record can take, with what each does to
record and repositories, so that every conjunct is proved once per kind of step and
not once per branch of the dispatcher. Theorems: `RecordAccounts`,
`NothingLeftBehind`, `ResolutionsAreKept`, `CorrectedReopens`, and
`MergeRefinesContract`, where the decision is read off the record and a member's
place off its repository.

**The session.** `ServiceInv` has two halves. `TableInv` is about the table alone:
the fields a record has in its phase (`RecordInv`), the pending calls and the queue
of operations in the order of their numbers (`LinesInv`), each live record in the line of its phase
(`PlacedInv`), each class's busy count at least the operations of the class that run
(`BusyInv`), and every waiter waited for (`WaitInv`). Its parameter names the one
call an operator has between two places. The other half ties the table to the
threads: a running record has a worker at work and a call that has not started has
none (`ThreadInv`); once the close has passed its settling loop nothing is left to
start, and only then is a handler revoked (`CloseInv`); and `LockInv`, `PendingInv`, `ReaderInv`. Beside the invariant every
action satisfies `StepOK`, which bounds what one step may start and which outcomes it
may change.

- `ClassesExclude`: a start asks `Admits` of the busy counts; because they are never
  less than what runs, the classes exclude each other, detached handlers included,
  though a settled record gives its count back while its handler still runs: only
  a close detaches, and after it nothing starts.
- `NoStartMissed` and `StartsInOrder`: `ScanInv` says that whatever a scan has passed
  is stuck, by an excluding class or by an earlier call of its workspace, and that
  `blocked` is exactly the workspaces passed. Starting more calls only makes them
  more stuck (`AdmitsLess`), and every section that could free a call ends in a scan.
- `CloseStaysFinal` covers a worker whose report passed its gate before the close
  revoked it: `settle` of a terminal record changes no outcome.
- `NothingIsForgotten`, `ServiceTypeCorrect`.

**The session's replies.** What a caller is told passes from the table into the
batch of the thread that settled it, and from there through the channel.
`ReplyInv`, beside `ServiceInv`, follows each reply on that way:

- `Books`: the table's counters say what they count, the lanes, the entries, the
  running operations and the request IDs. Its parameter is the calls in hand, owed a
  reply but not in the table.
- `OnceInv`: each reply is in one place (the batch being built, a thread's batch, past
  the channel), is the only one to its call, and its call is owed none. `PlaceInv`: only
  a thread that marks or sends has a batch.
- `TallyInv`: `unflushed` counts the threads with a batch under way, `directRunning` the
  direct workers.
- `OverInv` (past the point where the close detaches, nothing runs and no read is
  held), `ReportInv` (the replies to the calls before a close report are out) and
  `FateInv` (a view marked delivered was handed over; an accepted operation has its
  reply, and keeps its record until it is released or delivered; the views replied
  are of no live call).

The operators of the table come first: each keeps `Books` and turns what is due into
a reply or keeps it due (`Moves`). Then how a section's replies flow to a batch
(`Begins`, `Carries`), and one lemma per action. The counts are needed for the order:
the report is sent at `unflushed = 0`, and only with `TallyInv` does that mean that no
thread still has a batch. From `ReplyInvariant` follow:

- `EveryCallOneReply` (`OneReply`): a call the session took is owed one reply or has
  one, built, on its way, sent or refused, and never two; after the end it may have
  none;
- `TableSaysWhatIs` (`TableExact`): the counters, the request IDs and the limits;
- `ReportComesLast` (`CloseReportLast`) and `EvictionsAreDelivered`
  (`EvictedOnlyDelivered`);
- `HandlersRunOnceUntold` (`RunsOnceUntold`): what starts was waiting (`StepOK`), so it
  is live and has no worker; if it was not accepted it is owed its reply and has none,
  if it was its one reply says only that, and no view of it is replied.

Only model-checked, and why:

- all liveness (`ENABLED` and fairness are outside the prover's reach);
- `FamilySound` and `SourceStands` of `LocalFamily`. They hold within `MaxCommands`,
  and no inductive invariant is claimed: `try_lock`
  (`crates/family-store/src/lib.rs:255`) does not look again at the file it has locked,
  so if a lane's `.gwz` is removed and made anew while another process still holds
  the old file, two processes may both have the lock. By hand this takes some seven
  commands of three processes, more than a run can explore.

## 6. Not modelled, and why

Bodies, texts, byte counts and encodings: no property here depends on them.
Frames' reading and the handshake before `open`. Several sessions in full over
one detached record: other sessions are an environment that records and clears
workers at will. A router that calls back into its own channel end. Memory
order: the atomics of the gate are sequentially consistent in the model, and each
flag the gate acts on is read and written under a lock or only ever goes one way.

Of the merge: planning and start, a selected root, preservation, migrated
publications, the archive, a resolution redone to another tree while it is being
committed, and a Git call that stops half way. Of the family: family merge and
import, list, malformed metadata, moved trees, symlinked or case-folded
spellings, nested paths, the copy record, a row's `last_error` and owner, the
flushes inside a publication (a publication is one rename); a user removes a lane
by hand only while no command works on it. Of the pools: the pool core
(`gwz-transport`, another crate).

Components without a module are listed with their reasons in `PROJECT.json`: the
bulk of the repository is Git and filesystem calls with a report per member,
platform code, generated protocol code and tests, where a state machine would
restate the code line by line.

## 7. Plan

Done: the gate, the session service, the event log, the byte stream, the
supervisor, the channels, the member locks, the reservations, the merge
lifecycle, the local family, and the proofs of section 5. Left, in order:

1. `StreamCarrier` (windows, writer and inbound halves) over `WriteQueue`, and
   setup retry.
2. Publication of a repository; the artifact catalog's leases and cleanup.
3. As pure operators against a reference: the commit log's merge, the work
   detector.
