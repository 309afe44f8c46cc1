---------------------------- MODULE OperationGate ---------------------------
(***************************************************************************)
(* One call's gate, token and controls, at the grain of single atomic      *)
(* loads, stores and lock operations                                       *)
(* (crates/session-host/src/gate.rs and token.rs; `Worker` in service.rs). *)
(*                                                                         *)
(* Crossers are the threads of the call's worker, which share one gate     *)
(* behind the mutex `Worker.gate`. Controllers are the threads that hold   *)
(* the record's `CallControls`: the reading thread and the close thread.   *)
(* Callbacks are the `on_cancel` registrations, each made and dropped by a *)
(* thread of its own. One viewer holds a `GateView` and calls `state()`.   *)
(***************************************************************************)
EXTENDS Naturals, FiniteSets

CONSTANTS Crossers, Controllers, Callbacks,
          NoThread,       \* the value of a free lock and an empty record
          MaxCrossings    \* bound: crossings one crosser makes in its life

ASSUME ThreadsAssumption ==
  /\ Crossers \cap Controllers = {}
  /\ NoThread \notin Crossers \cup Controllers \cup Callbacks
  /\ Callbacks \cap (Crossers \cup Controllers) = {}
  /\ MaxCrossings \in Nat

Threads == Crossers \cup Controllers
Kinds == {"effect", "report"}

VARIABLES
  cancelled,  \* TokenInner.cancelled
  pending,    \* Callbacks.pending, as the set of its callbacks
  cbLock,     \* holder of the mutex TokenInner.callbacks
  crossing,   \* holder of the mutex GateInner.crossing
  revoked,    \* GateInner.revoked
  crosser,    \* GateInner.crosser, the backstop's record
  hostHolds,  \* the host still holds its strong reference to the session
  upgraded,   \* threads holding a strong reference from Weak::upgrade
  gateMutex,  \* holder of the mutex Worker.gate
  pc,         \* where each thread is in `cross`, `cancel` or `revoke`
  kind,       \* what each thread's call is: an effect, a report, a cancel...
  made,       \* how many crossings each crosser has made
  toRun,      \* callbacks a cancelling thread took and has not yet run
  runs,       \* how often each callback ran
  reg,        \* the state of each callback's registration
  returned,   \* a `revoke` call has returned
  viewPc,     \* where the viewer is in `state()`
  seen        \* the state the viewer's last `state()` returned

tokenVars == <<cancelled, pending, cbLock, toRun, runs, reg>>
gateVars  == <<crossing, revoked, crosser, hostHolds, upgraded, gateMutex>>
viewVars  == <<viewPc, seen>>
vars == <<tokenVars, gateVars, viewVars, pc, kind, made, returned>>

PcValues == {"idle", "lock", "check", "upgrade", "token", "inside",
             "cancel", "take", "callbacks", "revokeLock", "store"}
RegValues == {"none", "locked", "passed", "registered", "refused", "dropped"}
GateStates == {"Live", "Cancelled", "Revoked"}

\* The session is gone once its strong count is zero.
SessionEnded == ~hostHolds /\ upgraded = {}

Init ==
  /\ cancelled = FALSE /\ pending = {} /\ cbLock = NoThread
  /\ crossing = NoThread /\ revoked = FALSE /\ crosser = NoThread
  /\ hostHolds = TRUE /\ upgraded = {} /\ gateMutex = NoThread
  /\ pc = [t \in Threads |-> "idle"]
  /\ kind = [t \in Threads |-> "report"]
  /\ made = [t \in Crossers |-> 0]
  /\ toRun = [t \in Threads |-> {}]
  /\ runs = [k \in Callbacks |-> 0]
  /\ reg = [k \in Callbacks |-> "none"]
  /\ returned = FALSE
  /\ viewPc = "idle" /\ seen = "Live"

Goto(t, label) == pc' = [pc EXCEPT ![t] = label]

-----------------------------------------------------------------------------
(* A crossing: `effect`, `append` and `report` of the worker, then `cross`. *)

\* The worker's thread takes Worker.gate and enters `cross`, whose check
\* finds no re-entry: a thread inside its closure is not idle.
Borrow(t, k) ==
  /\ pc[t] = "idle"
  /\ made[t] < MaxCrossings
  /\ gateMutex = NoThread
  /\ gateMutex' = t
  /\ kind' = [kind EXCEPT ![t] = k]
  /\ made' = [made EXCEPT ![t] = @ + 1]
  /\ Goto(t, "lock")
  /\ UNCHANGED <<tokenVars, viewVars, returned, crossing, revoked, crosser,
                 hostHolds, upgraded>>

CrossLock(t) ==
  /\ pc[t] = "lock"
  /\ crossing = NoThread
  /\ crossing' = t
  /\ Goto(t, "check")
  /\ UNCHANGED <<tokenVars, viewVars, returned, revoked, crosser, hostHolds,
                 upgraded, gateMutex, kind, made>>

\* Everything `cross` holds is released as its locals drop: the crosser
\* record, the session, the crossing lock, and the caller's gate guard.
Release(t) ==
  /\ crosser' = NoThread
  /\ upgraded' = upgraded \ {t}
  /\ crossing' = NoThread
  /\ gateMutex' = NoThread
  /\ Goto(t, "idle")
  /\ UNCHANGED <<tokenVars, viewVars, returned, revoked, hostHolds, kind, made>>

CheckRevoked(t) ==
  /\ pc[t] = "check"
  /\ \/ revoked /\ Release(t)
     \/ /\ ~revoked
        /\ Goto(t, "upgrade")
        /\ UNCHANGED <<tokenVars, gateVars, viewVars, returned, kind, made>>

\* Mutant of Upgrade: the gate keeps its session alive.
UpgradeAlways(t) ==
  /\ pc[t] = "upgrade"
  /\ upgraded' = upgraded \cup {t}
  /\ Goto(t, "token")
  /\ UNCHANGED <<tokenVars, viewVars, returned, crossing, revoked, crosser,
                 hostHolds, gateMutex, kind, made>>

Upgrade(t) ==
  /\ pc[t] = "upgrade"
  /\ \/ SessionEnded /\ Release(t)
     \/ /\ ~SessionEnded
        /\ upgraded' = upgraded \cup {t}
        /\ Goto(t, "token")
        /\ UNCHANGED <<tokenVars, viewVars, returned, crossing, revoked,
                       crosser, hostHolds, gateMutex, kind, made>>

\* Mutant of CheckToken: every crossing is treated as a report.
CheckTokenAsReport(t) ==
  /\ pc[t] = "token"
  /\ crosser' = t
  /\ Goto(t, "inside")
  /\ UNCHANGED <<tokenVars, viewVars, returned, crossing, revoked, hostHolds,
                 upgraded, gateMutex, kind, made>>

CheckToken(t) ==
  /\ pc[t] = "token"
  /\ \/ kind[t] = "effect" /\ cancelled /\ Release(t)
     \/ /\ kind[t] = "effect" => ~cancelled
        /\ crosser' = t
        /\ Goto(t, "inside")
        /\ UNCHANGED <<tokenVars, viewVars, returned, crossing, revoked,
                       hostHolds, upgraded, gateMutex, kind, made>>

\* The closure returns, or panics: either way the locals drop.
FinishClosure(t) ==
  /\ pc[t] = "inside"
  /\ Release(t)

-----------------------------------------------------------------------------
(* The record's controls. *)

StartCancel(t) ==
  /\ pc[t] = "idle"
  /\ kind' = [kind EXCEPT ![t] = "cancel"]
  /\ Goto(t, "cancel")
  /\ UNCHANGED <<tokenVars, gateVars, viewVars, returned, made>>

\* `revoke`, called by a controller, or reached by a closure from inside its
\* own crossing: forbid_reentry panics there before anything is cancelled,
\* and the panic unwinds the crossing.
StartRevoke(t) ==
  /\ pc[t] = IF t \in Controllers THEN "idle" ELSE "inside"
  /\ \/ crosser = t /\ Release(t)
     \/ /\ crosser # t
        /\ kind' = [kind EXCEPT ![t] = "revoke"]
        /\ Goto(t, "cancel")
        /\ UNCHANGED <<tokenVars, gateVars, viewVars, returned, made>>

\* Where a thread goes once its `cancel` returns.
AfterCancel(t) == IF kind[t] = "revoke" THEN "revokeLock" ELSE "idle"

\* The swap of the flag: only the first canceller goes on to the callbacks.
CancelSwap(t) ==
  /\ pc[t] = "cancel"
  /\ cancelled' = TRUE
  /\ Goto(t, IF cancelled THEN AfterCancel(t) ELSE "take")
  /\ UNCHANGED <<gateVars, viewVars, returned, kind, made, pending, cbLock,
                 toRun, runs, reg>>

\* Mutant of CancelTake: the callbacks are dropped with the list.
CancelTakeDropping(t) ==
  /\ pc[t] = "take"
  /\ cbLock = NoThread
  /\ pending' = {}
  /\ Goto(t, "callbacks")
  /\ UNCHANGED <<gateVars, viewVars, returned, kind, made, cancelled, cbLock,
                 toRun, runs, reg>>

CancelTake(t) ==
  /\ pc[t] = "take"
  /\ cbLock = NoThread
  /\ toRun' = [toRun EXCEPT ![t] = pending]
  /\ pending' = {}
  /\ Goto(t, "callbacks")
  /\ UNCHANGED <<gateVars, viewVars, returned, kind, made, cancelled, cbLock,
                 runs, reg>>

\* One callback, outside the token's lock; a panic of it is caught.
RunCallback(t, k) ==
  /\ pc[t] = "callbacks"
  /\ k \in toRun[t]
  /\ runs' = [runs EXCEPT ![k] = @ + 1]
  /\ toRun' = [toRun EXCEPT ![t] = @ \ {k}]
  /\ UNCHANGED <<gateVars, viewVars, returned, pc, kind, made, cancelled,
                 pending, cbLock, reg>>

\* Mutant of CallbacksDone: a revoke that cancelled first stops there.
CallbacksDoneEarly(t) ==
  /\ pc[t] = "callbacks"
  /\ toRun[t] = {}
  /\ Goto(t, "idle")
  /\ UNCHANGED <<tokenVars, gateVars, viewVars, returned, kind, made>>

CallbacksDone(t) ==
  /\ pc[t] = "callbacks"
  /\ toRun[t] = {}
  /\ Goto(t, AfterCancel(t))
  /\ UNCHANGED <<tokenVars, gateVars, viewVars, returned, kind, made>>

\* Mutant of RevokeLock: a revoke that does not wait for the closure.
RevokeLockWithoutWaiting(t) ==
  /\ pc[t] = "revokeLock"
  /\ Goto(t, "store")
  /\ UNCHANGED <<tokenVars, viewVars, returned, gateVars, kind, made>>

RevokeLock(t) ==
  /\ pc[t] = "revokeLock"
  /\ crossing = NoThread
  /\ crossing' = t
  /\ Goto(t, "store")
  /\ UNCHANGED <<tokenVars, viewVars, returned, revoked, crosser, hostHolds,
                 upgraded, gateMutex, kind, made>>

RevokeStore(t) ==
  /\ pc[t] = "store"
  /\ revoked' = TRUE
  /\ crossing' = NoThread
  /\ returned' = TRUE
  /\ Goto(t, "idle")
  /\ UNCHANGED <<tokenVars, viewVars, crosser, hostHolds, upgraded, gateMutex,
                 kind, made>>

-----------------------------------------------------------------------------
(* Registrations with the token: `on_cancel` and CancelRegistration::drop. *)

regUnchanged == <<gateVars, viewVars, pc, kind, made, returned, cancelled,
                  toRun, runs>>

RegisterLock(k) ==
  /\ reg[k] = "none"
  /\ cbLock = NoThread
  /\ cbLock' = k
  /\ reg' = [reg EXCEPT ![k] = "locked"]
  /\ UNCHANGED <<regUnchanged, pending>>

\* The flag is read holding the callbacks' lock.
RegisterCheck(k) ==
  /\ reg[k] = "locked"
  /\ reg' = [reg EXCEPT ![k] = IF cancelled THEN "refused" ELSE "passed"]
  /\ cbLock' = IF cancelled THEN NoThread ELSE k
  /\ UNCHANGED <<regUnchanged, pending>>

RegisterPush(k) ==
  /\ reg[k] = "passed"
  /\ pending' = pending \cup {k}
  /\ reg' = [reg EXCEPT ![k] = "registered"]
  /\ cbLock' = NoThread
  /\ UNCHANGED regUnchanged

DropRegistration(k) ==
  /\ reg[k] = "registered"
  /\ cbLock = NoThread
  /\ pending' = pending \ {k}
  /\ reg' = [reg EXCEPT ![k] = "dropped"]
  /\ UNCHANGED <<regUnchanged, cbLock>>

-----------------------------------------------------------------------------
(* The session's end, and the lock-free `state()`. *)

DropSession ==
  /\ hostHolds
  /\ hostHolds' = FALSE
  /\ UNCHANGED <<tokenVars, viewVars, pc, kind, made, returned, crossing,
                 revoked, crosser, upgraded, gateMutex>>

viewUnchanged == <<tokenVars, gateVars, pc, kind, made, returned>>

ViewRevoked ==
  /\ viewPc = "idle"
  /\ viewPc' = IF revoked THEN "idle" ELSE "session"
  /\ seen' = IF revoked THEN "Revoked" ELSE seen
  /\ UNCHANGED viewUnchanged

ViewSession ==
  /\ viewPc = "session"
  /\ viewPc' = IF SessionEnded THEN "idle" ELSE "token"
  /\ seen' = IF SessionEnded THEN "Revoked" ELSE seen
  /\ UNCHANGED viewUnchanged

ViewToken ==
  /\ viewPc = "token"
  /\ viewPc' = "idle"
  /\ seen' = IF cancelled THEN "Cancelled" ELSE "Live"
  /\ UNCHANGED viewUnchanged

-----------------------------------------------------------------------------

CrosserStep(t) ==
  \/ CrossLock(t)
  \/ CheckRevoked(t)
  \/ Upgrade(t)
  \/ CheckToken(t)
  \/ FinishClosure(t)

ControlStep(t) ==
  \/ CancelSwap(t)
  \/ CancelTake(t)
  \/ \E k \in Callbacks : RunCallback(t, k)
  \/ CallbacksDone(t)
  \/ RevokeLock(t)
  \/ RevokeStore(t)

RegisterStep(k) ==
  \/ RegisterCheck(k)
  \/ RegisterPush(k)

ViewStep ==
  \/ ViewRevoked
  \/ ViewSession
  \/ ViewToken

Next ==
  \/ \E t \in Crossers : (\E k \in Kinds : Borrow(t, k)) \/ CrosserStep(t)
  \/ \E t \in Controllers : StartCancel(t)
  \/ \E t \in Threads : StartRevoke(t) \/ ControlStep(t)
  \/ \E k \in Callbacks :
       RegisterLock(k) \/ RegisterStep(k) \/ DropRegistration(k)
  \/ DropSession
  \/ ViewStep

Spec == Init /\ [][Next]_vars

\* A thread that is inside one of these calls keeps running: a closure is
\* short and does not block (gate.rs, "must not block"), and so is a
\* callback. Starting a call, dropping a registration and ending the session
\* are free choices and carry no fairness.
Fairness ==
  /\ \A t \in Crossers : WF_vars(CrosserStep(t))
  /\ \A t \in Threads : WF_vars(ControlStep(t))
  /\ \A k \in Callbacks : WF_vars(RegisterStep(k))

FairSpec == Spec /\ Fairness

-----------------------------------------------------------------------------
(* Properties. *)

TypeOK ==
  /\ cancelled \in BOOLEAN /\ revoked \in BOOLEAN
  /\ hostHolds \in BOOLEAN /\ returned \in BOOLEAN
  /\ pending \subseteq Callbacks
  /\ cbLock \in Callbacks \cup {NoThread}
  /\ crossing \in Threads \cup {NoThread}
  /\ crosser \in Crossers \cup {NoThread}
  /\ gateMutex \in Crossers \cup {NoThread}
  /\ upgraded \subseteq Crossers
  /\ pc \in [Threads -> PcValues]
  /\ kind \in [Threads -> Kinds \cup {"cancel", "revoke"}]
  /\ made \in [Crossers -> Nat]
  /\ toRun \in [Threads -> SUBSET Callbacks]
  /\ runs \in [Callbacks -> Nat]
  /\ reg \in [Callbacks -> RegValues]
  /\ viewPc \in {"idle", "session", "token"}
  /\ seen \in GateStates

\* Revocation is final: once a `revoke` has returned, no crossing's closure
\* runs, and none is past the check of the flag, so none touches session
\* state again (gate.rs, "once `revoke` returns no crossing is in flight").
RevokeIsFinal ==
  returned => \A t \in Crossers : pc[t] \notin {"upgrade", "token", "inside"}

\* No thread waits for a lock it holds: the backstop turns a revoke from
\* inside the gate's own closure into a panic (GateInner::forbid_reentry).
NoSelfWait ==
  \A t \in Threads : pc[t] \in {"lock", "revokeLock"} => crossing # t

\* No callback is lost between a registration and a cancellation: one that is
\* attached to a cancelled token is about to be taken by the thread that
\* cancelled it (on_cancel reads the flag under the callbacks' lock).
NoLostCallback ==
  cancelled /\ pending # {} => \E t \in Threads : pc[t] = "take"

\* A callback runs at most once, however many threads cancel and revoke, and
\* never when its registration was refused (TokenInner::cancel, on_cancel).
CallbackAtMostOnce ==
  \A k \in Callbacks :
    /\ runs[k] <= 1
    /\ reg[k] \in {"none", "locked", "passed", "refused"} => runs[k] = 0

\* The four together.
GateSafe ==
  RevokeIsFinal /\ NoSelfWait /\ NoLostCallback /\ CallbackAtMostOnce

\* What `state()` returns never goes back from cancelled to live or from
\* revoked to anything else, although it reads the three flags one by one.
Rank == [Live |-> 0, Cancelled |-> 1, Revoked |-> 2]
ViewMonotone == [][Rank[seen'] >= Rank[seen]]_vars

\* A revocation that has begun returns: it cancels, waits for the closure in
\* flight and stores the flag (CallControls::revoke).
RevokeReturns ==
  \A t \in Controllers :
    pc[t] = "cancel" /\ kind[t] = "revoke" ~> revoked

\* A callback whose registration stands when the token is cancelled runs.
CallbackRuns ==
  \A k \in Callbacks :
    cancelled /\ reg[k] = "registered" ~> runs[k] = 1 \/ reg[k] = "dropped"

\* The closures running, each with the kind of its crossing.
Inside == {<<t, kind[t]>> : t \in {u \in Crossers : pc[u] = "inside"}}

\* The gate implements the contract its callers rely on: which crossings each
\* gate state lets through, one closure at a time on a session kept alive,
\* and none after a revocation.
Contract == INSTANCE GateContract
  WITH ended <- SessionEnded,
       inside <- Inside

GateImplementsContract == Contract!ContractSpec
=============================================================================
