------------------------- MODULE OperationGateProofs ------------------------
(***************************************************************************)
(* Proofs about OperationGate: type correctness, the finality of a         *)
(* revocation, the at-most-once callbacks, that the gate implements        *)
(* GateContract, and what a viewer is shown.                               *)
(***************************************************************************)
EXTENDS OperationGate, TLAPS

\* Who is where, and which lock that gives it.
CrossPcs == {"idle", "lock", "check", "upgrade", "token", "inside"}
ControlPcs == {"idle", "cancel", "take", "callbacks", "revokeLock", "store"}

LockInv ==
  /\ \A t \in Crossers : pc[t] \in CrossPcs
  /\ \A t \in Controllers : pc[t] \in ControlPcs
  /\ \A t \in Threads :
       crossing = t <=> pc[t] \in {"check", "upgrade", "token", "inside", "store"}
  /\ \A t \in Crossers : crosser = t <=> pc[t] = "inside"
  /\ \A t \in Crossers : t \in upgraded <=> pc[t] \in {"token", "inside"}
  /\ \A t \in Crossers : kind[t] \in Kinds

RevokeInv ==
  /\ revoked => \A t \in Crossers : pc[t] \notin {"upgrade", "token", "inside"}
  /\ returned => revoked
  /\ \A t \in Controllers :
       pc[t] \in {"take", "callbacks", "revokeLock", "store"} => cancelled

CallbackInv ==
  /\ \A k \in Callbacks : cbLock = k <=> reg[k] \in {"locked", "passed"}
  /\ \A t, u \in Threads :
       pc[t] \in {"take", "callbacks"} /\ pc[u] \in {"take", "callbacks"} => t = u
  /\ \A k \in Callbacks :
       cancelled /\ reg[k] = "passed" => \E t \in Threads : pc[t] = "take"
  /\ NoLostCallback
  /\ \A k \in Callbacks : k \in pending => reg[k] = "registered" /\ runs[k] = 0
  /\ \A t \in Threads : toRun[t] # {} => pc[t] = "callbacks"
  /\ \A t \in Threads : \A k \in toRun[t] :
       k \notin pending /\ runs[k] = 0 /\ reg[k] \in {"registered", "dropped"}
  /\ CallbackAtMostOnce

GateInv == TypeOK /\ LockInv /\ RevokeInv /\ CallbackInv

\* Every step keeps the types.
LEMMA TypeStep == TypeOK /\ [Next]_vars => TypeOK'
<1> SUFFICES ASSUME TypeOK, [Next]_vars PROVE TypeOK'
  OBVIOUS
<1> USE ThreadsAssumption DEF TypeOK, Threads, PcValues, RegValues,
    GateStates, Kinds, tokenVars, gateVars, viewVars
<1>1. ASSUME NEW t \in Crossers, NEW k \in Kinds, Borrow(t, k) PROVE TypeOK'
  BY <1>1 DEF Borrow, Goto
<1>2. ASSUME NEW t \in Crossers, CrossLock(t) PROVE TypeOK'
  BY <1>2 DEF CrossLock, Goto
<1>3. ASSUME NEW t \in Crossers, CheckRevoked(t) PROVE TypeOK'
  BY <1>3 DEF CheckRevoked, Goto, Release
<1>4. ASSUME NEW t \in Crossers, Upgrade(t) PROVE TypeOK'
  BY <1>4 DEF Upgrade, Goto, Release
<1>5. ASSUME NEW t \in Crossers, CheckToken(t) PROVE TypeOK'
  BY <1>5 DEF CheckToken, Goto, Release
<1>6. ASSUME NEW t \in Crossers, FinishClosure(t) PROVE TypeOK'
  BY <1>6 DEF FinishClosure, Goto, Release
<1>7. ASSUME NEW t \in Controllers, StartCancel(t) PROVE TypeOK'
  BY <1>7 DEF StartCancel, Goto
<1>8. ASSUME NEW t \in Threads, StartRevoke(t) PROVE TypeOK'
  BY <1>8 DEF StartRevoke, Goto, Release
<1>9. ASSUME NEW t \in Threads, CancelSwap(t) PROVE TypeOK'
  BY <1>9 DEF CancelSwap, Goto, AfterCancel
<1>10. ASSUME NEW t \in Threads, CancelTake(t) PROVE TypeOK'
  BY <1>10 DEF CancelTake, Goto
<1>11. ASSUME NEW t \in Threads, NEW k \in Callbacks, RunCallback(t, k) PROVE TypeOK'
  BY <1>11 DEF RunCallback, Goto
<1>12. ASSUME NEW t \in Threads, CallbacksDone(t) PROVE TypeOK'
  BY <1>12 DEF CallbacksDone, Goto, AfterCancel
<1>13. ASSUME NEW t \in Threads, RevokeLock(t) PROVE TypeOK'
  BY <1>13 DEF RevokeLock, Goto
<1>14. ASSUME NEW t \in Threads, RevokeStore(t) PROVE TypeOK'
  BY <1>14 DEF RevokeStore, Goto
<1>15. ASSUME NEW k \in Callbacks, RegisterLock(k) PROVE TypeOK'
  BY <1>15 DEF RegisterLock, regUnchanged
<1>16. ASSUME NEW k \in Callbacks, RegisterCheck(k) PROVE TypeOK'
  BY <1>16 DEF RegisterCheck, regUnchanged
<1>17. ASSUME NEW k \in Callbacks, RegisterPush(k) PROVE TypeOK'
  BY <1>17 DEF RegisterPush, regUnchanged
<1>18. ASSUME NEW k \in Callbacks, DropRegistration(k) PROVE TypeOK'
  BY <1>18 DEF DropRegistration, regUnchanged
<1>19. CASE DropSession
  BY ZenonT(60), <1>19 DEF DropSession
<1>20. CASE ViewRevoked
  BY <1>20 DEF ViewRevoked, viewUnchanged
<1>21. CASE ViewSession
  BY <1>21 DEF ViewSession, viewUnchanged
<1>22. CASE ViewToken
  BY <1>22 DEF ViewToken, viewUnchanged
<1>23. CASE UNCHANGED vars
  BY <1>23 DEF vars
<1> QED
  BY <1>1, <1>2, <1>3, <1>4, <1>5, <1>6, <1>7, <1>8, <1>9, <1>10, <1>11, <1>12, <1>13,
     <1>14, <1>15, <1>16, <1>17, <1>18, <1>19, <1>20, <1>21, <1>22, <1>23
  DEF Next, CrosserStep, ControlStep, RegisterStep, ViewStep

\* Every step keeps the ownership of the crossing lock, the backstop's record
\* and the session references where the threads' positions say they are.
LEMMA LockStep == TypeOK /\ LockInv /\ [Next]_vars => LockInv'
<1> SUFFICES ASSUME TypeOK /\ LockInv, [Next]_vars PROVE LockInv'
  OBVIOUS
<1> USE ThreadsAssumption DEF TypeOK, LockInv, Threads, PcValues, Kinds,
    CrossPcs, ControlPcs, tokenVars, gateVars, viewVars
<1>1. ASSUME NEW t \in Crossers, NEW k \in Kinds, Borrow(t, k) PROVE LockInv'
  BY <1>1 DEF Borrow, Goto
<1>2. ASSUME NEW t \in Crossers, CrossLock(t) PROVE LockInv'
  BY <1>2 DEF CrossLock, Goto
<1>3. ASSUME NEW t \in Crossers, CheckRevoked(t) PROVE LockInv'
  BY <1>3 DEF CheckRevoked, Goto, Release
<1>4. ASSUME NEW t \in Crossers, Upgrade(t) PROVE LockInv'
  BY <1>4 DEF Upgrade, Goto, Release
<1>5. ASSUME NEW t \in Crossers, CheckToken(t) PROVE LockInv'
  BY <1>5 DEF CheckToken, Goto, Release
<1>6. ASSUME NEW t \in Crossers, FinishClosure(t) PROVE LockInv'
  BY <1>6 DEF FinishClosure, Goto, Release
<1>7. ASSUME NEW t \in Controllers, StartCancel(t) PROVE LockInv'
  BY <1>7 DEF StartCancel, Goto
<1>8. ASSUME NEW t \in Threads, StartRevoke(t) PROVE LockInv'
  BY <1>8 DEF StartRevoke, Goto, Release
<1>9. ASSUME NEW t \in Threads, CancelSwap(t) PROVE LockInv'
  BY <1>9 DEF CancelSwap, Goto, AfterCancel
<1>10. ASSUME NEW t \in Threads, CancelTake(t) PROVE LockInv'
  BY <1>10 DEF CancelTake, Goto
<1>11. ASSUME NEW t \in Threads, NEW k \in Callbacks, RunCallback(t, k) PROVE LockInv'
  BY <1>11 DEF RunCallback, Goto
<1>12. ASSUME NEW t \in Threads, CallbacksDone(t) PROVE LockInv'
  BY <1>12 DEF CallbacksDone, Goto, AfterCancel
<1>13. ASSUME NEW t \in Threads, RevokeLock(t) PROVE LockInv'
  BY <1>13 DEF RevokeLock, Goto
<1>14. ASSUME NEW t \in Threads, RevokeStore(t) PROVE LockInv'
  BY <1>14 DEF RevokeStore, Goto
<1>15. ASSUME NEW k \in Callbacks, RegisterLock(k) PROVE LockInv'
  BY <1>15 DEF RegisterLock, regUnchanged
<1>16. ASSUME NEW k \in Callbacks, RegisterCheck(k) PROVE LockInv'
  BY <1>16 DEF RegisterCheck, regUnchanged
<1>17. ASSUME NEW k \in Callbacks, RegisterPush(k) PROVE LockInv'
  BY <1>17 DEF RegisterPush, regUnchanged
<1>18. ASSUME NEW k \in Callbacks, DropRegistration(k) PROVE LockInv'
  BY <1>18 DEF DropRegistration, regUnchanged
<1>19. CASE DropSession
  BY <1>19 DEF DropSession
<1>20. CASE ViewRevoked
  BY <1>20 DEF ViewRevoked, viewUnchanged
<1>21. CASE ViewSession
  BY <1>21 DEF ViewSession, viewUnchanged
<1>22. CASE ViewToken
  BY <1>22 DEF ViewToken, viewUnchanged
<1>23. CASE UNCHANGED vars
  BY <1>23 DEF vars
<1> QED
  BY <1>1, <1>2, <1>3, <1>4, <1>5, <1>6, <1>7, <1>8, <1>9, <1>10, <1>11, <1>12, <1>13,
     <1>14, <1>15, <1>16, <1>17, <1>18, <1>19, <1>20, <1>21, <1>22, <1>23
  DEF Next, CrosserStep, ControlStep, RegisterStep, ViewStep

\* Every step keeps a revoked gate empty: the flag is stored under the lock
\* that a crossing holds from its own read of the flag to its end.
LEMMA RevokeStep == TypeOK /\ LockInv /\ RevokeInv /\ [Next]_vars => RevokeInv'
<1> SUFFICES ASSUME TypeOK /\ LockInv /\ RevokeInv, [Next]_vars PROVE RevokeInv'
  OBVIOUS
<1> USE ThreadsAssumption DEF TypeOK, LockInv, RevokeInv, Threads, PcValues,
    CrossPcs, ControlPcs, tokenVars, gateVars, viewVars
<1>1. ASSUME NEW t \in Crossers, NEW k \in Kinds, Borrow(t, k) PROVE RevokeInv'
  BY <1>1 DEF Borrow, Goto
<1>2. ASSUME NEW t \in Crossers, CrossLock(t) PROVE RevokeInv'
  BY <1>2 DEF CrossLock, Goto
<1>3. ASSUME NEW t \in Crossers, CheckRevoked(t) PROVE RevokeInv'
  BY <1>3 DEF CheckRevoked, Goto, Release
<1>4. ASSUME NEW t \in Crossers, Upgrade(t) PROVE RevokeInv'
  BY <1>4 DEF Upgrade, Goto, Release
<1>5. ASSUME NEW t \in Crossers, CheckToken(t) PROVE RevokeInv'
  BY <1>5 DEF CheckToken, Goto, Release
<1>6. ASSUME NEW t \in Crossers, FinishClosure(t) PROVE RevokeInv'
  BY <1>6 DEF FinishClosure, Goto, Release
<1>7. ASSUME NEW t \in Controllers, StartCancel(t) PROVE RevokeInv'
  BY <1>7 DEF StartCancel, Goto
<1>8. ASSUME NEW t \in Threads, StartRevoke(t) PROVE RevokeInv'
  BY <1>8 DEF StartRevoke, Goto, Release
<1>9. ASSUME NEW t \in Threads, CancelSwap(t) PROVE RevokeInv'
  BY <1>9 DEF CancelSwap, Goto, AfterCancel
<1>10. ASSUME NEW t \in Threads, CancelTake(t) PROVE RevokeInv'
  BY <1>10 DEF CancelTake, Goto
<1>11. ASSUME NEW t \in Threads, NEW k \in Callbacks, RunCallback(t, k) PROVE RevokeInv'
  BY <1>11 DEF RunCallback, Goto
<1>12. ASSUME NEW t \in Threads, CallbacksDone(t) PROVE RevokeInv'
  BY <1>12 DEF CallbacksDone, Goto, AfterCancel
<1>13. ASSUME NEW t \in Threads, RevokeLock(t) PROVE RevokeInv'
  BY <1>13 DEF RevokeLock, Goto
<1>14. ASSUME NEW t \in Threads, RevokeStore(t) PROVE RevokeInv'
  BY <1>14 DEF RevokeStore, Goto
<1>15. ASSUME NEW k \in Callbacks, RegisterLock(k) PROVE RevokeInv'
  BY <1>15 DEF RegisterLock, regUnchanged
<1>16. ASSUME NEW k \in Callbacks, RegisterCheck(k) PROVE RevokeInv'
  BY <1>16 DEF RegisterCheck, regUnchanged
<1>17. ASSUME NEW k \in Callbacks, RegisterPush(k) PROVE RevokeInv'
  BY <1>17 DEF RegisterPush, regUnchanged
<1>18. ASSUME NEW k \in Callbacks, DropRegistration(k) PROVE RevokeInv'
  BY <1>18 DEF DropRegistration, regUnchanged
<1>19. CASE DropSession
  BY <1>19 DEF DropSession
<1>20. CASE ViewRevoked
  BY <1>20 DEF ViewRevoked, viewUnchanged
<1>21. CASE ViewSession
  BY <1>21 DEF ViewSession, viewUnchanged
<1>22. CASE ViewToken
  BY <1>22 DEF ViewToken, viewUnchanged
<1>23. CASE UNCHANGED vars
  BY <1>23 DEF vars
<1> QED
  BY <1>1, <1>2, <1>3, <1>4, <1>5, <1>6, <1>7, <1>8, <1>9, <1>10, <1>11, <1>12, <1>13,
     <1>14, <1>15, <1>16, <1>17, <1>18, <1>19, <1>20, <1>21, <1>22, <1>23
  DEF Next, CrosserStep, ControlStep, RegisterStep, ViewStep

\* Every step keeps the callbacks: one canceller at a time takes and runs
\* them, and none is attached behind its back.
LEMMA CallbackStep == TypeOK /\ LockInv /\ RevokeInv /\ CallbackInv /\ [Next]_vars => CallbackInv'
<1> SUFFICES ASSUME TypeOK /\ LockInv /\ RevokeInv /\ CallbackInv, [Next]_vars PROVE CallbackInv'
  OBVIOUS
<1> USE ThreadsAssumption DEF TypeOK, LockInv, RevokeInv, CallbackInv,
    NoLostCallback, CallbackAtMostOnce, Threads, PcValues, RegValues,
    CrossPcs, ControlPcs, tokenVars, gateVars, viewVars
<1>1. ASSUME NEW t \in Crossers, NEW k \in Kinds, Borrow(t, k) PROVE CallbackInv'
  BY <1>1 DEF Borrow, Goto
<1>2. ASSUME NEW t \in Crossers, CrossLock(t) PROVE CallbackInv'
  BY <1>2 DEF CrossLock, Goto
<1>3. ASSUME NEW t \in Crossers, CheckRevoked(t) PROVE CallbackInv'
  BY <1>3 DEF CheckRevoked, Goto, Release
<1>4. ASSUME NEW t \in Crossers, Upgrade(t) PROVE CallbackInv'
  BY <1>4 DEF Upgrade, Goto, Release
<1>5. ASSUME NEW t \in Crossers, CheckToken(t) PROVE CallbackInv'
  BY <1>5 DEF CheckToken, Goto, Release
<1>6. ASSUME NEW t \in Crossers, FinishClosure(t) PROVE CallbackInv'
  BY <1>6 DEF FinishClosure, Goto, Release
<1>7. ASSUME NEW t \in Controllers, StartCancel(t) PROVE CallbackInv'
  BY <1>7 DEF StartCancel, Goto
<1>8. ASSUME NEW t \in Threads, StartRevoke(t) PROVE CallbackInv'
  BY <1>8 DEF StartRevoke, Goto, Release
<1>9. ASSUME NEW t \in Threads, CancelSwap(t) PROVE CallbackInv'
  BY <1>9 DEF CancelSwap, Goto, AfterCancel
<1>10. ASSUME NEW t \in Threads, CancelTake(t) PROVE CallbackInv'
  BY <1>10 DEF CancelTake, Goto
<1>11. ASSUME NEW t \in Threads, NEW k \in Callbacks, RunCallback(t, k) PROVE CallbackInv'
  BY <1>11 DEF RunCallback, Goto
<1>12. ASSUME NEW t \in Threads, CallbacksDone(t) PROVE CallbackInv'
  BY <1>12 DEF CallbacksDone, Goto, AfterCancel
<1>13. ASSUME NEW t \in Threads, RevokeLock(t) PROVE CallbackInv'
  BY <1>13 DEF RevokeLock, Goto
<1>14. ASSUME NEW t \in Threads, RevokeStore(t) PROVE CallbackInv'
  BY <1>14 DEF RevokeStore, Goto
<1>15. ASSUME NEW k \in Callbacks, RegisterLock(k) PROVE CallbackInv'
  BY <1>15 DEF RegisterLock, regUnchanged
<1>16. ASSUME NEW k \in Callbacks, RegisterCheck(k) PROVE CallbackInv'
  BY <1>16 DEF RegisterCheck, regUnchanged
<1>17. ASSUME NEW k \in Callbacks, RegisterPush(k) PROVE CallbackInv'
  BY <1>17 DEF RegisterPush, regUnchanged
<1>18. ASSUME NEW k \in Callbacks, DropRegistration(k) PROVE CallbackInv'
  BY <1>18 DEF DropRegistration, regUnchanged
<1>19. CASE DropSession
  BY <1>19 DEF DropSession
<1>20. CASE ViewRevoked
  BY <1>20 DEF ViewRevoked, viewUnchanged
<1>21. CASE ViewSession
  BY <1>21 DEF ViewSession, viewUnchanged
<1>22. CASE ViewToken
  BY <1>22 DEF ViewToken, viewUnchanged
<1>23. CASE UNCHANGED vars
  BY <1>23 DEF vars
<1> QED
  BY <1>1, <1>2, <1>3, <1>4, <1>5, <1>6, <1>7, <1>8, <1>9, <1>10, <1>11, <1>12, <1>13,
     <1>14, <1>15, <1>16, <1>17, <1>18, <1>19, <1>20, <1>21, <1>22, <1>23
  DEF Next, CrosserStep, ControlStep, RegisterStep, ViewStep

\* GateInv is an invariant: the lock, revocation and callback parts need the
\* parts before them, and hold together.
THEOREM GateInvariant == Spec => []GateInv
<1>1. Init => GateInv
  <2> SUFFICES ASSUME Init PROVE GateInv
    OBVIOUS
  <2> USE ThreadsAssumption DEF Init, Threads
  <2>1. TypeOK
    BY DEF TypeOK, PcValues, RegValues, GateStates, Kinds
  <2>2. LockInv
    BY DEF LockInv, CrossPcs, ControlPcs, Kinds
  <2>3. RevokeInv
    BY DEF RevokeInv
  <2>4. CallbackInv
    BY DEF CallbackInv, NoLostCallback, CallbackAtMostOnce
  <2> QED
    BY <2>1, <2>2, <2>3, <2>4 DEF GateInv
<1>2. GateInv /\ [Next]_vars => GateInv'
  BY TypeStep, LockStep, RevokeStep, CallbackStep DEF GateInv
<1> QED
  BY <1>1, <1>2, PTL DEF Spec

\* The gate's state is always well typed.
THEOREM GateTypeCorrect == Spec => []TypeOK
<1>1. GateInv => TypeOK
  BY DEF GateInv
<1> QED
  BY <1>1, GateInvariant, PTL

\* Once any `revoke` has returned, no crossing is in flight, for any number of
\* worker threads and controllers (CallControls::revoke).
THEOREM RevocationIsFinal == Spec => []RevokeIsFinal
<1>1. GateInv => RevokeIsFinal
  BY DEF GateInv, RevokeInv, RevokeIsFinal
<1> QED
  BY <1>1, GateInvariant, PTL

\* No thread ever waits for the crossing lock it holds itself
\* (GateInner::forbid_reentry).
THEOREM NeverSelfWaits == Spec => []NoSelfWait
<1>1. GateInv => NoSelfWait
  BY DEF GateInv, LockInv, NoSelfWait
<1> QED
  BY <1>1, GateInvariant, PTL

\* A callback runs at most once and never after a refusal, and none is left
\* behind on a cancelled token (TokenInner::cancel, on_cancel).
THEOREM CallbacksSafe == Spec => [](CallbackAtMostOnce /\ NoLostCallback)
<1>1. GateInv => CallbackAtMostOnce /\ NoLostCallback
  BY DEF GateInv, CallbackInv
<1> QED
  BY <1>1, GateInvariant, PTL

\* The gate's safety invariants together, for any number of threads and
\* callbacks: OperationGate::cross, CallControls::revoke and the token's
\* callbacks.
THEOREM GateIsSafe == Spec => []GateSafe
<1>1. RevokeIsFinal /\ NoSelfWait /\ CallbackAtMostOnce /\ NoLostCallback
        => GateSafe
  BY DEF GateSafe
<1> QED
  BY <1>1, RevocationIsFinal, NeverSelfWaits, CallbacksSafe, PTL

-----------------------------------------------------------------------------
(* The refinement. A closure is inside the contract's gate while its thread  *)
(* is at "inside", and the contract's session has ended when the strong      *)
(* count is zero.                                                            *)

\* A crosser that lets everything go leaves the contract's gate, if it was in
\* it, and ends the session, if it held the last reference.
LEMMA ReleaseImplements ==
  ASSUME GateInv, NEW t \in Crossers, Release(t),
         pc[t] \in {"check", "upgrade", "token", "inside"}
  PROVE  [Contract!ContractNext]_(Contract!contractVars)
<1> USE ThreadsAssumption DEF GateInv, TypeOK, LockInv, Threads, PcValues,
        Release, Goto, SessionEnded, tokenVars, viewVars
<1>1. \A u \in Crossers : pc[u] = "inside" => u = t
  OBVIOUS
<1>2. Inside' = {}
  BY <1>1 DEF Inside
<1>3. CASE pc[t] = "inside"
  <2>1. Inside = {<<t, kind[t]>>}
    BY <1>1, <1>3 DEF Inside
  <2>2. kind[t] \in Kinds
    BY <1>3
  <2>3. Contract!Leave(t, kind[t])
    BY <1>2, <2>1 DEF Contract!Leave
  <2> QED
    BY <2>2, <2>3 DEF Contract!ContractNext
<1>4. CASE pc[t] # "inside"
  <2>1. Inside = {}
    BY <1>1, <1>4 DEF Inside
  <2>2. CASE SessionEnded' /\ ~SessionEnded
    BY <1>2, <2>1, <2>2 DEF Contract!EndSession, Contract!ContractNext
  <2>3. CASE ~(SessionEnded' /\ ~SessionEnded)
    BY <1>2, <2>1, <2>3 DEF Contract!contractVars
  <2> QED
    BY <2>2, <2>3
<1> QED
  BY <1>3, <1>4

\* Every step of the gate is a step of the contract, or invisible to it.
LEMMA StepImplements ==
  ASSUME GateInv, [Next]_vars
  PROVE  [Contract!ContractNext]_(Contract!contractVars)
<1> USE ThreadsAssumption DEF GateInv, TypeOK, LockInv, RevokeInv, Threads,
        PcValues, ControlPcs, CrossPcs, SessionEnded, tokenVars, gateVars,
        viewVars, Goto
<1>1. ASSUME NEW t \in Crossers, NEW k \in Kinds, Borrow(t, k)
      PROVE  UNCHANGED Contract!contractVars
  BY <1>1 DEF Borrow, Inside, Contract!contractVars
<1>2. ASSUME NEW t \in Crossers, CrossLock(t)
      PROVE  UNCHANGED Contract!contractVars
  BY <1>2 DEF CrossLock, Inside, Contract!contractVars
<1>3. ASSUME NEW t \in Crossers, CheckRevoked(t)
      PROVE  [Contract!ContractNext]_(Contract!contractVars)
  <2>1. CASE Release(t)
    BY <1>3, <2>1, ReleaseImplements DEF CheckRevoked
  <2>2. CASE ~Release(t)
    BY <1>3, <2>2 DEF CheckRevoked, Inside, Contract!contractVars
  <2> QED
    BY <2>1, <2>2
<1>4. ASSUME NEW t \in Crossers, Upgrade(t)
      PROVE  [Contract!ContractNext]_(Contract!contractVars)
  <2>1. CASE Release(t)
    BY <1>4, <2>1, ReleaseImplements DEF Upgrade
  <2>2. CASE ~Release(t)
    BY <1>4, <2>2 DEF Upgrade, Inside, Contract!contractVars
  <2> QED
    BY <2>1, <2>2
<1>5. ASSUME NEW t \in Crossers, CheckToken(t)
      PROVE  [Contract!ContractNext]_(Contract!contractVars)
  <2>1. CASE Release(t)
    BY <1>5, <2>1, ReleaseImplements DEF CheckToken
  <2>2. CASE ~Release(t)
    <3>1. Inside = {}
      BY <1>5 DEF CheckToken, Inside
    <3>2. Inside' = {<<t, kind[t]>>}
      BY <1>5, <2>2 DEF CheckToken, Inside
    <3>3. ~revoked /\ ~SessionEnded /\ kind[t] \in Kinds
      BY <1>5 DEF CheckToken
    <3>4. Contract!Enter(t, kind[t])
      BY <1>5, <2>2, <3>1, <3>2, <3>3 DEF CheckToken, Contract!Enter
    <3> QED
      BY <3>3, <3>4 DEF Contract!ContractNext
  <2> QED
    BY <2>1, <2>2
<1>6. ASSUME NEW t \in Crossers, FinishClosure(t)
      PROVE  [Contract!ContractNext]_(Contract!contractVars)
  BY <1>6, ReleaseImplements DEF FinishClosure
<1>7. ASSUME NEW t \in Controllers, StartCancel(t)
      PROVE  UNCHANGED Contract!contractVars
  BY <1>7 DEF StartCancel, Inside, Contract!contractVars
<1>8. ASSUME NEW t \in Threads, StartRevoke(t)
      PROVE  [Contract!ContractNext]_(Contract!contractVars)
  <2>1. CASE t \in Controllers
    <3>1. crosser # t
      BY <2>1
    <3> QED
      BY <1>8, <2>1, <3>1 DEF StartRevoke, Inside, Contract!contractVars
  <2>2. CASE t \in Crossers
    BY <1>8, <2>2, ReleaseImplements DEF StartRevoke
  <2> QED
    BY <2>1, <2>2
<1>9. ASSUME NEW t \in Threads, CancelSwap(t)
      PROVE  [Contract!ContractNext]_(Contract!contractVars)
  <2>1. Inside' = Inside
    BY <1>9 DEF CancelSwap, AfterCancel, Inside
  <2>2. Contract!Cancel
    BY <1>9, <2>1 DEF CancelSwap, Contract!Cancel
  <2> QED
    BY <2>2 DEF Contract!ContractNext
<1>10. ASSUME NEW t \in Threads, CancelTake(t)
       PROVE  UNCHANGED Contract!contractVars
  BY <1>10 DEF CancelTake, Inside, Contract!contractVars
<1>11. ASSUME NEW t \in Threads, NEW k \in Callbacks, RunCallback(t, k)
       PROVE  UNCHANGED Contract!contractVars
  BY <1>11 DEF RunCallback, Inside, Contract!contractVars
<1>12. ASSUME NEW t \in Threads, CallbacksDone(t)
       PROVE  UNCHANGED Contract!contractVars
  BY <1>12 DEF CallbacksDone, AfterCancel, Inside, Contract!contractVars
<1>13. ASSUME NEW t \in Threads, RevokeLock(t)
       PROVE  UNCHANGED Contract!contractVars
  BY <1>13 DEF RevokeLock, Inside, Contract!contractVars
<1>14. ASSUME NEW t \in Threads, RevokeStore(t)
       PROVE  [Contract!ContractNext]_(Contract!contractVars)
  <2>1. Inside = {} /\ Inside' = {}
    BY <1>14 DEF RevokeStore, Inside
  <2>2. t \in Controllers /\ cancelled
    BY <1>14 DEF RevokeStore
  <2>3. Contract!Revoke
    BY <1>14, <2>1, <2>2 DEF RevokeStore, Contract!Revoke
  <2> QED
    BY <2>3 DEF Contract!ContractNext
<1>15. ASSUME NEW k \in Callbacks,
              RegisterLock(k) \/ RegisterStep(k) \/ DropRegistration(k)
       PROVE  UNCHANGED Contract!contractVars
  BY <1>15 DEF RegisterLock, RegisterStep, RegisterCheck, RegisterPush,
     DropRegistration, regUnchanged, Inside, Contract!contractVars
<1>16. CASE DropSession
  <2>1. Inside' = Inside
    BY <1>16 DEF DropSession, Inside
  <2>2. CASE SessionEnded'
    <3>1. Inside = {}
      BY <1>16, <2>2 DEF DropSession, Inside
    <3> QED
      BY <1>16, <2>1, <2>2, <3>1
      DEF DropSession, Contract!EndSession, Contract!ContractNext
  <2>3. CASE ~SessionEnded'
    BY <1>16, <2>1, <2>3 DEF DropSession, Contract!contractVars
  <2> QED
    BY <2>2, <2>3
<1>17. CASE ViewStep \/ UNCHANGED vars
  BY <1>17 DEF ViewStep, ViewRevoked, ViewSession, ViewToken, viewUnchanged,
     vars, Inside, Contract!contractVars
<1> QED
  BY <1>1, <1>2, <1>3, <1>4, <1>5, <1>6, <1>7, <1>8, <1>9, <1>10, <1>11,
     <1>12, <1>13, <1>14, <1>15, <1>16, <1>17
  DEF Next, CrosserStep, ControlStep

\* The gate implements its contract, for any number of worker threads,
\* controllers and callbacks: only a live gate lets effects through, a
\* cancelled one reports only, a revoked one or one whose session has ended
\* nothing, and a revocation waits for the closure in flight.
THEOREM GateRefinement == Spec => GateImplementsContract
<1>1. Init => Contract!ContractInit
  BY DEF Init, Contract!ContractInit, SessionEnded, Inside, Threads
<1>2. GateInv /\ [Next]_vars => [Contract!ContractNext]_(Contract!contractVars)
  BY StepImplements
<1> QED
  BY <1>1, <1>2, GateInvariant, PTL
  DEF Spec, GateImplementsContract, Contract!ContractSpec

-----------------------------------------------------------------------------
(* What a viewer is shown. *)

\* What the viewer last returned still stands, and how far the call it is in
\* can be from it: a view that reads past the flag after it showed a revoked
\* gate was shown an ended session, which the next read finds ended again.
ViewInv ==
  /\ seen = "Cancelled" => cancelled
  /\ seen = "Revoked" => revoked \/ SessionEnded
  /\ viewPc = "session" /\ seen = "Revoked" => SessionEnded
  /\ viewPc = "token" => seen # "Revoked"

\* A step of anyone but the viewer: the three things `state()` reads only
\* ever go one way, and the viewer's own state is left alone.
OneWay ==
  /\ cancelled => cancelled'
  /\ revoked => revoked'
  /\ SessionEnded => SessionEnded'
  /\ UNCHANGED viewVars

\* Every step outside `state()` moves its flags one way: nothing clears
\* `cancelled` or `revoked`, and an ended session has nobody to upgrade from.
LEMMA FlagsOneWay == TypeOK /\ [Next]_vars => OneWay \/ ViewStep
<1> SUFFICES ASSUME TypeOK, [Next]_vars PROVE OneWay \/ ViewStep
  OBVIOUS
<1> USE DEF TypeOK, OneWay, SessionEnded, tokenVars, gateVars, viewVars
<1>1. ASSUME NEW t \in Crossers, NEW k \in Kinds, Borrow(t, k) PROVE OneWay
  BY <1>1 DEF Borrow
<1>2. ASSUME NEW t \in Crossers, CrossLock(t) PROVE OneWay
  BY <1>2 DEF CrossLock
<1>3. ASSUME NEW t \in Crossers, CheckRevoked(t) PROVE OneWay
  BY <1>3 DEF CheckRevoked, Release
<1>4. ASSUME NEW t \in Crossers, Upgrade(t) PROVE OneWay
  BY <1>4 DEF Upgrade, Release
<1>5. ASSUME NEW t \in Crossers, CheckToken(t) PROVE OneWay
  BY <1>5 DEF CheckToken, Release
<1>6. ASSUME NEW t \in Crossers, FinishClosure(t) PROVE OneWay
  BY <1>6 DEF FinishClosure, Release
<1>7. ASSUME NEW t \in Controllers, StartCancel(t) PROVE OneWay
  BY <1>7 DEF StartCancel
<1>8. ASSUME NEW t \in Threads, StartRevoke(t) PROVE OneWay
  BY <1>8 DEF StartRevoke, Release
<1>9. ASSUME NEW t \in Threads, CancelSwap(t) PROVE OneWay
  BY <1>9 DEF CancelSwap
<1>10. ASSUME NEW t \in Threads, CancelTake(t) PROVE OneWay
  BY <1>10 DEF CancelTake
<1>11. ASSUME NEW t \in Threads, NEW k \in Callbacks, RunCallback(t, k) PROVE OneWay
  BY <1>11 DEF RunCallback
<1>12. ASSUME NEW t \in Threads, CallbacksDone(t) PROVE OneWay
  BY <1>12 DEF CallbacksDone
<1>13. ASSUME NEW t \in Threads, RevokeLock(t) PROVE OneWay
  BY <1>13 DEF RevokeLock
<1>14. ASSUME NEW t \in Threads, RevokeStore(t) PROVE OneWay
  BY <1>14 DEF RevokeStore
<1>15. ASSUME NEW k \in Callbacks, RegisterLock(k) PROVE OneWay
  BY <1>15 DEF RegisterLock, regUnchanged
<1>16. ASSUME NEW k \in Callbacks, RegisterCheck(k) PROVE OneWay
  BY <1>16 DEF RegisterCheck, regUnchanged
<1>17. ASSUME NEW k \in Callbacks, RegisterPush(k) PROVE OneWay
  BY <1>17 DEF RegisterPush, regUnchanged
<1>18. ASSUME NEW k \in Callbacks, DropRegistration(k) PROVE OneWay
  BY <1>18 DEF DropRegistration, regUnchanged
<1>19. CASE DropSession
  BY <1>19 DEF DropSession
<1>20. CASE UNCHANGED vars
  BY <1>20 DEF vars
<1> QED
  BY <1>1, <1>2, <1>3, <1>4, <1>5, <1>6, <1>7, <1>8, <1>9, <1>10, <1>11, <1>12, <1>13,
     <1>14, <1>15, <1>16, <1>17, <1>18, <1>19, <1>20
  DEF Next, CrosserStep, ControlStep, RegisterStep

\* Every step keeps ViewInv, and no step shows the viewer an earlier state.
LEMMA ViewStepKeeps ==
  TypeOK /\ ViewInv /\ [Next]_vars => ViewInv' /\ Rank[seen'] >= Rank[seen]
<1> SUFFICES ASSUME TypeOK, ViewInv, [Next]_vars
             PROVE  ViewInv' /\ Rank[seen'] >= Rank[seen]
  OBVIOUS
<1>1. seen \in GateStates
  BY DEF TypeOK
<1>2. CASE OneWay
  BY <1>1, <1>2 DEF OneWay, ViewInv, viewVars, Rank, GateStates
<1>3. ASSUME ViewStep PROVE UNCHANGED <<cancelled, revoked, SessionEnded>>
  BY <1>3 DEF ViewStep, ViewRevoked, ViewSession, ViewToken, viewUnchanged,
     tokenVars, gateVars, SessionEnded
<1>4. CASE ViewRevoked
  BY <1>1, <1>3, <1>4 DEF ViewRevoked, ViewStep, ViewInv, Rank, GateStates
<1>5. CASE ViewSession
  BY <1>1, <1>3, <1>5 DEF ViewSession, ViewStep, ViewInv, Rank, GateStates
<1>6. CASE ViewToken
  BY <1>1, <1>3, <1>6 DEF ViewToken, ViewStep, ViewInv, Rank, GateStates
<1> QED
  BY <1>2, <1>4, <1>5, <1>6, FlagsOneWay DEF ViewStep

\* The lock-free `state()` never goes back: a viewer that was shown a
\* cancelled gate is not shown a live one again, and one that was shown a
\* revoked gate sees it revoked for ever, whatever the threads and the
\* session's owner do between its three reads.
THEOREM ViewNeverGoesBack == Spec => ViewMonotone
<1>1. Init => ViewInv
  BY DEF Init, ViewInv
<1>2. TypeOK /\ ViewInv /\ [Next]_vars => ViewInv'
  BY ViewStepKeeps
<1>3. TypeOK /\ ViewInv /\ [Next]_vars => [Rank[seen'] >= Rank[seen]]_vars
  BY ViewStepKeeps
<1> QED
  BY <1>1, <1>2, <1>3, GateTypeCorrect, PTL DEF Spec, ViewMonotone
=============================================================================
