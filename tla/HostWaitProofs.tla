--------------------------- MODULE HostWaitProofs ---------------------------
(***************************************************************************)
(* Proofs about the parts of the host whose threads sleep on a condition   *)
(* variable or on a waker: the member locks, the supervisor and the shared *)
(* reservations. In each, what matters is that nobody sleeps on once what  *)
(* it waits for is there, and each has its own inductive invariant.        *)
(***************************************************************************)
EXTENDS MemberLocks, Supervisor, Reservations, FiniteSetTheorems,
        WellFoundedInduction, TLAPS

-----------------------------------------------------------------------------
(* Member locks.                                                           *)

TakerStates == {"before", "keying", "locking", "looking", "looked", "parked",
                "granted", "holding", "refusing", "refused", "notifying",
                "released"}

\* The states in which a call is under way, its callback registered.
InCall == {"keying", "locking", "looking", "looked", "parked", "granted",
           "refusing"}

\* The types, with those of the wishes.
LocksTypeInv ==
  /\ MemberLocksTypeOK
  /\ want \in [Taker -> [root : Spelling \cup {NoKey},
                         member : Member \cup {NoKey}]]

\* Who has the manager's mutex between two steps.
MutexInv ==
  \A p \in Taker : mutex = p <=> taker[p] \in {"looking", "looked"}

\* The members held are those of the live guards, and no two guards share a
\* key, whatever the keying.
KeysInv ==
  /\ heldKeys = {KeyOf(want[p]) : p \in Guards}
  /\ \A p, q \in Guards : KeyOf(want[p]) = KeyOf(want[q]) => p = q

\* Where a taker's callback is. The fourth part is what the look at the
\* token establishes: between it and the wait, the callback of a token
\* cancelled meanwhile cannot have passed the mutex.
CallbackInv ==
  /\ attached \cap (calling \cup passed) = {}
  /\ \A p \in Taker : taker[p] = "before" => p \notin attached \cup calling \cup passed
  /\ \A p \in calling \cup passed : IsCancelled(p)
  /\ \A p \in Taker : taker[p] = "looked" /\ IsCancelled(p)
       => p \in attached \cup (calling \ passed)
  /\ \A p \in Taker : taker[p] \in InCall /\ ~IsCancelled(p) /\ TokenOf[p] # NoToken
       => p \in attached

LocksInv == LocksTypeInv /\ MutexInv /\ KeysInv /\ CallbackInv /\ NoForgottenWaiter

\* Every step keeps the types.
LEMMA LocksTypeStep == LocksTypeInv /\ [MemberLocksNext]_memberLocksVars => LocksTypeInv'
<1> SUFFICES ASSUME LocksTypeInv, [MemberLocksNext]_memberLocksVars PROVE LocksTypeInv'
  OBVIOUS
<1> USE MemberLocksAssumption DEF LocksTypeInv, MemberLocksTypeOK
<1>1. ASSUME NEW p \in Taker, NEW root \in Spelling, NEW member \in Member,
             Call(p, root, member)
      PROVE LocksTypeInv'
  BY <1>1 DEF Call
<1>2. ASSUME NEW p \in Taker, Key(p) PROVE LocksTypeInv'
  BY <1>2 DEF Key
<1>3. ASSUME NEW p \in Taker, WakeStray(p) PROVE LocksTypeInv'
  BY <1>3 DEF WakeStray
<1>4. ASSUME NEW p \in Taker, Lock(p) PROVE LocksTypeInv'
  BY <1>4 DEF Lock
<1>5. ASSUME NEW p \in Taker, Look(p) PROVE LocksTypeInv'
  BY <1>5 DEF Look
<1>6. ASSUME NEW p \in Taker, Insert(p) PROVE LocksTypeInv'
  BY <1>6 DEF Insert
<1>7. ASSUME NEW p \in Taker, Park(p) PROVE LocksTypeInv'
  BY <1>7 DEF Park
<1>8. ASSUME NEW p \in Taker, Return(p) PROVE LocksTypeInv'
  BY <1>8 DEF Return
<1>9. ASSUME NEW p \in Taker, Release(p) PROVE LocksTypeInv'
  BY <1>9 DEF Release
<1>10. ASSUME NEW p \in Taker, ReleaseNotifies(p) PROVE LocksTypeInv'
  BY <1>10 DEF ReleaseNotifies, Parked
<1>11. ASSUME NEW p \in Taker, WakeLocks(p) PROVE LocksTypeInv'
  BY <1>11 DEF WakeLocks
<1>12. ASSUME NEW p \in Taker, WakeNotifies(p) PROVE LocksTypeInv'
  BY <1>12 DEF WakeNotifies, Parked
<1>13. ASSUME NEW t \in Token, Cancel(t) PROVE LocksTypeInv'
  BY <1>13 DEF Cancel
<1>14. ASSUME NEW t \in Token, TakeCallbacks(t) PROVE LocksTypeInv'
  BY <1>14 DEF TakeCallbacks
<1>15. CASE UNCHANGED memberLocksVars
  BY <1>15 DEF memberLocksVars
<1> QED
  BY <1>1, <1>2, <1>3, <1>4, <1>5, <1>6, <1>7, <1>8, <1>9, <1>10, <1>11,
     <1>12, <1>13, <1>14, <1>15
  DEF MemberLocksNext

\* Every step keeps the mutex with the one taker that looks.
LEMMA MutexStep == LocksTypeInv /\ MutexInv /\ [MemberLocksNext]_memberLocksVars => MutexInv'
<1> SUFFICES ASSUME LocksTypeInv /\ MutexInv, [MemberLocksNext]_memberLocksVars PROVE MutexInv'
  OBVIOUS
<1> USE MemberLocksAssumption DEF LocksTypeInv, MemberLocksTypeOK, MutexInv
<1>1. ASSUME NEW p \in Taker, NEW root \in Spelling, NEW member \in Member,
             Call(p, root, member)
      PROVE MutexInv'
  BY <1>1 DEF Call
<1>2. ASSUME NEW p \in Taker, Key(p) PROVE MutexInv'
  BY <1>2 DEF Key
<1>3. ASSUME NEW p \in Taker, WakeStray(p) PROVE MutexInv'
  BY <1>3 DEF WakeStray
<1>4. ASSUME NEW p \in Taker, Lock(p) PROVE MutexInv'
  BY <1>4 DEF Lock
<1>5. ASSUME NEW p \in Taker, Look(p) PROVE MutexInv'
  BY <1>5 DEF Look
<1>6. ASSUME NEW p \in Taker, Insert(p) PROVE MutexInv'
  BY <1>6 DEF Insert
<1>7. ASSUME NEW p \in Taker, Park(p) PROVE MutexInv'
  BY <1>7 DEF Park
<1>8. ASSUME NEW p \in Taker, Return(p) PROVE MutexInv'
  BY <1>8 DEF Return
<1>9. ASSUME NEW p \in Taker, Release(p) PROVE MutexInv'
  BY <1>9 DEF Release
<1>10. ASSUME NEW p \in Taker, ReleaseNotifies(p) PROVE MutexInv'
  BY <1>10 DEF ReleaseNotifies
<1>11. ASSUME NEW p \in Taker, WakeLocks(p) PROVE MutexInv'
  BY <1>11 DEF WakeLocks
<1>12. ASSUME NEW p \in Taker, WakeNotifies(p) PROVE MutexInv'
  BY <1>12 DEF WakeNotifies
<1>13. ASSUME NEW t \in Token, Cancel(t) PROVE MutexInv'
  BY <1>13 DEF Cancel
<1>14. ASSUME NEW t \in Token, TakeCallbacks(t) PROVE MutexInv'
  BY <1>14 DEF TakeCallbacks
<1>15. CASE UNCHANGED memberLocksVars
  BY <1>15 DEF memberLocksVars
<1> QED
  BY <1>1, <1>2, <1>3, <1>4, <1>5, <1>6, <1>7, <1>8, <1>9, <1>10, <1>11,
     <1>12, <1>13, <1>14, <1>15
  DEF MemberLocksNext

\* Every step keeps the keys held those of the live guards, all different: a
\* key is inserted only when no guard has it and leaves with its guard.
LEMMA KeysStep == LocksTypeInv /\ KeysInv /\ [MemberLocksNext]_memberLocksVars => KeysInv'
<1> SUFFICES ASSUME LocksTypeInv /\ KeysInv, [MemberLocksNext]_memberLocksVars PROVE KeysInv'
  OBVIOUS
<1> USE MemberLocksAssumption DEF LocksTypeInv, MemberLocksTypeOK, KeysInv, Guards
<1>1. ASSUME NEW p \in Taker, NEW root \in Spelling, NEW member \in Member,
             Call(p, root, member)
      PROVE KeysInv'
  BY <1>1 DEF Call
<1>2. ASSUME NEW p \in Taker, Key(p) PROVE KeysInv'
  BY <1>2 DEF Key
<1>3. ASSUME NEW p \in Taker, WakeStray(p) PROVE KeysInv'
  BY <1>3 DEF WakeStray
<1>4. ASSUME NEW p \in Taker, Lock(p) PROVE KeysInv'
  BY <1>4 DEF Lock
<1>5. ASSUME NEW p \in Taker, Look(p) PROVE KeysInv'
  BY <1>5 DEF Look
<1>6. ASSUME NEW p \in Taker, Insert(p) PROVE KeysInv'
  BY <1>6 DEF Insert
<1>7. ASSUME NEW p \in Taker, Park(p) PROVE KeysInv'
  BY <1>7 DEF Park
<1>8. ASSUME NEW p \in Taker, Return(p) PROVE KeysInv'
  BY <1>8 DEF Return
<1>9. ASSUME NEW p \in Taker, Release(p) PROVE KeysInv'
  BY <1>9 DEF Release
<1>10. ASSUME NEW p \in Taker, ReleaseNotifies(p) PROVE KeysInv'
  BY <1>10 DEF ReleaseNotifies
<1>11. ASSUME NEW p \in Taker, WakeLocks(p) PROVE KeysInv'
  BY <1>11 DEF WakeLocks
<1>12. ASSUME NEW p \in Taker, WakeNotifies(p) PROVE KeysInv'
  BY <1>12 DEF WakeNotifies
<1>13. ASSUME NEW t \in Token, Cancel(t) PROVE KeysInv'
  BY <1>13 DEF Cancel
<1>14. ASSUME NEW t \in Token, TakeCallbacks(t) PROVE KeysInv'
  BY <1>14 DEF TakeCallbacks
<1>15. CASE UNCHANGED memberLocksVars
  BY <1>15 DEF memberLocksVars
<1> QED
  BY <1>1, <1>2, <1>3, <1>4, <1>5, <1>6, <1>7, <1>8, <1>9, <1>10, <1>11,
     <1>12, <1>13, <1>14, <1>15
  DEF MemberLocksNext

\* Every step keeps the callbacks where a cancellation finds them. The mutex
\* that a taker holds from its look to its wait keeps its callback from passing.
LEMMA CallbackStep ==
  LocksTypeInv /\ MutexInv /\ CallbackInv /\ [MemberLocksNext]_memberLocksVars
      => CallbackInv'
<1> SUFFICES ASSUME LocksTypeInv /\ MutexInv /\ CallbackInv,
                    [MemberLocksNext]_memberLocksVars
             PROVE CallbackInv'
  OBVIOUS
<1> USE MemberLocksAssumption
      DEF LocksTypeInv, MemberLocksTypeOK, MutexInv, CallbackInv, IsCancelled, InCall
<1>1. ASSUME NEW p \in Taker, NEW root \in Spelling, NEW member \in Member,
             Call(p, root, member)
      PROVE CallbackInv'
  BY <1>1 DEF Call
<1>2. ASSUME NEW p \in Taker, Key(p) PROVE CallbackInv'
  BY <1>2 DEF Key
<1>3. ASSUME NEW p \in Taker, WakeStray(p) PROVE CallbackInv'
  BY <1>3 DEF WakeStray
<1>4. ASSUME NEW p \in Taker, Lock(p) PROVE CallbackInv'
  BY <1>4 DEF Lock
<1>5. ASSUME NEW p \in Taker, Look(p) PROVE CallbackInv'
  BY <1>5 DEF Look
<1>6. ASSUME NEW p \in Taker, Insert(p) PROVE CallbackInv'
  BY <1>6 DEF Insert
<1>7. ASSUME NEW p \in Taker, Park(p) PROVE CallbackInv'
  BY <1>7 DEF Park
<1>8. ASSUME NEW p \in Taker, Return(p) PROVE CallbackInv'
  BY <1>8 DEF Return
<1>9. ASSUME NEW p \in Taker, Release(p) PROVE CallbackInv'
  BY <1>9 DEF Release
<1>10. ASSUME NEW p \in Taker, ReleaseNotifies(p) PROVE CallbackInv'
  BY <1>10 DEF ReleaseNotifies
<1>11. ASSUME NEW p \in Taker, WakeLocks(p) PROVE CallbackInv'
  BY <1>11 DEF WakeLocks
<1>12. ASSUME NEW p \in Taker, WakeNotifies(p) PROVE CallbackInv'
  BY <1>12 DEF WakeNotifies
<1>13. ASSUME NEW t \in Token, Cancel(t) PROVE CallbackInv'
  BY <1>13 DEF Cancel
<1>14. ASSUME NEW t \in Token, TakeCallbacks(t) PROVE CallbackInv'
  BY <1>14 DEF TakeCallbacks
<1>15. CASE UNCHANGED memberLocksVars
  BY <1>15 DEF memberLocksVars
<1> QED
  BY <1>1, <1>2, <1>3, <1>4, <1>5, <1>6, <1>7, <1>8, <1>9, <1>10, <1>11,
     <1>12, <1>13, <1>14, <1>15
  DEF MemberLocksNext

\* Every step keeps every sleeper waited for: by a holder, by a releaser about
\* to notify, and by its callback once its token is cancelled.
LEMMA WaiterStep == LocksInv /\ [MemberLocksNext]_memberLocksVars => NoForgottenWaiter'
<1> SUFFICES ASSUME LocksInv, [MemberLocksNext]_memberLocksVars PROVE NoForgottenWaiter'
  OBVIOUS
<1> USE MemberLocksAssumption
      DEF LocksInv, LocksTypeInv, MemberLocksTypeOK, MutexInv, CallbackInv,
          NoForgottenWaiter, IsCancelled, InCall, Parked
<1>1. ASSUME NEW p \in Taker, NEW root \in Spelling, NEW member \in Member,
             Call(p, root, member)
      PROVE NoForgottenWaiter'
  BY <1>1 DEF Call
<1>2. ASSUME NEW p \in Taker, Key(p) PROVE NoForgottenWaiter'
  BY <1>2 DEF Key
<1>3. ASSUME NEW p \in Taker, WakeStray(p) PROVE NoForgottenWaiter'
  BY <1>3 DEF WakeStray
<1>4. ASSUME NEW p \in Taker, Lock(p) PROVE NoForgottenWaiter'
  BY <1>4 DEF Lock
<1>5. ASSUME NEW p \in Taker, Look(p) PROVE NoForgottenWaiter'
  BY <1>5 DEF Look
<1>6. ASSUME NEW p \in Taker, Insert(p) PROVE NoForgottenWaiter'
  BY <1>6 DEF Insert
<1>7. ASSUME NEW p \in Taker, Park(p) PROVE NoForgottenWaiter'
  BY <1>7 DEF Park
<1>8. ASSUME NEW p \in Taker, Return(p) PROVE NoForgottenWaiter'
  BY <1>8 DEF Return
<1>9. ASSUME NEW p \in Taker, Release(p) PROVE NoForgottenWaiter'
  BY <1>9 DEF Release
<1>10. ASSUME NEW p \in Taker, ReleaseNotifies(p) PROVE NoForgottenWaiter'
  BY <1>10 DEF ReleaseNotifies
<1>11. ASSUME NEW p \in Taker, WakeLocks(p) PROVE NoForgottenWaiter'
  BY <1>11 DEF WakeLocks
<1>12. ASSUME NEW p \in Taker, WakeNotifies(p) PROVE NoForgottenWaiter'
  BY <1>12 DEF WakeNotifies
<1>13. ASSUME NEW t \in Token, Cancel(t) PROVE NoForgottenWaiter'
  BY <1>13 DEF Cancel
<1>14. ASSUME NEW t \in Token, TakeCallbacks(t) PROVE NoForgottenWaiter'
  BY <1>14 DEF TakeCallbacks
<1>15. CASE UNCHANGED memberLocksVars
  BY <1>15 DEF memberLocksVars
<1> QED
  BY <1>1, <1>2, <1>3, <1>4, <1>5, <1>6, <1>7, <1>8, <1>9, <1>10, <1>11,
     <1>12, <1>13, <1>14, <1>15
  DEF MemberLocksNext

\* Every step keeps the member locks' inductive invariant.
LEMMA LocksStep == LocksInv /\ [MemberLocksNext]_memberLocksVars => LocksInv'
BY LocksTypeStep, MutexStep, KeysStep, CallbackStep, WaiterStep DEF LocksInv

\* The initial state satisfies the member locks' inductive invariant.
LEMMA LocksBase == MemberLocksInit => LocksInv
<1> SUFFICES ASSUME MemberLocksInit PROVE LocksInv
  OBVIOUS
<1> USE MemberLocksAssumption DEF MemberLocksInit
<1>1. LocksTypeInv
  BY DEF LocksTypeInv, MemberLocksTypeOK, NoWish
<1>2. MutexInv /\ KeysInv /\ CallbackInv /\ NoForgottenWaiter
  BY DEF MutexInv, KeysInv, CallbackInv, NoForgottenWaiter, Guards, Parked, InCall
<1> QED
  BY <1>1, <1>2 DEF LocksInv

\* The takers, their tokens and the callbacks keep their types.
THEOREM LocksTypeCorrect == MemberLocksSpec => []MemberLocksTypeOK
<1>1. LocksInv => MemberLocksTypeOK
  BY DEF LocksInv, LocksTypeInv
<1> QED
  BY <1>1, LocksBase, LocksStep, PTL DEF MemberLocksSpec

\* For any number of takers, tokens, roots and members, the lock manager
\* excludes and forgets nobody: two live guards never name the same member of
\* the same workspace, and whoever is parked has somebody left to wake it,
\* its own callback included once its token is cancelled (`lock`, `wake`).
THEOREM LocksCorrect == MemberLocksSpec => []LocksSound
<1>1. LocksInv => LocksSound
  BY DEF LocksInv, KeysInv, LocksSound, MemberExclusion, KeyOf
<1> QED
  BY <1>1, LocksBase, LocksStep, PTL DEF MemberLocksSpec

\* Whatever the keying, two live guards never share a key: the per-call
\* manager, which keys by the spelling, excludes the requests that spell the
\* root alike.
THEOREM GuardsHaveOwnKeys ==
  MemberLocksSpec => [](\A p, q \in Guards : KeyOf(want[p]) = KeyOf(want[q]) => p = q)
<1>1. LocksInv => \A p, q \in Guards : KeyOf(want[p]) = KeyOf(want[q]) => p = q
  BY DEF LocksInv, KeysInv
<1> QED
  BY <1>1, LocksBase, LocksStep, PTL DEF MemberLocksSpec

-----------------------------------------------------------------------------
(* The supervisor.                                                         *)

\* The jobs in the thread's batch.
InBatch == At({"taken", "kept", "panicked"})

\* What the thread's position says of the jobs. `polling` is the size the
\* batch had when it was taken: finished jobs have left it since.
BatchInv ==
  /\ thread # "polling" => polling = 0 /\ InBatch = {}
  /\ Cardinality(InBatch) <= polling
  /\ At({"leaving"}) # {} => thread = "leaving"
  /\ thread \in {"leaving", "stopped"} => released /\ At({"listed", "quarantined"}) = {}
  /\ running <=> thread \notin {"none", "stopped"}
  /\ thread = "none" => Unfinished = {}

\* Once released, the supervisor is closed and takes no job; one shutdown at
\* a time is between its look at the report and its return; its count is
\* made with the release, once and for all.
ReleaseInv ==
  /\ released => closed
  /\ counted # NoCount => released
  /\ \A c, d \in Closer :
       closer[c] \in {"waiting", "releasing"} /\ closer[d] \in {"waiting", "releasing"} => c = d
  /\ \A c \in Closer : closer[c] = "waiting"
       => owner = "held" /\ closed /\ ~released /\ report = NoCount
  /\ \A c \in Closer : closer[c] = "releasing" => counted # NoCount
  /\ owner = "held" /\ ReportFree /\ report = NoCount => ~released
  /\ report # NoCount => counted # NoCount

SupervisorInv == SupervisorTypeOK /\ BatchInv /\ ReleaseInv /\ ShutdownExact

\* The jobs at some places are finitely many.
LEMMA AtFinite ==
  ASSUME NEW S
  PROVE  IsFiniteSet(At(S)) /\ Cardinality(At(S)) \in Nat
         /\ (Cardinality(At(S)) = 0 <=> At(S) = {})
<1>1. At(S) \subseteq Job
  BY DEF At
<1>2. IsFiniteSet(At(S))
  BY <1>1, FS_Subset, SupervisorAssumption
<1> QED
  BY <1>2, FS_CardinalityType, FS_EmptySet

\* Fewer places, fewer jobs.
LEMMA FewerJobs ==
  ASSUME NEW A, NEW B, IsFiniteSet(B), A \subseteq B
  PROVE  IsFiniteSet(A) /\ Cardinality(A) \in Nat /\ Cardinality(B) \in Nat
         /\ Cardinality(A) <= Cardinality(B)
BY FS_Subset, FS_CardinalityType

\* A set covered by three finite ones has at most as many members as they
\* have together.
LEMMA CoveredByThree ==
  ASSUME NEW A, NEW B, NEW C, NEW D, IsFiniteSet(B), IsFiniteSet(C),
         IsFiniteSet(D), A \subseteq B \cup C \cup D
  PROVE  Cardinality(A) <= Cardinality(B) + Cardinality(C) + Cardinality(D)
<1>1. /\ IsFiniteSet(B \cup C)
      /\ Cardinality(B \cup C) = Cardinality(B) + Cardinality(C) - Cardinality(B \cap C)
  BY FS_Union
<1>2. /\ IsFiniteSet((B \cup C) \cup D)
      /\ Cardinality((B \cup C) \cup D)
           = Cardinality(B \cup C) + Cardinality(D) - Cardinality((B \cup C) \cap D)
  BY <1>1, FS_Union
<1>3. IsFiniteSet(B \cap C) /\ IsFiniteSet((B \cup C) \cap D)
  BY FS_Intersection, <1>1
<1>4. /\ Cardinality(B) \in Nat /\ Cardinality(C) \in Nat /\ Cardinality(D) \in Nat
      /\ Cardinality(B \cap C) \in Nat /\ Cardinality((B \cup C) \cap D) \in Nat
      /\ Cardinality(B \cup C) \in Nat
  BY <1>1, <1>3, FS_CardinalityType
<1>5. Cardinality(A) \in Nat /\ Cardinality(A) <= Cardinality((B \cup C) \cup D)
  BY <1>2, FewerJobs
<1> QED
  BY <1>1, <1>2, <1>4, <1>5

\* Every step keeps the types.
LEMMA SupervisorTypeStep == SupervisorTypeOK /\ [SupervisorNext]_supervisorVars => SupervisorTypeOK'
<1> SUFFICES ASSUME SupervisorTypeOK, [SupervisorNext]_supervisorVars PROVE SupervisorTypeOK'
  OBVIOUS
<1> USE SupervisorAssumption DEF SupervisorTypeOK
<1>1. ASSUME NEW j \in Job, SuperviseRefused(j) PROVE SupervisorTypeOK'
  BY <1>1 DEF SuperviseRefused, Places
<1>2. ASSUME NEW j \in Job, Supervise(j) PROVE SupervisorTypeOK'
  BY <1>2 DEF Supervise, Sleepers, Places
<1>3. ASSUME NEW j \in Job, NEW outcome \in {"dropped", "kept", "panicked"},
             Poll(j, outcome)
      PROVE SupervisorTypeOK'
  BY <1>3 DEF Poll, Places
<1>4. ASSUME NEW c \in Closer, ShutdownBegins(c) PROVE SupervisorTypeOK'
  <2>1. Cardinality(At({"listed"})) \in Nat /\ Cardinality(At({"quarantined"})) \in Nat
    BY AtFinite
  <2>2. CountRemaining => counted' \in Nat /\ released' = TRUE
    BY <2>1 DEF CountRemaining, Active
  <2> QED
    BY ZenonT(60), <1>4, <2>2 DEF ShutdownBegins
<1>5. ASSUME NEW c \in Closer, ShutdownAgain(c) PROVE SupervisorTypeOK'
  BY <1>5 DEF ShutdownAgain
<1>6. ASSUME NEW c \in Closer, ShutdownWaitsOn(c) PROVE SupervisorTypeOK'
  BY <1>6 DEF ShutdownWaitsOn
<1>7. ASSUME NEW c \in Closer, NEW late \in BOOLEAN, ShutdownCounts(c, late) PROVE SupervisorTypeOK'
  <2>1. Cardinality(At({"listed"})) \in Nat /\ Cardinality(At({"quarantined"})) \in Nat
    BY AtFinite
  <2>2. CountRemaining => counted' \in Nat /\ released' = TRUE
    BY <2>1 DEF CountRemaining, Active
  <2> QED
    BY <1>7, <2>2 DEF ShutdownCounts
<1>8. ASSUME NEW c \in Closer, ShutdownReports(c) PROVE SupervisorTypeOK'
  BY <1>8 DEF ShutdownReports, Sleepers
<1>9. CASE DropBegins
  BY <1>9 DEF DropBegins
<1>10. CASE DropNotifies
  BY <1>10 DEF DropNotifies, Sleepers
<1>11. CASE Take
  <2>1. Cardinality(At({"listed"})) \in Nat
    BY AtFinite
  <2> QED
    BY <1>11, <2>1 DEF Take, Places
<1>12. CASE Merge
  <2>1. where' \in [Job -> Places]
    BY <1>12 DEF Merge, Places
  <2>2. woken' \subseteq Closer \cup {"thread"}
    BY <1>12 DEF Merge, MergeWakes, Sleepers
  <2>3. thread' \in {"timed", "leaving", "idle"} /\ polling' = 0
    BY <1>12 DEF Merge
  <2> QED
    BY <1>12, <2>1, <2>2, <2>3 DEF Merge
<1>13. CASE Stop
  BY <1>13 DEF Stop, Sleepers, Places
<1>14. CASE UNCHANGED supervisorVars
  BY <1>14 DEF supervisorVars
<1> QED
  BY <1>1, <1>2, <1>3, <1>4, <1>5, <1>6, <1>7, <1>8, <1>9, <1>10, <1>11,
     <1>12, <1>13, <1>14
  DEF SupervisorNext

\* Every step keeps the batch no larger than its recorded size, and a thread
\* that leaves has nothing listed or quarantined behind it.
LEMMA BatchStep ==
  SupervisorTypeOK /\ ReleaseInv /\ BatchInv /\ [SupervisorNext]_supervisorVars => BatchInv'
<1> SUFFICES ASSUME SupervisorTypeOK /\ ReleaseInv /\ BatchInv,
                    [SupervisorNext]_supervisorVars
             PROVE BatchInv'
  OBVIOUS
<1> USE SupervisorAssumption DEF SupervisorTypeOK, BatchInv, ReleaseInv
<1>1. ASSUME NEW j \in Job, SuperviseRefused(j) PROVE BatchInv'
  <2>1. InBatch' \subseteq InBatch /\ At({"leaving"})' = At({"leaving"})
        /\ At({"listed", "quarantined"})' = At({"listed", "quarantined"})
    BY <1>1 DEF SuperviseRefused, InBatch, At
  <2>2. Cardinality(InBatch') <= Cardinality(InBatch) /\ Cardinality(InBatch) \in Nat
        /\ Cardinality(InBatch') \in Nat
    BY <2>1, AtFinite, FewerJobs DEF InBatch
  <2>3. Unfinished' \subseteq Unfinished
    BY <1>1 DEF SuperviseRefused, Unfinished, Places, At
  <2> QED
    BY <1>1, <2>1, <2>2, <2>3 DEF SuperviseRefused
<1>2. ASSUME NEW j \in Job, Supervise(j) PROVE BatchInv'
  <2>1. ~released /\ thread \notin {"leaving", "stopped"}
    BY <1>2 DEF Supervise
  <2>2. InBatch' = InBatch /\ At({"leaving"})' = At({"leaving"})
    BY <1>2 DEF Supervise, InBatch, At
  <2>3. Cardinality(InBatch') = Cardinality(InBatch)
    BY <2>2
  <2> QED
    BY <1>2, <2>1, <2>2, <2>3 DEF Supervise
<1>3. ASSUME NEW j \in Job, NEW outcome \in {"dropped", "kept", "panicked"},
             Poll(j, outcome)
      PROVE BatchInv'
  <2>1. InBatch' \subseteq InBatch /\ At({"leaving"})' = At({"leaving"})
        /\ At({"listed", "quarantined"})' = At({"listed", "quarantined"})
    BY <1>3 DEF Poll, InBatch, At
  <2>2. Cardinality(InBatch') <= Cardinality(InBatch) /\ Cardinality(InBatch) \in Nat
        /\ Cardinality(InBatch') \in Nat
    BY <2>1, AtFinite, FewerJobs DEF InBatch
  <2>3. Unfinished' \subseteq Unfinished
    BY <1>3 DEF Poll, Unfinished, Places, At
  <2> QED
    BY <1>3, <2>1, <2>2, <2>3 DEF Poll
<1>4. ASSUME NEW c \in Closer, ShutdownBegins(c) PROVE BatchInv'
  <2>1. UNCHANGED <<InBatch, At({"leaving"}), At({"listed", "quarantined"}), Unfinished>>
    BY <1>4 DEF ShutdownBegins, InBatch, At, Unfinished
  <2>2. UNCHANGED Cardinality(InBatch)
    BY <2>1
  <2> QED
    BY <1>4, <2>1, <2>2 DEF ShutdownBegins, CountRemaining
<1>5. ASSUME NEW c \in Closer, ShutdownAgain(c) PROVE BatchInv'
  <2>1. UNCHANGED <<InBatch, At({"leaving"}), At({"listed", "quarantined"}), Unfinished>>
    BY <1>5 DEF ShutdownAgain, InBatch, At, Unfinished
  <2>2. UNCHANGED Cardinality(InBatch)
    BY <2>1
  <2> QED
    BY <1>5, <2>1, <2>2 DEF ShutdownAgain
<1>6. ASSUME NEW c \in Closer, ShutdownWaitsOn(c) PROVE BatchInv'
  <2>1. UNCHANGED <<InBatch, At({"leaving"}), At({"listed", "quarantined"}), Unfinished>>
    BY <1>6 DEF ShutdownWaitsOn, InBatch, At, Unfinished
  <2>2. UNCHANGED Cardinality(InBatch)
    BY <2>1
  <2> QED
    BY <1>6, <2>1, <2>2 DEF ShutdownWaitsOn
<1>7. ASSUME NEW c \in Closer, NEW late \in BOOLEAN, ShutdownCounts(c, late) PROVE BatchInv'
  <2>1. UNCHANGED <<InBatch, At({"leaving"}), At({"listed", "quarantined"}), Unfinished>>
    BY <1>7 DEF ShutdownCounts, InBatch, At, Unfinished
  <2>2. UNCHANGED Cardinality(InBatch)
    BY <2>1
  <2> QED
    BY <1>7, <2>1, <2>2 DEF ShutdownCounts, CountRemaining
<1>8. ASSUME NEW c \in Closer, ShutdownReports(c) PROVE BatchInv'
  <2>1. UNCHANGED <<InBatch, At({"leaving"}), At({"listed", "quarantined"}), Unfinished>>
    BY <1>8 DEF ShutdownReports, InBatch, At, Unfinished
  <2>2. UNCHANGED Cardinality(InBatch)
    BY <2>1
  <2> QED
    BY <1>8, <2>1, <2>2 DEF ShutdownReports
<1>9. CASE DropBegins
  <2>1. UNCHANGED <<InBatch, At({"leaving"}), At({"listed", "quarantined"}), Unfinished>>
    BY <1>9 DEF DropBegins, InBatch, At, Unfinished
  <2>2. UNCHANGED Cardinality(InBatch)
    BY <2>1
  <2> QED
    BY <1>9, <2>1, <2>2 DEF DropBegins
<1>10. CASE DropNotifies
  <2>1. UNCHANGED <<InBatch, At({"leaving"}), At({"listed", "quarantined"}), Unfinished>>
    BY <1>10 DEF DropNotifies, InBatch, At, Unfinished
  <2>2. UNCHANGED Cardinality(InBatch)
    BY <2>1
  <2> QED
    BY <1>10, <2>1, <2>2 DEF DropNotifies
<1>11. CASE Take
  <2>1. InBatch = {} /\ polling = 0
    BY <1>11 DEF Take
  <2>2. InBatch' = At({"listed"}) /\ At({"leaving"})' = At({"leaving"})
    BY <1>11, <2>1 DEF Take, InBatch, At
  <2>3. Cardinality(InBatch') = polling' /\ polling' \in Nat
    BY <1>11, <2>2, AtFinite DEF Take
  <2> QED
    BY <1>11, <2>2, <2>3 DEF Take
<1>12. CASE Merge
  <2>1. InBatch' = {}
    BY <1>12 DEF Merge, InBatch, At, Places
  <2>2. Cardinality(InBatch') = 0
    BY <2>1, FS_EmptySet
  <2>3. At({"leaving"})' # {} => At({"listed", "kept"}) = {} /\ released
    BY <1>12 DEF Merge, At, Places
  <2>4. At({"listed", "kept"}) = {} /\ released => At({"listed", "quarantined"})' = {}
    BY <1>12 DEF Merge, At, Places
  <2> QED
    BY <1>12, <2>1, <2>2, <2>3, <2>4 DEF Merge
<1>13. CASE Stop
  <2>1. InBatch' = InBatch /\ At({"leaving"})' = {}
        /\ At({"listed", "quarantined"})' = At({"listed", "quarantined"})
    BY <1>13 DEF Stop, InBatch, At, Places
  <2>2. Cardinality(InBatch') = Cardinality(InBatch)
    BY <2>1
  <2> QED
    BY <1>13, <2>1, <2>2 DEF Stop
<1>14. CASE UNCHANGED supervisorVars
  <2>1. UNCHANGED <<InBatch, At({"leaving"}), At({"listed", "quarantined"}), Unfinished>>
    BY <1>14 DEF supervisorVars, InBatch, At, Unfinished
  <2>2. UNCHANGED Cardinality(InBatch)
    BY <2>1
  <2> QED
    BY <1>14, <2>1, <2>2 DEF supervisorVars
<1> QED
  BY <1>1, <1>2, <1>3, <1>4, <1>5, <1>6, <1>7, <1>8, <1>9, <1>10, <1>11,
     <1>12, <1>13, <1>14
  DEF SupervisorNext

\* Every step keeps one shutdown at a time between its look at the report and
\* its return, and the release behind the close.
LEMMA ReleaseStep ==
  SupervisorTypeOK /\ ReleaseInv /\ [SupervisorNext]_supervisorVars => ReleaseInv'
<1> SUFFICES ASSUME SupervisorTypeOK /\ ReleaseInv, [SupervisorNext]_supervisorVars
             PROVE ReleaseInv'
  OBVIOUS
<1> USE SupervisorAssumption DEF SupervisorTypeOK, ReleaseInv, ReportFree
<1>1. ASSUME NEW j \in Job, SuperviseRefused(j) PROVE ReleaseInv'
  BY <1>1 DEF SuperviseRefused
<1>2. ASSUME NEW j \in Job, Supervise(j) PROVE ReleaseInv'
  BY <1>2 DEF Supervise
<1>3. ASSUME NEW j \in Job, NEW outcome \in {"dropped", "kept", "panicked"},
             Poll(j, outcome)
      PROVE ReleaseInv'
  BY <1>3 DEF Poll
<1>4. ASSUME NEW c \in Closer, ShutdownBegins(c) PROVE ReleaseInv'
  <2>1. Cardinality(At({"listed"})) \in Nat /\ Cardinality(At({"quarantined"})) \in Nat
    BY AtFinite
  <2>2. CountRemaining => counted' # NoCount
    BY <2>1 DEF CountRemaining, Active
  <2> QED
    BY <1>4, <2>2 DEF ShutdownBegins, CountRemaining
<1>5. ASSUME NEW c \in Closer, ShutdownAgain(c) PROVE ReleaseInv'
  BY <1>5 DEF ShutdownAgain
<1>6. ASSUME NEW c \in Closer, ShutdownWaitsOn(c) PROVE ReleaseInv'
  BY <1>6 DEF ShutdownWaitsOn
<1>7. ASSUME NEW c \in Closer, NEW late \in BOOLEAN, ShutdownCounts(c, late) PROVE ReleaseInv'
  <2>1. Cardinality(At({"listed"})) \in Nat /\ Cardinality(At({"quarantined"})) \in Nat
    BY AtFinite
  <2>2. CountRemaining => counted' # NoCount
    BY <2>1 DEF CountRemaining, Active
  <2> QED
    BY <1>7, <2>2 DEF ShutdownCounts, CountRemaining
<1>8. ASSUME NEW c \in Closer, ShutdownReports(c) PROVE ReleaseInv'
  BY <1>8 DEF ShutdownReports
<1>9. CASE DropBegins
  BY <1>9 DEF DropBegins
<1>10. CASE DropNotifies
  BY <1>10 DEF DropNotifies
<1>11. CASE Take
  BY <1>11 DEF Take
<1>12. CASE Merge
  BY <1>12 DEF Merge
<1>13. CASE Stop
  BY <1>13 DEF Stop
<1>14. CASE UNCHANGED supervisorVars
  BY <1>14 DEF supervisorVars
<1> QED
  BY <1>1, <1>2, <1>3, <1>4, <1>5, <1>6, <1>7, <1>8, <1>9, <1>10, <1>11,
     <1>12, <1>13, <1>14
  DEF SupervisorNext

\* Jobs that leave keep a count that covered them covering.
LEMMA FewerUnfinished ==
  ASSUME SupervisorTypeOK, ShutdownCountsAll, Unfinished' \subseteq Unfinished,
         counted' = counted
  PROVE  ShutdownCountsAll'
<1>1. Cardinality(Unfinished') <= Cardinality(Unfinished)
      /\ Cardinality(Unfinished) \in Nat /\ Cardinality(Unfinished') \in Nat
  BY AtFinite, FewerJobs DEF Unfinished
<1> QED
  BY <1>1 DEF ShutdownCountsAll, SupervisorTypeOK

\* Before the release, what `dispose` counts covers every unfinished job: one
\* the thread has out of the list is in the batch, whose size is counted.
LEMMA CountCoversAll ==
  ASSUME SupervisorTypeOK, BatchInv, ~released
  PROVE  Cardinality(Unfinished) <= Active + Cardinality(At({"quarantined"}))
<1>1. At({"leaving"}) = {}
  BY DEF BatchInv
<1>2. Unfinished \subseteq At({"listed"}) \cup InBatch \cup At({"quarantined"})
  BY <1>1 DEF Unfinished, InBatch, At, Places, SupervisorTypeOK
<1>3. Cardinality(Unfinished) <= Cardinality(At({"listed"})) + Cardinality(InBatch) + Cardinality(At({"quarantined"}))
  BY <1>2, AtFinite, CoveredByThree DEF InBatch
<1>4. /\ Cardinality(At({"listed"})) \in Nat /\ Cardinality(InBatch) \in Nat
      /\ Cardinality(At({"quarantined"})) \in Nat /\ Cardinality(Unfinished) \in Nat
  BY AtFinite DEF InBatch, Unfinished
<1> QED
  BY <1>3, <1>4 DEF Active, BatchInv, SupervisorTypeOK

\* Every step keeps the count above what is unfinished: it is made before the
\* release, when every unfinished job is listed, in the batch or quarantined, and
\* no job is taken on after it.
LEMMA CountStep ==
  SupervisorTypeOK /\ BatchInv /\ ReleaseInv /\ ShutdownCountsAll
      /\ [SupervisorNext]_supervisorVars => ShutdownCountsAll'
<1> SUFFICES ASSUME SupervisorTypeOK /\ BatchInv /\ ReleaseInv /\ ShutdownCountsAll,
                    [SupervisorNext]_supervisorVars
             PROVE ShutdownCountsAll'
  OBVIOUS
<1> USE SupervisorAssumption DEF SupervisorTypeOK, ShutdownCountsAll
<1>1. ASSUME NEW j \in Job, SuperviseRefused(j) PROVE ShutdownCountsAll'
  <2>1. Unfinished' \subseteq Unfinished
    BY <1>1 DEF SuperviseRefused, Unfinished, Places, At
  <2> QED
    BY <1>1, <2>1, FewerUnfinished DEF SuperviseRefused
<1>2. ASSUME NEW j \in Job, Supervise(j) PROVE ShutdownCountsAll'
  BY <1>2 DEF Supervise, ReleaseInv
<1>3. ASSUME NEW j \in Job, NEW outcome \in {"dropped", "kept", "panicked"},
             Poll(j, outcome)
      PROVE ShutdownCountsAll'
  <2>1. Unfinished' \subseteq Unfinished
    BY <1>3 DEF Poll, Unfinished, Places, At
  <2> QED
    BY <1>3, <2>1, FewerUnfinished DEF Poll
<1>4. ASSUME NEW c \in Closer, ShutdownBegins(c) PROVE ShutdownCountsAll'
  <2>1. Unfinished' = Unfinished
    BY <1>4 DEF ShutdownBegins, Unfinished, At
  <2>2. ~released
    BY <1>4 DEF ShutdownBegins, ReleaseInv
  <2>3. CountRemaining => counted' = Active + Cardinality(At({"quarantined"}))
    BY DEF CountRemaining
  <2>4. counted' = counted \/ CountRemaining
    BY <1>4 DEF ShutdownBegins
  <2> QED
    BY <2>1, <2>2, <2>3, <2>4, CountCoversAll
<1>5. ASSUME NEW c \in Closer, ShutdownAgain(c) PROVE ShutdownCountsAll'
  <2>1. Unfinished' = Unfinished
    BY <1>5 DEF ShutdownAgain, Unfinished, At
  <2> QED
    BY <1>5, <2>1 DEF ShutdownAgain
<1>6. ASSUME NEW c \in Closer, ShutdownWaitsOn(c) PROVE ShutdownCountsAll'
  <2>1. Unfinished' = Unfinished
    BY <1>6 DEF ShutdownWaitsOn, Unfinished, At
  <2> QED
    BY <1>6, <2>1 DEF ShutdownWaitsOn
<1>7. ASSUME NEW c \in Closer, NEW late \in BOOLEAN, ShutdownCounts(c, late)
      PROVE ShutdownCountsAll'
  <2>1. Unfinished' = Unfinished
    BY <1>7 DEF ShutdownCounts, Unfinished, At
  <2>2. ~released
    BY <1>7 DEF ShutdownCounts, ReleaseInv
  <2>3. CountRemaining => counted' = Active + Cardinality(At({"quarantined"}))
    BY DEF CountRemaining
  <2>4. counted' = counted \/ CountRemaining
    BY <1>7 DEF ShutdownCounts
  <2> QED
    BY <2>1, <2>2, <2>3, <2>4, CountCoversAll
<1>8. ASSUME NEW c \in Closer, ShutdownReports(c) PROVE ShutdownCountsAll'
  <2>1. Unfinished' = Unfinished
    BY <1>8 DEF ShutdownReports, Unfinished, At
  <2> QED
    BY <1>8, <2>1 DEF ShutdownReports
<1>9. CASE DropBegins
  <2>1. Unfinished' = Unfinished
    BY <1>9 DEF DropBegins, Unfinished, At
  <2> QED
    BY <1>9, <2>1 DEF DropBegins
<1>10. CASE DropNotifies
  <2>1. Unfinished' = Unfinished
    BY <1>10 DEF DropNotifies, Unfinished, At
  <2> QED
    BY <1>10, <2>1 DEF DropNotifies
<1>11. CASE Take
  <2>1. Unfinished' \subseteq Unfinished
    BY <1>11 DEF Take, Unfinished, Places, At
  <2> QED
    BY <1>11, <2>1, FewerUnfinished DEF Take
<1>12. CASE Merge
  <2>1. Unfinished' \subseteq Unfinished
    BY <1>12 DEF Merge, Unfinished, Places, At
  <2> QED
    BY <1>12, <2>1, FewerUnfinished DEF Merge
<1>13. CASE Stop
  <2>1. Unfinished' \subseteq Unfinished
    BY <1>13 DEF Stop, Unfinished, Places, At
  <2> QED
    BY <1>13, <2>1, FewerUnfinished DEF Stop
<1>14. CASE UNCHANGED supervisorVars
  <2>1. Unfinished' = Unfinished
    BY <1>14 DEF supervisorVars, Unfinished, At
  <2> QED
    BY <1>14, <2>1 DEF supervisorVars
<1> QED
  BY <1>1, <1>2, <1>3, <1>4, <1>5, <1>6, <1>7, <1>8, <1>9, <1>10, <1>11,
     <1>12, <1>13, <1>14
  DEF SupervisorNext

\* Every step keeps the waiting shutdown notified when no job is active: only
\* the end of a batch makes the last one inactive, and it notifies.
LEMMA SleepStep ==
  SupervisorTypeOK /\ BatchInv /\ ReleaseInv /\ NoShutdownSleepsOn
      /\ [SupervisorNext]_supervisorVars => NoShutdownSleepsOn'
<1> SUFFICES ASSUME SupervisorTypeOK /\ BatchInv /\ ReleaseInv /\ NoShutdownSleepsOn,
                    [SupervisorNext]_supervisorVars
             PROVE NoShutdownSleepsOn'
  OBVIOUS
<1> USE SupervisorAssumption DEF SupervisorTypeOK, NoShutdownSleepsOn
<1>1. ASSUME NEW j \in Job, SuperviseRefused(j) PROVE NoShutdownSleepsOn'
  <2>1. At({"listed"})' = At({"listed"})
    BY <1>1 DEF SuperviseRefused, At
  <2>2. Active' = Active
    BY <1>1, <2>1 DEF SuperviseRefused, Active
  <2> QED
    BY <1>1, <2>2 DEF SuperviseRefused
<1>2. ASSUME NEW j \in Job, Supervise(j) PROVE NoShutdownSleepsOn'
  BY <1>2 DEF Supervise, ReleaseInv
<1>3. ASSUME NEW j \in Job, NEW outcome \in {"dropped", "kept", "panicked"},
             Poll(j, outcome)
      PROVE NoShutdownSleepsOn'
  <2>1. At({"listed"})' = At({"listed"})
    BY <1>3 DEF Poll, At
  <2>2. Active' = Active
    BY <1>3, <2>1 DEF Poll, Active
  <2> QED
    BY <1>3, <2>2 DEF Poll
<1>4. ASSUME NEW c \in Closer, ShutdownBegins(c) PROVE NoShutdownSleepsOn'
  <2>1. At({"listed"})' = At({"listed"})
    BY <1>4 DEF ShutdownBegins, At
  <2>2. Active' = Active /\ Active \in Nat
    BY <1>4, <2>1, AtFinite DEF ShutdownBegins, Active
  <2> QED
    BY <1>4, <2>2 DEF ShutdownBegins, ReleaseInv, ReportFree
<1>5. ASSUME NEW c \in Closer, ShutdownAgain(c) PROVE NoShutdownSleepsOn'
  <2>1. At({"listed"})' = At({"listed"})
    BY <1>5 DEF ShutdownAgain, At
  <2>2. Active' = Active
    BY <1>5, <2>1 DEF ShutdownAgain, Active
  <2> QED
    BY <1>5, <2>2 DEF ShutdownAgain
<1>6. ASSUME NEW c \in Closer, ShutdownWaitsOn(c) PROVE NoShutdownSleepsOn'
  <2>1. At({"listed"})' = At({"listed"})
    BY <1>6 DEF ShutdownWaitsOn, At
  <2>2. Active' = Active /\ Active > 0 /\ Active \in Nat
    BY <1>6, <2>1, AtFinite DEF ShutdownWaitsOn, Active
  <2> QED
    BY <2>2
<1>7. ASSUME NEW c \in Closer, NEW late \in BOOLEAN, ShutdownCounts(c, late)
      PROVE NoShutdownSleepsOn'
  <2>1. At({"listed"})' = At({"listed"})
    BY <1>7 DEF ShutdownCounts, At
  <2>2. Active' = Active /\ Active \in Nat
    BY <1>7, <2>1, AtFinite DEF ShutdownCounts, Active
  <2> QED
    BY <1>7, <2>2 DEF ShutdownCounts, ReleaseInv, ReportFree
<1>8. ASSUME NEW c \in Closer, ShutdownReports(c) PROVE NoShutdownSleepsOn'
  BY <1>8 DEF ShutdownReports, Sleepers
<1>9. CASE DropBegins
  <2>1. At({"listed"})' = At({"listed"})
    BY <1>9 DEF DropBegins, At
  <2>2. Active' = Active
    BY <1>9, <2>1 DEF DropBegins, Active
  <2> QED
    BY <1>9, <2>2 DEF DropBegins
<1>10. CASE DropNotifies
  BY <1>10 DEF DropNotifies, Sleepers
<1>11. CASE Take
  <2>1. Cardinality(At({"listed"})) \in Nat
    BY AtFinite
  <2>2. At({"listed"})' = {}
    BY <1>11 DEF Take, At
  <2>3. Cardinality(At({"listed"}))' = 0
    BY <2>2, FS_EmptySet
  <2>4. Active' = 0 => Active = 0
    BY <1>11, <2>1, <2>3 DEF Take, Active, BatchInv
  <2> QED
    BY <1>11, <2>4 DEF Take
<1>12. CASE Merge
  <2>1. At({"listed"})' = At({"listed", "kept"})
    BY <1>12 DEF Merge, At, Places
  <2>2. At({"listed", "kept"}) = {} => At({"listed"}) = {} /\ At({"kept"}) = {}
    BY DEF At
  <2>3. Active' = Cardinality(At({"listed", "kept"}))
    BY <1>12, <2>1, AtFinite DEF Merge, Active
  <2>4. Active' = 0 => Cardinality(At({"listed"})) = 0 /\ Cardinality(At({"kept"})) = 0
    BY <2>2, <2>3, AtFinite
  <2>5. Active' = 0 => (polling > Cardinality(At({"kept"})) \/ Active = 0)
    BY <2>4 DEF Active
  <2> QED
    BY <1>12, <2>5 DEF Merge, MergeWakes, Sleepers
<1>13. CASE Stop
  BY <1>13 DEF Stop, Sleepers
<1>14. CASE UNCHANGED supervisorVars
  <2>1. At({"listed"})' = At({"listed"})
    BY <1>14 DEF supervisorVars, At
  <2>2. Active' = Active
    BY <1>14, <2>1 DEF supervisorVars, Active
  <2> QED
    BY <1>14, <2>2 DEF supervisorVars
<1> QED
  BY <1>1, <1>2, <1>3, <1>4, <1>5, <1>6, <1>7, <1>8, <1>9, <1>10, <1>11,
     <1>12, <1>13, <1>14
  DEF SupervisorNext

\* The initial state satisfies the supervisor's inductive invariant.
LEMMA SupervisorBase == SupervisorInit => SupervisorInv
<1> SUFFICES ASSUME SupervisorInit PROVE SupervisorInv
  OBVIOUS
<1>1. InBatch = {} /\ Unfinished = {} /\ At({"leaving"}) = {}
  BY DEF SupervisorInit, InBatch, Unfinished, At, Places
<1>2. Cardinality(InBatch) = 0
  BY <1>1, FS_EmptySet
<1>3. SupervisorTypeOK
  BY DEF SupervisorInit, SupervisorTypeOK, Places
<1>4. BatchInv
  BY <1>1, <1>2 DEF SupervisorInit, BatchInv
<1>5. ReleaseInv /\ ShutdownExact
  BY DEF SupervisorInit, ReleaseInv, ShutdownExact, ShutdownCountsAll, NoShutdownSleepsOn
<1> QED
  BY <1>3, <1>4, <1>5 DEF SupervisorInv

\* Every step keeps the supervisor's inductive invariant.
LEMMA SupervisorStep == SupervisorInv /\ [SupervisorNext]_supervisorVars => SupervisorInv'
BY SupervisorTypeStep, BatchStep, ReleaseStep, CountStep, SleepStep
DEF SupervisorInv, ShutdownExact

\* The supervisor's state keeps its types.
THEOREM SupervisorTypeCorrect == SupervisorSpec => []SupervisorTypeOK
<1>1. SupervisorInv => SupervisorTypeOK
  BY DEF SupervisorInv
<1> QED
  BY <1>1, SupervisorBase, SupervisorStep, PTL DEF SupervisorSpec

\* For any finite set of jobs and any closers, the count a shutdown returns
\* covers every job that is unfinished then or later, one in the middle of a
\* poll included, and no shutdown sleeps unnotified once no job is active
\* (`dispose`, `shutdown`).
THEOREM SupervisorCorrect == SupervisorSpec => []ShutdownExact
<1>1. SupervisorInv => ShutdownExact
  BY DEF SupervisorInv
<1> QED
  BY <1>1, SupervisorBase, SupervisorStep, PTL DEF SupervisorSpec

\* The thread never stops with a job left behind: not listed, not in
\* quarantine, not out for polling (`run`).
THEOREM StopLeavesNothing == SupervisorSpec => [](thread = "stopped" => Unfinished = {})
<1>1. SupervisorInv => (thread = "stopped" => Unfinished = {})
  <2> SUFFICES ASSUME SupervisorInv, thread = "stopped" PROVE Unfinished = {}
    OBVIOUS
  <2>1. InBatch = {} /\ At({"leaving"}) = {} /\ At({"listed", "quarantined"}) = {}
    BY DEF SupervisorInv, BatchInv
  <2> QED
    BY <2>1 DEF Unfinished, InBatch, At, Places, SupervisorInv, SupervisorTypeOK
<1> QED
  BY <1>1, SupervisorBase, SupervisorStep, PTL DEF SupervisorSpec

\* The count of the one disposal is final: no later shutdown, drop or step of
\* the thread counts again (`shutdown`: a later call returns the first report).
THEOREM CountIsFinal == SupervisorSpec => [][counted # NoCount => counted' = counted]_supervisorVars
<1>1. SupervisorInv /\ [SupervisorNext]_supervisorVars
        => [counted # NoCount => counted' = counted]_supervisorVars
  BY DEF SupervisorInv, ReleaseInv, SupervisorNext, SuperviseRefused, Supervise, Poll,
         ShutdownBegins, ShutdownAgain, ShutdownWaitsOn, ShutdownCounts, ShutdownReports,
         DropBegins, DropNotifies, Take, Merge, Stop
<1> QED
  BY <1>1, SupervisorBase, SupervisorStep, PTL DEF SupervisorSpec

-----------------------------------------------------------------------------
(* The reservations.                                                       *)

\* The physical connections to a host.
PhysicalTo(h) == {c \in Physical : RemoteOf[c] = h}

\* The counts are exact: a reservation is held by every connection that
\* exists physically, by the lost ones too, and by no other.
CountsInv ==
  /\ total = Cardinality(Physical)
  /\ \A h \in Remote : hosts[h] = Cardinality(PhysicalTo(h))

\* Only what can be cancelled or closed is told to be.
OrderedInv ==
  \A c \in ordered : conn[c] \in {"asked", "waiting", "opening", "settled", "open"}

\* What waits unordered belongs to a live request, and its driver will look
\* again or is in the list of those a return wakes.
WaitingInv ==
  \A c \in Conn : c \notin ordered =>
    /\ conn[c] \in {"asked", "waiting", "opening", "settled"} => RequestOf[c] \in live
    /\ conn[c] = "waiting" =>
         c \in unpolled \/ PoolOf[c] \in awake \cup waking \cup waiters

ReservationsInv ==
  ReservationsTypeOK /\ CountsInv /\ OrderedInv /\ WaitingInv /\ NoSleepingConnection

\* A natural-valued function takes its largest value on a finite, non-empty
\* set: by a minimal counterexample, since there is no smaller one.
LEMMA LargestExists ==
  ASSUME NEW R, NEW f \in [R -> Nat], NEW S, S \subseteq R, IsFiniteSet(S), S # {}
  PROVE  \E r \in S : \A q \in S : f[r] >= f[q]
<1> DEFINE Has(U) == \E r \in U : \A q \in U : f[r] >= f[q]
           Bad == {U \in SUBSET S : U # {} /\ ~Has(U)}
<1> SUFFICES ASSUME S \in Bad PROVE FALSE
  OBVIOUS
<1>1. IsWellFoundedOn(StrictSubsetOrdering(S), SUBSET S)
  BY FS_StrictSubsetOrderingWellFounded, FS_FiniteSubsetsOfFinite
<1>2. PICK U \in Bad : \A V \in Bad : <<V, U>> \notin StrictSubsetOrdering(S)
  <2>1. Bad \subseteq SUBSET S /\ Bad # {}
    OBVIOUS
  <2> HIDE DEF Bad
  <2> QED
    BY <1>1, <2>1, WFMin
<1>3. PICK x \in U : TRUE
  BY <1>2
<1>4. U \ {x} \notin Bad
  BY <1>2, <1>3 DEF StrictSubsetOrdering
<1>5. CASE U \ {x} = {}
  BY <1>2, <1>3, <1>5
<1>6. CASE U \ {x} # {}
  <2>1. PICK y \in U \ {x} : \A q \in U \ {x} : f[y] >= f[q]
    BY <1>4, <1>6
  <2>2. \A q \in U : f[q] \in Nat
    OBVIOUS
  <2>3. Has(U)
    BY <1>3, <2>1, <2>2
  <2> QED
    BY <2>3
<1> QED
  BY <1>5, <1>6

\* Max of a set of naturals is its member that is no smaller than another.
LEMMA MaxIs ==
  ASSUME NEW S \in SUBSET Nat, NEW m \in S, \A y \in S : m >= y
  PROVE  Max(S) = m
<1>1. \E x \in S : \A y \in S : x >= y
  OBVIOUS
<1>2. Max(S) \in S /\ \A y \in S : Max(S) >= y
  BY <1>1 DEF Max
<1>3. Max(S) >= m /\ m >= Max(S) /\ Max(S) \in Nat /\ m \in Nat
  BY <1>2
<1> HIDE DEF Max
<1> QED
  BY <1>3

\* The ceilings are naturals, at least the limits of every live request ...
LEMMA CeilingsBound ==
  ASSUME NEW these \in SUBSET Request
  PROVE  /\ CeilingsOf(these).total \in Nat /\ CeilingsOf(these).host \in Nat
         /\ \A r \in these : /\ CeilingsOf(these).total >= LimitOf[r].total
                             /\ CeilingsOf(these).host >= LimitOf[r].host
         /\ these # {} => \E r, q \in these :
              CeilingsOf(these).total = LimitOf[r].total /\ CeilingsOf(these).host = LimitOf[q].host
<1>1. CASE these = {}
  BY <1>1, ReservationsAssumption DEF CeilingsOf
<1>2. CASE these # {}
  <2> DEFINE totals == [r \in Request |-> LimitOf[r].total]
             perHost == [r \in Request |-> LimitOf[r].host]
  <2>1. IsFiniteSet(these)
    BY FS_Subset, ReservationsAssumption
  <2>2. totals \in [Request -> Nat] /\ perHost \in [Request -> Nat]
    BY ReservationsAssumption
  <2>3. PICK r \in these : \A q \in these : totals[r] >= totals[q]
    BY <1>2, <2>1, <2>2, LargestExists
  <2>4. PICK h \in these : \A q \in these : perHost[h] >= perHost[q]
    BY <1>2, <2>1, <2>2, LargestExists
  <2>5. Max({LimitOf[q].total : q \in these}) = LimitOf[r].total
    <3>1. {LimitOf[q].total : q \in these} \in SUBSET Nat
      BY ReservationsAssumption
    <3>2. \A y \in {LimitOf[q].total : q \in these} : LimitOf[r].total >= y
      BY <2>3
    <3> QED
      BY <3>1, <3>2, MaxIs
  <2>6. Max({LimitOf[q].host : q \in these}) = LimitOf[h].host
    <3>1. {LimitOf[q].host : q \in these} \in SUBSET Nat
      BY ReservationsAssumption
    <3>2. \A y \in {LimitOf[q].host : q \in these} : LimitOf[h].host >= y
      BY <2>4
    <3> QED
      BY <3>1, <3>2, MaxIs
  <2> QED
    BY <1>2, <2>3, <2>4, <2>5, <2>6, ReservationsAssumption DEF CeilingsOf
<1> QED
  BY <1>1, <1>2

\* ... and no higher while fewer requests, but still some, are live.
LEMMA CeilingsFall ==
  ASSUME NEW these \in SUBSET Request, NEW fewer \in SUBSET these, fewer # {}
  PROVE  /\ CeilingsOf(fewer).total <= CeilingsOf(these).total
         /\ CeilingsOf(fewer).host <= CeilingsOf(these).host
<1>1. fewer \in SUBSET Request
  OBVIOUS
<1>2. PICK r, q \in fewer :
        CeilingsOf(fewer).total = LimitOf[r].total /\ CeilingsOf(fewer).host = LimitOf[q].host
  BY <1>1, CeilingsBound
<1>3. CeilingsOf(these).total >= LimitOf[r].total /\ CeilingsOf(these).host >= LimitOf[q].host
  BY CeilingsBound
<1> QED
  BY <1>2, <1>3, CeilingsBound, ReservationsAssumption

\* The physical connections are finitely many.
LEMMA PhysicalFinite ==
  ASSUME NEW S, S \subseteq Conn
  PROVE  IsFiniteSet(S) /\ Cardinality(S) \in Nat
BY FS_Subset, FS_CardinalityType, ReservationsAssumption

\* A reservation for each connection that starts.
LEMMA OneMore ==
  ASSUME ReservationsTypeOK, CountsInv, NEW c \in Conn, c \notin Physical,
         Physical' = Physical \cup {c}, Reserve(RemoteOf[c])
  PROVE  CountsInv'
<1>1. total' = Cardinality(Physical')
  BY PhysicalFinite, FS_AddElement DEF CountsInv, Reserve, Physical
<1>2. ASSUME NEW h \in Remote PROVE hosts'[h] = Cardinality(PhysicalTo(h)')
  <2>1. CASE h = RemoteOf[c]
    <3>1. PhysicalTo(h)' = PhysicalTo(h) \cup {c} /\ c \notin PhysicalTo(h)
      BY <2>1 DEF PhysicalTo
    <3>2. IsFiniteSet(PhysicalTo(h))
      BY PhysicalFinite DEF PhysicalTo, Physical
    <3>3. Cardinality(PhysicalTo(h)') = Cardinality(PhysicalTo(h)) + 1
      BY <3>1, <3>2, FS_AddElement
    <3> QED
      BY <2>1, <3>3 DEF CountsInv, Reserve, ReservationsTypeOK
  <2>2. CASE h # RemoteOf[c]
    <3>1. PhysicalTo(h)' = PhysicalTo(h)
      BY <2>2 DEF PhysicalTo
    <3> QED
      BY <2>2, <3>1 DEF CountsInv, Reserve, ReservationsTypeOK
  <2> QED
    BY <2>1, <2>2
<1> QED
  BY <1>1, <1>2 DEF CountsInv

\* ... returned once for each that is disposed of ...
LEMMA OneLess ==
  ASSUME ReservationsTypeOK, CountsInv, NEW c \in Physical,
         Physical' = Physical \ {c}, total' = total - 1,
         hosts' = [hosts EXCEPT ![RemoteOf[c]] = hosts[RemoteOf[c]] - 1]
  PROVE  CountsInv'
<1>1. total' = Cardinality(Physical')
  BY PhysicalFinite, FS_RemoveElement DEF CountsInv, Physical
<1>2. ASSUME NEW h \in Remote PROVE hosts'[h] = Cardinality(PhysicalTo(h)')
  <2>1. CASE h = RemoteOf[c]
    <3>1. PhysicalTo(h)' = PhysicalTo(h) \ {c} /\ c \in PhysicalTo(h)
      BY <2>1 DEF PhysicalTo
    <3>2. IsFiniteSet(PhysicalTo(h))
      BY PhysicalFinite DEF PhysicalTo, Physical
    <3>3. Cardinality(PhysicalTo(h)') = Cardinality(PhysicalTo(h)) - 1
      BY <3>1, <3>2, FS_RemoveElement
    <3> QED
      BY <2>1, <3>3 DEF CountsInv, ReservationsTypeOK
  <2>2. CASE h # RemoteOf[c]
    <3>1. PhysicalTo(h)' = PhysicalTo(h)
      BY <2>2 DEF PhysicalTo
    <3> QED
      BY <2>2, <3>1 DEF CountsInv, ReservationsTypeOK
  <2> QED
    BY <2>1, <2>2
<1> QED
  BY <1>1, <1>2 DEF CountsInv

\* ... and for all that a dropped host ends at once.
LEMMA SomeLess ==
  ASSUME ReservationsTypeOK, CountsInv, NEW gone \in SUBSET Physical,
         Physical' = Physical \ gone, total' = total - Cardinality(gone),
         hosts' = [h \in Remote |-> hosts[h] - Cardinality({c \in gone : RemoteOf[c] = h})]
  PROVE  CountsInv'
<1>1. total' = Cardinality(Physical')
  <2>1. Physical \cap gone = gone /\ IsFiniteSet(Physical)
    BY PhysicalFinite DEF Physical
  <2>2. Cardinality(Physical \ gone) = Cardinality(Physical) - Cardinality(gone)
    BY <2>1, FS_Difference
  <2> QED
    BY <2>2 DEF CountsInv
<1>2. ASSUME NEW h \in Remote PROVE hosts'[h] = Cardinality(PhysicalTo(h)')
  <2> DEFINE goneTo == {c \in gone : RemoteOf[c] = h}
  <2>1. PhysicalTo(h)' = PhysicalTo(h) \ goneTo /\ PhysicalTo(h) \cap goneTo = goneTo
    BY DEF PhysicalTo
  <2>2. IsFiniteSet(PhysicalTo(h))
    BY PhysicalFinite DEF PhysicalTo, Physical
  <2>3. Cardinality(PhysicalTo(h)') = Cardinality(PhysicalTo(h)) - Cardinality(goneTo)
    BY <2>1, <2>2, FS_Difference
  <2> QED
    BY <2>3 DEF CountsInv
<1> QED
  BY <1>1, <1>2 DEF CountsInv

\* Every step keeps the counts exact.
LEMMA CountsStep ==
  ReservationsTypeOK /\ OrderedInv /\ CountsInv /\ [ReservationsNext]_resVars => CountsInv'
<1> SUFFICES ASSUME ReservationsTypeOK /\ OrderedInv /\ CountsInv,
                    [ReservationsNext]_resVars
             PROVE CountsInv'
  OBVIOUS
<1> USE ReservationsAssumption DEF ReservationsTypeOK, CountsInv, ConnStates
<1>1. ASSUME NEW p \in Pool, TurnBegins(p) PROVE CountsInv'
  <2>1. Physical' = Physical
    BY <1>1 DEF TurnBegins, Physical
  <2> QED
    BY <1>1, <2>1 DEF TurnBegins, PhysicalTo
<1>2. ASSUME NEW p \in Pool, TurnEnds(p) PROVE CountsInv'
  <2>1. Physical' = Physical
    BY <1>2 DEF TurnEnds, Physical
  <2> QED
    BY <1>2, <2>1 DEF TurnEnds, PhysicalTo
<1>3. ASSUME NEW c \in Conn, Begin(c) PROVE CountsInv'
  <2>1. c \notin Physical
    BY <1>3 DEF Begin, Physical
  <2>2. CASE ~Free(RemoteOf[c])
    <3>1. Physical' = Physical
      BY <1>3, <2>2 DEF Begin, Physical
    <3> QED
      BY <1>3, <2>2, <3>1 DEF Begin, PhysicalTo
  <2>3. CASE Free(RemoteOf[c])
    <3>1. Physical' = Physical \cup {c} /\ Reserve(RemoteOf[c])
      BY <1>3, <2>3 DEF Begin, Physical
    <3> QED
      BY <2>1, <3>1, OneMore
  <2> QED
    BY <2>2, <2>3
<1>4. ASSUME NEW c \in Conn, BeginFails(c) PROVE CountsInv'
  <2>1. Physical' = Physical
    BY <1>4 DEF BeginFails, Physical
  <2> QED
    BY <1>4, <2>1 DEF BeginFails, PhysicalTo
<1>5. ASSUME NEW c \in Conn, PollWaiting(c) PROVE CountsInv'
  <2>1. c \notin Physical
    BY <1>5 DEF PollWaiting, Physical
  <2>2. CASE ~Free(RemoteOf[c])
    <3>1. Physical' = Physical
      BY <1>5, <2>2 DEF PollWaiting, Physical
    <3> QED
      BY <1>5, <2>2, <3>1 DEF PollWaiting, PhysicalTo
  <2>3. CASE Free(RemoteOf[c])
    <3>1. Physical' = Physical \cup {c} /\ Reserve(RemoteOf[c])
      BY <1>5, <2>3 DEF PollWaiting, Physical
    <3> QED
      BY <2>1, <3>1, OneMore
  <2> QED
    BY <2>2, <2>3
<1>6. ASSUME NEW c \in Conn, PollWaitingFails(c) PROVE CountsInv'
  <2>1. Physical' = Physical
    BY <1>6 DEF PollWaitingFails, Physical
  <2> QED
    BY <1>6, <2>1 DEF PollWaitingFails, PhysicalTo
<1>7. ASSUME NEW c \in Conn, PollSettled(c) PROVE CountsInv'
  <2>1. Physical' = Physical
    BY <1>7 DEF PollSettled, Physical
  <2> QED
    BY <1>7, <2>1 DEF PollSettled, PhysicalTo
<1>8. ASSUME NEW c \in Conn, Obey(c) PROVE CountsInv'
  <2>1. Physical' = Physical
    BY <1>8 DEF Obey, Physical, OrderedInv
  <2> QED
    BY <1>8, <2>1 DEF Obey, PhysicalTo
<1>9. ASSUME NEW c \in Conn, Dispose(c) PROVE CountsInv'
  <2>1. c \in Physical /\ Physical' = Physical \ {c}
    BY <1>9 DEF Dispose, Physical
  <2>2. total' = total - 1 /\ hosts' = [hosts EXCEPT ![RemoteOf[c]] = hosts[RemoteOf[c]] - 1]
    BY <1>9 DEF Dispose, GiveBack
  <2> QED
    BY <2>1, <2>2, OneLess
<1>10. ASSUME NEW c \in Conn, PollIdly(c) PROVE CountsInv'
  <2>1. Physical' = Physical
    BY <1>10 DEF PollIdly, Physical
  <2> QED
    BY <1>10, <2>1 DEF PollIdly, PhysicalTo
<1>11. ASSUME NEW c \in Conn, Checkout(c) PROVE CountsInv'
  <2>1. Physical' = Physical
    BY <1>11 DEF Checkout, Physical
  <2> QED
    BY <1>11, <2>1 DEF Checkout, PhysicalTo
<1>12. ASSUME NEW c \in Conn, Work(c) PROVE CountsInv'
  <2>1. Physical' = Physical
    BY <1>12 DEF Work, Physical
  <2> QED
    BY <1>12, <2>1 DEF Work, PhysicalTo
<1>13. ASSUME NEW c \in Conn, ClosePooled(c) PROVE CountsInv'
  <2>1. Physical' = Physical
    BY <1>13 DEF ClosePooled, Physical
  <2> QED
    BY <1>13, <2>1 DEF ClosePooled, PhysicalTo
<1>14. ASSUME NEW p \in Pool, Deliver(p) PROVE CountsInv'
  <2>1. Physical' = Physical
    BY <1>14 DEF Deliver, Physical
  <2> QED
    BY <1>14, <2>1 DEF Deliver, PhysicalTo
<1>15. ASSUME NEW p \in Pool, DropHost(p) PROVE CountsInv'
  <2> DEFINE mine == {c \in Conn : PoolOf[c] = p}
  <2>1. PICK stopped \in SUBSET (mine \cap Physical) :
          /\ conn' = [c \in Conn |->
                IF c \in (mine \cap Physical) \ stopped THEN "lost"
                ELSE IF c \in mine THEN "over" ELSE conn[c]]
          /\ total' = total - Cardinality(stopped)
          /\ hosts' = [h \in Remote |->
                hosts[h] - Cardinality({c \in stopped : RemoteOf[c] = h})]
    BY <1>15 DEF DropHost
  <2>2. Physical' = Physical \ stopped
    BY <2>1 DEF Physical
  <2> QED
    BY <2>1, <2>2, SomeLess
<1>16. ASSUME NEW r \in Request, AdmitOperation(r) PROVE CountsInv'
  <2>1. Physical' = Physical
    BY <1>16 DEF AdmitOperation, Physical
  <2> QED
    BY <1>16, <2>1 DEF AdmitOperation, PhysicalTo
<1>17. ASSUME NEW r \in Request, EndOperation(r) PROVE CountsInv'
  <2>1. Physical' = Physical
    BY <1>17 DEF EndOperation, Physical
  <2> QED
    BY <1>17, <2>1 DEF EndOperation, PhysicalTo
<1>18. CASE UNCHANGED resVars
  <2>1. Physical' = Physical
    BY <1>18 DEF resVars, Physical
  <2> QED
    BY <1>18, <2>1 DEF resVars, PhysicalTo
<1> QED
  BY <1>1, <1>2, <1>3, <1>4, <1>5, <1>6, <1>7, <1>8, <1>9, <1>10, <1>11,
     <1>12, <1>13, <1>14, <1>15, <1>16, <1>17, <1>18
  DEF ReservationsNext, Drive

\* Exact counts are naturals.
LEMMA CountsNatural ==
  ASSUME CountsInv', DOMAIN hosts' = Remote, hosts' = [h \in Remote |-> hosts'[h]]
  PROVE  total' \in Nat /\ hosts' \in [Remote -> Nat]
<1>1. Cardinality(Physical') \in Nat
  BY PhysicalFinite DEF Physical
<1>2. \A h \in Remote : Cardinality(PhysicalTo(h)') \in Nat
  BY PhysicalFinite DEF PhysicalTo, Physical
<1> QED
  BY <1>1, <1>2 DEF CountsInv

\* Every step keeps the types; that the counts stay natural rests on their
\* being exact.
LEMMA ReservationsTypeStep ==
  ReservationsTypeOK /\ CountsInv' /\ [ReservationsNext]_resVars => ReservationsTypeOK'
<1> SUFFICES ASSUME ReservationsTypeOK /\ CountsInv', [ReservationsNext]_resVars
             PROVE ReservationsTypeOK'
  OBVIOUS
<1> USE ReservationsAssumption DEF ReservationsTypeOK, ConnStates
<1>1. ASSUME NEW p \in Pool, TurnBegins(p) PROVE ReservationsTypeOK'
  BY <1>1 DEF TurnBegins
<1>2. ASSUME NEW p \in Pool, TurnEnds(p) PROVE ReservationsTypeOK'
  BY <1>2 DEF TurnEnds
<1>3. ASSUME NEW c \in Conn, Begin(c) PROVE ReservationsTypeOK'
  <2>1. total' \in Nat /\ hosts' \in [Remote -> Nat]
    BY <1>3 DEF Begin, Reserve
  <2>2. conn' \in [Conn -> ConnStates]
    BY <1>3 DEF Begin
  <2> QED
    BY <1>3, <2>1, <2>2 DEF Begin
<1>4. ASSUME NEW c \in Conn, BeginFails(c) PROVE ReservationsTypeOK'
  BY <1>4 DEF BeginFails
<1>5. ASSUME NEW c \in Conn, PollWaiting(c) PROVE ReservationsTypeOK'
  <2>1. total' \in Nat /\ hosts' \in [Remote -> Nat]
    BY <1>5 DEF PollWaiting, Reserve
  <2>2. conn' \in [Conn -> ConnStates]
    BY <1>5 DEF PollWaiting
  <2> QED
    BY <1>5, <2>1, <2>2 DEF PollWaiting
<1>6. ASSUME NEW c \in Conn, PollWaitingFails(c) PROVE ReservationsTypeOK'
  BY <1>6 DEF PollWaitingFails
<1>7. ASSUME NEW c \in Conn, PollSettled(c) PROVE ReservationsTypeOK'
  BY <1>7 DEF PollSettled
<1>8. ASSUME NEW c \in Conn, Obey(c) PROVE ReservationsTypeOK'
  BY <1>8 DEF Obey
<1>9. ASSUME NEW c \in Conn, Dispose(c) PROVE ReservationsTypeOK'
  <2>1. total' \in Nat /\ hosts' \in [Remote -> Nat]
    BY CountsNatural, <1>9 DEF Dispose, GiveBack
  <2> QED
    BY <1>9, <2>1 DEF Dispose, GiveBack
<1>10. ASSUME NEW c \in Conn, PollIdly(c) PROVE ReservationsTypeOK'
  BY <1>10 DEF PollIdly
<1>11. ASSUME NEW c \in Conn, Checkout(c) PROVE ReservationsTypeOK'
  BY <1>11 DEF Checkout
<1>12. ASSUME NEW c \in Conn, Work(c) PROVE ReservationsTypeOK'
  BY <1>12 DEF Work
<1>13. ASSUME NEW c \in Conn, ClosePooled(c) PROVE ReservationsTypeOK'
  BY <1>13 DEF ClosePooled
<1>14. ASSUME NEW p \in Pool, Deliver(p) PROVE ReservationsTypeOK'
  BY <1>14 DEF Deliver
<1>15. ASSUME NEW p \in Pool, DropHost(p) PROVE ReservationsTypeOK'
  <2>1. total' \in Nat /\ hosts' \in [Remote -> Nat]
    BY CountsNatural, <1>15 DEF DropHost
  <2> QED
    BY <1>15, <2>1 DEF DropHost
<1>16. ASSUME NEW r \in Request, AdmitOperation(r) PROVE ReservationsTypeOK'
  BY <1>16 DEF AdmitOperation
<1>17. ASSUME NEW r \in Request, EndOperation(r) PROVE ReservationsTypeOK'
  BY <1>17 DEF EndOperation
<1>18. CASE UNCHANGED resVars
  BY <1>18 DEF resVars
<1> QED
  BY <1>1, <1>2, <1>3, <1>4, <1>5, <1>6, <1>7, <1>8, <1>9, <1>10, <1>11,
     <1>12, <1>13, <1>14, <1>15, <1>16, <1>17, <1>18
  DEF ReservationsNext, Drive

\* Every step keeps the orders to connections that can obey them.
LEMMA OrderedStep == ReservationsTypeOK /\ OrderedInv /\ [ReservationsNext]_resVars => OrderedInv'
<1> SUFFICES ASSUME ReservationsTypeOK /\ OrderedInv, [ReservationsNext]_resVars PROVE OrderedInv'
  OBVIOUS
<1> USE ReservationsAssumption DEF ReservationsTypeOK, OrderedInv, ConnStates, Polled
<1>1. ASSUME NEW p \in Pool, TurnBegins(p) PROVE OrderedInv'
  BY <1>1 DEF TurnBegins
<1>2. ASSUME NEW p \in Pool, TurnEnds(p) PROVE OrderedInv'
  BY <1>2 DEF TurnEnds
<1>3. ASSUME NEW c \in Conn, Begin(c) PROVE OrderedInv'
  BY <1>3 DEF Begin
<1>4. ASSUME NEW c \in Conn, BeginFails(c) PROVE OrderedInv'
  BY <1>4 DEF BeginFails
<1>5. ASSUME NEW c \in Conn, PollWaiting(c) PROVE OrderedInv'
  BY <1>5 DEF PollWaiting
<1>6. ASSUME NEW c \in Conn, PollWaitingFails(c) PROVE OrderedInv'
  BY <1>6 DEF PollWaitingFails
<1>7. ASSUME NEW c \in Conn, PollSettled(c) PROVE OrderedInv'
  BY <1>7 DEF PollSettled
<1>8. ASSUME NEW c \in Conn, Obey(c) PROVE OrderedInv'
  BY <1>8 DEF Obey
<1>9. ASSUME NEW c \in Conn, Dispose(c) PROVE OrderedInv'
  BY <1>9 DEF Dispose
<1>10. ASSUME NEW c \in Conn, PollIdly(c) PROVE OrderedInv'
  BY <1>10 DEF PollIdly
<1>11. ASSUME NEW c \in Conn, Checkout(c) PROVE OrderedInv'
  BY <1>11 DEF Checkout
<1>12. ASSUME NEW c \in Conn, Work(c) PROVE OrderedInv'
  BY <1>12 DEF Work
<1>13. ASSUME NEW c \in Conn, ClosePooled(c) PROVE OrderedInv'
  BY <1>13 DEF ClosePooled
<1>14. ASSUME NEW p \in Pool, Deliver(p) PROVE OrderedInv'
  BY <1>14 DEF Deliver
<1>15. ASSUME NEW p \in Pool, DropHost(p) PROVE OrderedInv'
  BY <1>15 DEF DropHost
<1>16. ASSUME NEW r \in Request, AdmitOperation(r) PROVE OrderedInv'
  BY <1>16 DEF AdmitOperation
<1>17. ASSUME NEW r \in Request, EndOperation(r) PROVE OrderedInv'
  BY <1>17 DEF EndOperation
<1>18. CASE UNCHANGED resVars
  BY <1>18 DEF resVars
<1> QED
  BY <1>1, <1>2, <1>3, <1>4, <1>5, <1>6, <1>7, <1>8, <1>9, <1>10, <1>11,
     <1>12, <1>13, <1>14, <1>15, <1>16, <1>17, <1>18
  DEF ReservationsNext, Drive

\* Every step keeps a waiting connection within reach of a wake.
LEMMA WaitingStep ==
  ReservationsTypeOK /\ OrderedInv /\ WaitingInv /\ [ReservationsNext]_resVars
      => WaitingInv'
<1> SUFFICES ASSUME ReservationsTypeOK /\ OrderedInv /\ WaitingInv,
                    [ReservationsNext]_resVars
             PROVE WaitingInv'
  OBVIOUS
<1> USE ReservationsAssumption DEF ReservationsTypeOK, OrderedInv, WaitingInv, ConnStates, Polled
<1>1. ASSUME NEW p \in Pool, TurnBegins(p) PROVE WaitingInv'
  BY <1>1 DEF TurnBegins
<1>2. ASSUME NEW p \in Pool, TurnEnds(p) PROVE WaitingInv'
  BY <1>2 DEF TurnEnds
<1>3. ASSUME NEW c \in Conn, Begin(c) PROVE WaitingInv'
  BY <1>3 DEF Begin
<1>4. ASSUME NEW c \in Conn, BeginFails(c) PROVE WaitingInv'
  BY <1>4 DEF BeginFails
<1>5. ASSUME NEW c \in Conn, PollWaiting(c) PROVE WaitingInv'
  BY <1>5 DEF PollWaiting
<1>6. ASSUME NEW c \in Conn, PollWaitingFails(c) PROVE WaitingInv'
  BY <1>6 DEF PollWaitingFails
<1>7. ASSUME NEW c \in Conn, PollSettled(c) PROVE WaitingInv'
  BY <1>7 DEF PollSettled
<1>8. ASSUME NEW c \in Conn, Obey(c) PROVE WaitingInv'
  BY <1>8 DEF Obey
<1>9. ASSUME NEW c \in Conn, Dispose(c) PROVE WaitingInv'
  BY <1>9 DEF Dispose, GiveBack
<1>10. ASSUME NEW c \in Conn, PollIdly(c) PROVE WaitingInv'
  BY <1>10 DEF PollIdly
<1>11. ASSUME NEW c \in Conn, Checkout(c) PROVE WaitingInv'
  BY <1>11 DEF Checkout
<1>12. ASSUME NEW c \in Conn, Work(c) PROVE WaitingInv'
  BY <1>12 DEF Work
<1>13. ASSUME NEW c \in Conn, ClosePooled(c) PROVE WaitingInv'
  BY <1>13 DEF ClosePooled
<1>14. ASSUME NEW p \in Pool, Deliver(p) PROVE WaitingInv'
  BY <1>14 DEF Deliver
<1>15. ASSUME NEW p \in Pool, DropHost(p) PROVE WaitingInv'
  BY <1>15 DEF DropHost, Physical
<1>16. ASSUME NEW r \in Request, AdmitOperation(r) PROVE WaitingInv'
  BY <1>16 DEF AdmitOperation
<1>17. ASSUME NEW r \in Request, EndOperation(r) PROVE WaitingInv'
  BY <1>17 DEF EndOperation
<1>18. CASE UNCHANGED resVars
  BY <1>18 DEF resVars
<1> QED
  BY <1>1, <1>2, <1>3, <1>4, <1>5, <1>6, <1>7, <1>8, <1>9, <1>10, <1>11,
     <1>12, <1>13, <1>14, <1>15, <1>16, <1>17, <1>18
  DEF ReservationsNext, Drive

\* Every step keeps a waiting connection from sleeping over a reservation: what
\* makes one free, a return or a raised ceiling, empties the list of waiters, and
\* the ceilings only fall while the connection's own request stays live.
LEMMA NoSleepStep == ReservationsInv /\ [ReservationsNext]_resVars => NoSleepingConnection'
<1> SUFFICES ASSUME ReservationsInv, [ReservationsNext]_resVars PROVE NoSleepingConnection'
  OBVIOUS
<1> USE ReservationsAssumption
      DEF ReservationsInv, ReservationsTypeOK, WaitingInv, NoSleepingConnection, ConnStates,
          Polled
<1>1. ASSUME NEW p \in Pool, TurnBegins(p) PROVE NoSleepingConnection'
  BY <1>1 DEF TurnBegins, Free, Ceilings
<1>2. ASSUME NEW p \in Pool, TurnEnds(p) PROVE NoSleepingConnection'
  BY <1>2 DEF TurnEnds, Free, Ceilings
<1>3. ASSUME NEW c \in Conn, Begin(c) PROVE NoSleepingConnection'
  <2>1. /\ total' >= total /\ total' \in Nat
        /\ \A h \in Remote : hosts'[h] >= hosts[h] /\ hosts'[h] \in Nat
    BY <1>3 DEF Begin, Reserve
  <2>2. Ceilings' = Ceilings /\ Ceilings.total \in Nat /\ Ceilings.host \in Nat
    BY <1>3, CeilingsBound DEF Begin, Ceilings
  <2>3. \A h \in Remote : Free(h)' => Free(h)
    BY <2>1, <2>2 DEF Free
  <2> QED
    BY <1>3, <2>3 DEF Begin
<1>4. ASSUME NEW c \in Conn, BeginFails(c) PROVE NoSleepingConnection'
  BY <1>4 DEF BeginFails, Free, Ceilings
<1>5. ASSUME NEW c \in Conn, PollWaiting(c) PROVE NoSleepingConnection'
  <2>1. /\ total' >= total /\ total' \in Nat
        /\ \A h \in Remote : hosts'[h] >= hosts[h] /\ hosts'[h] \in Nat
    BY <1>5 DEF PollWaiting, Reserve
  <2>2. Ceilings' = Ceilings /\ Ceilings.total \in Nat /\ Ceilings.host \in Nat
    BY <1>5, CeilingsBound DEF PollWaiting, Ceilings
  <2>3. \A h \in Remote : Free(h)' => Free(h)
    BY <2>1, <2>2 DEF Free
  <2> QED
    BY <1>5, <2>3 DEF PollWaiting
<1>6. ASSUME NEW c \in Conn, PollWaitingFails(c) PROVE NoSleepingConnection'
  BY <1>6 DEF PollWaitingFails, Free, Ceilings
<1>7. ASSUME NEW c \in Conn, PollSettled(c) PROVE NoSleepingConnection'
  BY <1>7 DEF PollSettled, Free, Ceilings
<1>8. ASSUME NEW c \in Conn, Obey(c) PROVE NoSleepingConnection'
  BY <1>8 DEF Obey, Free, Ceilings
<1>9. ASSUME NEW c \in Conn, Dispose(c) PROVE NoSleepingConnection'
  BY <1>9 DEF Dispose, GiveBack
<1>10. ASSUME NEW c \in Conn, PollIdly(c) PROVE NoSleepingConnection'
  BY <1>10 DEF PollIdly, Free, Ceilings
<1>11. ASSUME NEW c \in Conn, Checkout(c) PROVE NoSleepingConnection'
  BY <1>11 DEF Checkout, Free, Ceilings
<1>12. ASSUME NEW c \in Conn, Work(c) PROVE NoSleepingConnection'
  BY <1>12 DEF Work, Free, Ceilings
<1>13. ASSUME NEW c \in Conn, ClosePooled(c) PROVE NoSleepingConnection'
  BY <1>13 DEF ClosePooled, Free, Ceilings
<1>14. ASSUME NEW p \in Pool, Deliver(p) PROVE NoSleepingConnection'
  BY <1>14 DEF Deliver, Free, Ceilings
<1>15. ASSUME NEW p \in Pool, DropHost(p) PROVE NoSleepingConnection'
  <2>1. CASE total' = total /\ hosts' = hosts
    BY <1>15, <2>1 DEF DropHost, Free, Ceilings
  <2>2. CASE waiters \ {p} \subseteq waking' /\ waking \ {p} \subseteq waking'
    BY <1>15, <2>2 DEF DropHost
  <2>3. \/ total' = total /\ hosts' = hosts
        \/ waiters \ {p} \subseteq waking' /\ waking \ {p} \subseteq waking'
    <3>1. PICK stopped :
            /\ total' = total - Cardinality(stopped)
            /\ hosts' = [h \in Remote |->
                  hosts[h] - Cardinality({c \in stopped : RemoteOf[c] = h})]
            /\ waking' = (IF stopped # {} THEN waking \cup waiters
                          ELSE waking) \ {p}
      BY <1>15 DEF DropHost
    <3>2. CASE stopped = {}
      <4>1. \A h \in Remote : {c \in stopped : RemoteOf[c] = h} = {}
        BY <3>2
      <4> QED
        BY <3>1, <3>2, <4>1, FS_EmptySet
    <3>3. CASE stopped # {}
      BY <3>1, <3>3
    <3> QED
      BY <3>2, <3>3
  <2> QED
    BY <2>1, <2>2, <2>3
<1>16. ASSUME NEW r \in Request, AdmitOperation(r) PROVE NoSleepingConnection'
  <2> DEFINE after == CeilingsOf(live \cup {r})
             rose == after.total > Ceilings.total \/ after.host > Ceilings.host
  <2>1. CASE rose
    BY <1>16, <2>1 DEF AdmitOperation
  <2>2. CASE ~rose
    <3>1. /\ after.total \in Nat /\ after.host \in Nat
          /\ Ceilings.total \in Nat /\ Ceilings.host \in Nat
      BY CeilingsBound DEF Ceilings
    <3>2. after.total <= Ceilings.total /\ after.host <= Ceilings.host
      BY <2>2, <3>1
    <3>3. Ceilings' = after
      BY <1>16 DEF AdmitOperation, Ceilings
    <3> HIDE DEF after
    <3>4. \A h \in Remote : Free(h)' => Free(h)
      BY <1>16, <3>1, <3>2, <3>3 DEF AdmitOperation, Free
    <3> QED
      BY <1>16, <3>4 DEF AdmitOperation
  <2> QED
    BY <2>1, <2>2
<1>17. ASSUME NEW r \in Request, EndOperation(r) PROVE NoSleepingConnection'
  <2>1. CASE live \ {r} = {}
    BY <1>17, <2>1 DEF EndOperation
  <2>2. CASE live \ {r} # {}
    <3>1. Ceilings'.total <= Ceilings.total /\ Ceilings'.host <= Ceilings.host
      BY <1>17, <2>2, CeilingsFall DEF EndOperation, Ceilings
    <3>2. /\ Ceilings'.total \in Nat /\ Ceilings'.host \in Nat
          /\ Ceilings.total \in Nat /\ Ceilings.host \in Nat
      BY <1>17, CeilingsBound DEF Ceilings, EndOperation
    <3>3. \A h \in Remote : Free(h)' => Free(h)
      BY <1>17, <3>1, <3>2 DEF EndOperation, Free
    <3> QED
      BY <1>17, <3>3 DEF EndOperation
  <2> QED
    BY <2>1, <2>2
<1>18. CASE UNCHANGED resVars
  BY <1>18 DEF resVars, Free, Ceilings
<1> QED
  BY <1>1, <1>2, <1>3, <1>4, <1>5, <1>6, <1>7, <1>8, <1>9, <1>10, <1>11,
     <1>12, <1>13, <1>14, <1>15, <1>16, <1>17, <1>18
  DEF ReservationsNext, Drive

\* The initial state satisfies the reservations' inductive invariant.
LEMMA ReservationsBase == ReservationsInit => ReservationsInv
<1> SUFFICES ASSUME ReservationsInit PROVE ReservationsInv
  OBVIOUS
<1>1. Physical = {} /\ \A h \in Remote : PhysicalTo(h) = {}
  BY DEF ReservationsInit, Physical, PhysicalTo
<1>2. CountsInv
  BY <1>1, FS_EmptySet DEF ReservationsInit, CountsInv
<1> QED
  BY <1>2 DEF ReservationsInit, ReservationsInv, ReservationsTypeOK, ConnStates,
              OrderedInv, WaitingInv, NoSleepingConnection

\* Every step keeps the reservations' inductive invariant.
LEMMA ReservationsStep == ReservationsInv /\ [ReservationsNext]_resVars => ReservationsInv'
BY CountsStep, ReservationsTypeStep, OrderedStep, WaitingStep, NoSleepStep DEF ReservationsInv

\* The reservations and the drivers' turns keep their types; no count goes
\* below zero.
THEOREM ReservationsTypeCorrect == ReservationsSpec => []ReservationsTypeOK
<1>1. ReservationsInv => ReservationsTypeOK
  BY DEF ReservationsInv
<1> QED
  BY <1>1, ReservationsBase, ReservationsStep, PTL DEF ReservationsSpec

\* The authority's totals are exact at every moment: the connections that
\* exist physically, in all and per host, whatever failed, was cancelled or
\* was dropped on the way (`Reservation`, its drop).
THEOREM ReservationsExact == ReservationsSpec => []CountsInv
<1>1. ReservationsInv => CountsInv
  BY DEF ReservationsInv
<1> QED
  BY <1>1, ReservationsBase, ReservationsStep, PTL DEF ReservationsSpec

\* For any connections, pools, hosts, requests and limits, no connection of a
\* live request sleeps over a reservation it would be given (`take`,
\* `admit_operation`, the drop of a Reservation).
THEOREM ReservationsCorrect == ReservationsSpec => []NoSleepingConnection
<1>1. ReservationsInv => NoSleepingConnection
  BY DEF ReservationsInv
<1> QED
  BY <1>1, ReservationsBase, ReservationsStep, PTL DEF ReservationsSpec

\* A connection comes to exist only within the ceilings of that moment: with
\* it, the physical connections of both pools together, and those to its host,
\* are no more than the live requests allow (`take`).
GrantWithinCeilings ==
  \A c \in Physical' \ Physical :
    /\ Cardinality(Physical') <= Ceilings.total
    /\ Cardinality(PhysicalTo(RemoteOf[c])') <= Ceilings.host

\* Every connection that starts is within the ceilings, because the counts
\* they are compared with are exact.
THEOREM GrantsWithinCeilings == ReservationsSpec => [][GrantWithinCeilings]_resVars
<1>1. ReservationsInv /\ ReservationsInv' /\ [ReservationsNext]_resVars
      => [GrantWithinCeilings]_resVars
  <2> SUFFICES ASSUME ReservationsInv, ReservationsInv', ReservationsNext,
                      NEW c \in Physical' \ Physical
               PROVE  /\ Cardinality(Physical') <= Ceilings.total
                      /\ Cardinality(PhysicalTo(RemoteOf[c])') <= Ceilings.host
    BY DEF GrantWithinCeilings
  <2> USE ReservationsAssumption DEF ReservationsInv, ReservationsTypeOK, CountsInv
  <2>1. c \in Conn /\ conn[c] \in {"asked", "waiting"} /\ (Begin(c) \/ PollWaiting(c))
    <3> USE DEF Physical, OrderedInv, ConnStates
    <3>1. c \in Conn /\ conn[c] \in {"new", "asked", "waiting", "over"} /\ conn'[c] # conn[c]
          /\ conn'[c] \in {"opening", "settled", "open", "closing", "stopped", "lost"}
      OBVIOUS
    <3>2. ASSUME NEW p \in Pool, TurnBegins(p) \/ TurnEnds(p) \/ Deliver(p) PROVE FALSE
      BY <3>1, <3>2 DEF TurnBegins, TurnEnds, Deliver
    <3>3. ASSUME NEW p \in Pool, DropHost(p) PROVE FALSE
      BY SMTT(30), <3>1, <3>3 DEF DropHost
    <3>4. ASSUME NEW d \in Conn, BeginFails(d) \/ PollWaitingFails(d) \/ PollSettled(d)
                                 \/ Dispose(d) \/ PollIdly(d) \/ Checkout(d) \/ Work(d)
                                 \/ ClosePooled(d)
          PROVE FALSE
      BY <3>1, <3>4 DEF BeginFails, PollWaitingFails, PollSettled, Dispose, PollIdly,
                        Checkout, Work, ClosePooled
    <3>5. ASSUME NEW d \in Conn, Obey(d) PROVE FALSE
      BY <3>1, <3>5 DEF Obey
    <3>6. ASSUME NEW r \in Request, AdmitOperation(r) \/ EndOperation(r) PROVE FALSE
      BY <3>1, <3>6 DEF AdmitOperation, EndOperation
    <3>7. ASSUME NEW d \in Conn, Begin(d) \/ PollWaiting(d)
          PROVE  d = c
      BY <3>1, <3>7 DEF Begin, PollWaiting
    <3>8. \E d \in Conn : Begin(d) \/ PollWaiting(d)
      BY <3>2, <3>3, <3>4, <3>5, <3>6 DEF ReservationsNext, Drive
    <3>9. conn[c] \in {"asked", "waiting"}
      BY <3>7, <3>8 DEF Begin, PollWaiting
    <3> QED
      BY <3>1, <3>7, <3>8, <3>9
  <2>2. Free(RemoteOf[c]) /\ Reserve(RemoteOf[c])
    BY <2>1 DEF Begin, PollWaiting, Physical
  <2>3. /\ total' = total + 1 /\ hosts'[RemoteOf[c]] = hosts[RemoteOf[c]] + 1
        /\ total < Ceilings.total /\ hosts[RemoteOf[c]] < Ceilings.host
    BY <2>1, <2>2 DEF Free, Reserve
  <2>4. Ceilings.total \in Nat /\ Ceilings.host \in Nat
    BY CeilingsBound DEF Ceilings
  <2> QED
    BY <2>1, <2>3, <2>4
<1> QED
  BY <1>1, ReservationsBase, ReservationsStep, PTL DEF ReservationsSpec
=============================================================================
