---------------------------- MODULE MemberLocks ----------------------------
(***************************************************************************)
(* The member lock manager of the host context                             *)
(* (src/operation/memberlockmanager.rs): calls that update a member's refs *)
(* wait for each other, in one process, and a wait ends when the call's    *)
(* token is cancelled.                                                     *)
(*                                                                         *)
(* The manager's mutex is explicit, because a waiter reads its token while *)
(* holding it and the canceller sets the token without it: between that    *)
(* look and the wait another thread may run. A cancellation runs the       *)
(* callbacks attached to the token one after the other on its own thread;  *)
(* each takes the mutex, lets it go and then notifies (`wake`).            *)
(*                                                                         *)
(* A workspace is given by the way a request spells its root. Identity     *)
(* maps a spelling to the filesystem's identity, or to NoIdentity when it  *)
(* cannot be read. State::waiting and `arrived` are read by tests only and *)
(* are left out.                                                           *)
(***************************************************************************)
EXTENDS Naturals, FiniteSets

CONSTANTS Taker,      \* the threads that call `lock`, each once
          Token,      \* the calls' cancellation tokens
          NoToken,
          TokenOf,    \* the token a taker passes, or NoToken
          Spelling,   \* the ways requests spell workspace roots
          Identity,   \* the identity each spelling resolves to
          NoIdentity,
          Member,
          Keying,     \* "identity" (host manager) or "spelling" (per call)
          NoKey,
          Nobody,
          MaxStrays   \* how many waits end without a reason (a bound)

ASSUME MemberLocksAssumption ==
  /\ TokenOf \in [Taker -> Token \cup {NoToken}]
  /\ NoToken \notin Token
  /\ Spelling \subseteq DOMAIN Identity
  /\ Keying \in {"identity", "spelling"}
  /\ Nobody \notin Taker
  /\ MaxStrays \in Nat

VARIABLES
  mutex,      \* who holds the manager's mutex
  heldKeys,   \* State::held, the keys of the members held
  taker,      \* what each taker does
  want,       \* the root and member it asked for
  attached,   \* the takers whose callback is attached to their token
  cancelled,  \* the tokens that are cancelled
  calling,    \* the callbacks a cancellation has taken and not finished
  passed,     \* the takers whose callback has passed the mutex
  roused,     \* the waiters woken since they went to sleep
  strays      \* the waits that ended without a reason so far

memberLocksVars ==
  <<mutex, heldKeys, taker, want, attached, cancelled, calling, passed,
    roused, strays>>

\* A wish of a taker that has not called.
NoWish == [root |-> NoKey, member |-> NoKey]

\* Mutant of KeyOf: the host manager keys by the spelling.
KeyOfSpelling(wish) == <<wish.root, wish.member>>

\* Keying::key, and MemberKey.
KeyOf(wish) ==
  <<IF Keying = "identity" THEN Identity[wish.root] ELSE wish.root,
    wish.member>>

MemberLocksInit ==
  /\ mutex = Nobody
  /\ heldKeys = {}
  /\ taker = [p \in Taker |-> "before"]
  /\ want = [p \in Taker |-> NoWish]
  /\ attached = {}
  /\ cancelled = {}
  /\ calling = {}
  /\ passed = {}
  /\ roused = {}
  /\ strays = 0

\* The threads parked on `changed`.
Parked == {p \in Taker : taker[p] = "parked"}

\* CancellationToken::is_cancelled of the taker's token.
IsCancelled(p) == TokenOf[p] \in cancelled

-----------------------------------------------------------------------------
(* MemberLockManager::lock.                                                *)

\* `lock` attaches its callback, or refuses: the token is cancelled already.
Call(p, root, member) ==
  /\ taker[p] = "before"
  /\ want' = [want EXCEPT ![p] = [root |-> root, member |-> member]]
  /\ \/ /\ IsCancelled(p)
        /\ taker' = [taker EXCEPT ![p] = "refused"]
        /\ UNCHANGED attached
     \/ /\ ~IsCancelled(p)
        /\ taker' = [taker EXCEPT ![p] = "keying"]
        /\ attached' = IF TokenOf[p] = NoToken THEN attached
                       ELSE attached \cup {p}
  /\ UNCHANGED <<mutex, heldKeys, cancelled, calling, passed, roused, strays>>

\* The root's identity is read. Without one the call refuses (io_error).
Key(p) ==
  /\ taker[p] = "keying"
  /\ \/ /\ Keying = "identity"
        /\ Identity[want[p].root] = NoIdentity
        /\ taker' = [taker EXCEPT ![p] = "refusing"]
     \/ /\ Keying = "identity" => Identity[want[p].root] # NoIdentity
        /\ taker' = [taker EXCEPT ![p] = "locking"]
  /\ UNCHANGED <<mutex, heldKeys, want, attached, cancelled, calling, passed,
                 roused, strays>>

\* A wait may also end without a reason.
WakeStray(p) ==
  /\ taker[p] = "parked"
  /\ p \notin roused
  /\ strays < MaxStrays
  /\ strays' = strays + 1
  /\ roused' = roused \cup {p}
  /\ UNCHANGED <<mutex, heldKeys, taker, want, attached, cancelled, calling,
                 passed>>

\* The mutex is taken: at first, or after the wait.
Lock(p) ==
  /\ taker[p] \in {"locking", "parked"}
  /\ taker[p] = "parked" => p \in roused
  /\ mutex = Nobody
  /\ mutex' = p
  /\ taker' = [taker EXCEPT ![p] = "looking"]
  /\ roused' = roused \ {p}
  /\ UNCHANGED <<heldKeys, want, attached, cancelled, calling, passed,
                 strays>>

\* The look at the token, with the mutex held.
Look(p) ==
  /\ taker[p] = "looking"
  /\ \/ /\ IsCancelled(p)
        /\ taker' = [taker EXCEPT ![p] = "refusing"]
        /\ mutex' = Nobody
     \/ /\ ~IsCancelled(p)
        /\ taker' = [taker EXCEPT ![p] = "looked"]
        /\ UNCHANGED mutex
  /\ UNCHANGED <<heldKeys, want, attached, cancelled, calling, passed, roused,
                 strays>>

\* The member is free and is held from here.
Insert(p) ==
  /\ taker[p] = "looked"
  /\ KeyOf(want[p]) \notin heldKeys
  /\ heldKeys' = heldKeys \cup {KeyOf(want[p])}
  /\ taker' = [taker EXCEPT ![p] = "granted"]
  /\ mutex' = Nobody
  /\ UNCHANGED <<want, attached, cancelled, calling, passed, roused, strays>>

\* The member is held: the wait gives the mutex up and sleeps in one step.
Park(p) ==
  /\ taker[p] = "looked"
  /\ KeyOf(want[p]) \in heldKeys
  /\ taker' = [taker EXCEPT ![p] = "parked"]
  /\ mutex' = Nobody
  /\ UNCHANGED <<heldKeys, want, attached, cancelled, calling, passed, roused,
                 strays>>

\* The return: the registration is dropped after the mutex, and detaches the
\* callback if no cancellation has taken it.
Return(p) ==
  /\ taker[p] \in {"granted", "refusing"}
  /\ taker' = [taker EXCEPT ![p] = IF taker[p] = "granted" THEN "holding"
                                   ELSE "refused"]
  /\ attached' = attached \ {p}
  /\ UNCHANGED <<mutex, heldKeys, want, cancelled, calling, passed, roused,
                 strays>>

\* The guard drops, by its holder's return or its unwinding.
Release(p) ==
  /\ taker[p] = "holding"
  /\ mutex = Nobody
  /\ heldKeys' = heldKeys \ {KeyOf(want[p])}
  /\ taker' = [taker EXCEPT ![p] = "notifying"]
  /\ UNCHANGED <<mutex, want, attached, cancelled, calling, passed, roused,
                 strays>>

\* ... and notifies after the unlock.
ReleaseNotifies(p) ==
  /\ taker[p] = "notifying"
  /\ roused' = roused \cup Parked
  /\ taker' = [taker EXCEPT ![p] = "released"]
  /\ UNCHANGED <<mutex, heldKeys, want, attached, cancelled, calling, passed,
                 strays>>

-----------------------------------------------------------------------------
(* A call's cancellation, on a thread of the session.                      *)

\* TokenInner::cancel sets the flag ...
Cancel(t) ==
  /\ t \notin cancelled
  /\ cancelled' = cancelled \cup {t}
  /\ UNCHANGED <<mutex, heldKeys, taker, want, attached, calling, passed,
                 roused, strays>>

\* ... and takes the callbacks attached by then.
TakeCallbacks(t) ==
  LET mine == {p \in attached : TokenOf[p] = t} IN
  /\ t \in cancelled
  /\ mine # {}
  /\ calling' = calling \cup mine
  /\ attached' = attached \ mine
  /\ UNCHANGED <<mutex, heldKeys, taker, want, cancelled, passed, roused,
                 strays>>

\* Mutant of WakeLocks: the mutex is not taken before the notification.
WakeLocksNothing(p) ==
  /\ p \in calling \ passed
  /\ passed' = passed \cup {p}
  /\ UNCHANGED <<mutex, heldKeys, taker, want, attached, cancelled, calling,
                 roused, strays>>

\* Shared::wake takes the mutex and lets it go ...
WakeLocks(p) ==
  /\ p \in calling \ passed
  /\ mutex = Nobody
  /\ passed' = passed \cup {p}
  /\ UNCHANGED <<mutex, heldKeys, taker, want, attached, cancelled, calling,
                 roused, strays>>

\* ... and notifies.
WakeNotifies(p) ==
  /\ p \in calling \cap passed
  /\ calling' = calling \ {p}
  /\ roused' = roused \cup Parked
  /\ UNCHANGED <<mutex, heldKeys, taker, want, attached, cancelled, passed,
                 strays>>

-----------------------------------------------------------------------------
MemberLocksNext ==
  \/ \E p \in Taker :
       \/ \E root \in Spelling, member \in Member : Call(p, root, member)
       \/ Key(p) \/ WakeStray(p) \/ Lock(p) \/ Look(p) \/ Insert(p)
       \/ Park(p) \/ Return(p) \/ Release(p) \/ ReleaseNotifies(p)
       \/ WakeLocks(p) \/ WakeNotifies(p)
  \/ \E t \in Token : Cancel(t) \/ TakeCallbacks(t)

MemberLocksSpec == MemberLocksInit /\ [][MemberLocksNext]_memberLocksVars

\* A thread with the mutex, or with nothing to wait for, goes on; a notified
\* one gets the mutex, which every holder gives back, some day. Nothing is
\* assumed of the holders of members: they may keep them for ever.
MemberLocksFairness ==
  /\ \A p \in Taker :
       /\ WF_memberLocksVars(Lock(p))
       /\ WF_memberLocksVars(WakeLocks(p))
       /\ WF_memberLocksVars(Key(p))
       /\ WF_memberLocksVars(Look(p))
       /\ WF_memberLocksVars(Insert(p))
       /\ WF_memberLocksVars(Park(p))
       /\ WF_memberLocksVars(Return(p))
       /\ WF_memberLocksVars(ReleaseNotifies(p))
       /\ WF_memberLocksVars(WakeNotifies(p))
  /\ \A t \in Token : WF_memberLocksVars(TakeCallbacks(t))

-----------------------------------------------------------------------------
(* Properties.                                                             *)

MemberLocksTypeOK ==
  /\ mutex \in Taker \cup {Nobody}
  /\ taker \in [Taker -> {"before", "keying", "locking", "looking",
                          "looked", "parked", "granted", "holding",
                          "refusing", "refused", "notifying", "released"}]
  /\ attached \subseteq Taker
  /\ calling \subseteq Taker
  /\ passed \subseteq Taker
  /\ roused \subseteq Taker
  /\ cancelled \subseteq Token

\* The takers whose guard is alive.
Guards == {p \in Taker : taker[p] \in {"granted", "holding"}}

\* Under the host manager two live guards never name the same member of the
\* same workspace, however the requests spelled its root, and a member is
\* marked as held exactly while a guard for it lives ("the sessions of one
\* host context never update a member's refs at once").
MemberExclusion ==
  /\ Keying = "identity" =>
       \A p, q \in Guards :
         /\ Identity[want[p].root] = Identity[want[q].root]
         /\ want[p].member = want[q].member
         => p = q
  /\ heldKeys = {KeyOf(want[p]) : p \in Guards}

\* A thread parked on a member is never forgotten: the member is held, or
\* its releaser has yet to notify; and if its token is cancelled its callback
\* has yet to notify (`wake`: "a waiter that has checked its token and not
\* yet parked cannot miss the wake").
NoForgottenWaiter ==
  \A p \in Parked \ roused :
    /\ \/ KeyOf(want[p]) \in heldKeys
       \/ \E q \in Taker : taker[q] = "notifying"
    /\ IsCancelled(p) => p \in attached \cup calling

\* The lock manager excludes and forgets nobody: under any interleaving of
\* `lock`, the guards' drops and cancellations, MemberExclusion and
\* NoForgottenWaiter hold.
LocksSound == MemberExclusion /\ NoForgottenWaiter

\* A wait whose token is cancelled ends, even when the member's holder never
\* lets go ("a wait in progress wakes when the call's token is cancelled").
CancelledWaitEnds ==
  \A p \in Taker :
    (taker[p] = "parked" /\ IsCancelled(p))
      ~> taker[p] \in {"refused", "holding"}
=============================================================================
