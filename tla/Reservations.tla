---------------------------- MODULE Reservations ----------------------------
(***************************************************************************)
(* The physical reservations that the SSH pool and the HTTPS pool of one   *)
(* transport host share (src/git/endpoint/shared_reservation.rs), with the *)
(* turns of the pools' drivers that wait for them (src/git/endpoint/       *)
(* ssh_pool.rs, PoolHost::step_reported).                                  *)
(*                                                                         *)
(* Every connection takes one reservation before it starts and returns it  *)
(* once its disposal completed.  The ceilings move with the requests that  *)
(* are live.  A connection that finds no reservation leaves its driver's   *)
(* waker behind; a driver that is not woken takes no turn.                 *)
(*                                                                         *)
(* External: the pool itself (crate gwz-transport), which decides when a   *)
(* connection is asked for, cancelled and closed.  Its closing stands for  *)
(* the end of a lease, for the idle timeout and for the discard_idle that  *)
(* retire_surplus calls.                                                   *)
(***************************************************************************)
EXTENDS Naturals, FiniteSets, FiniteSetsExt

CONSTANTS Conn,       \* connections, each used once
          Pool,       \* the drivers, one per scheme
          Remote,     \* remote hosts
          Request,    \* requests
          PoolOf,     \* the pool that owns a connection
          RemoteOf,   \* the host a connection goes to
          RequestOf,  \* the request a connection is opened for
          LimitOf,    \* a request's limits, [total, host]
          Base        \* the limits the authority was built with

ASSUME ReservationsAssumption ==
    /\ IsFiniteSet(Conn) /\ IsFiniteSet(Request)
    /\ PoolOf \in [Conn -> Pool]
    /\ RemoteOf \in [Conn -> Remote]
    /\ RequestOf \in [Conn -> Request]
    /\ LimitOf \in [Request -> [total : Nat, host : Nat]]
    /\ Base \in [total : Nat, host : Nat]

VARIABLES
    conn,     \* each connection's place in its life
    ordered,  \* connections the pool told its driver to cancel or close
    total,    \* State::total
    hosts,    \* State::hosts
    live,     \* the requests in State::live
    done,     \* requests that were cancelled or finished
    waiters,  \* the drivers whose waker is in State::waiters
    waking,   \* wakers taken out of the list and not woken yet
    awake,    \* drivers that will take another turn
    driver,   \* each driver: "between" turns, in its "turn", or "dropped"
    unpolled  \* connections whose driver's turn has not polled them yet

resVars == <<conn, ordered, total, hosts, live, done, waiters, waking,
             awake, driver, unpolled>>

\* "asked": the pool wants it; "waiting": Slot::Waiting; "opening" until its
\* setup "settled", "open" (leased or idle), "closing" until it "stopped":
\* Slot::Started with its reservation; "over": disposed of; "lost": its host
\* was dropped with the connection still running.
ConnStates == {"new", "asked", "waiting", "opening", "settled", "open",
               "closing", "stopped", "over", "lost"}

\* The entries whose poll can do something.
Polled == {"waiting", "opening", "settled", "closing", "stopped"}

\* The connections that exist physically.
Physical == {c \in Conn :
                conn[c] \in {"opening", "settled", "open", "closing",
                             "stopped", "lost"}}

ReservationsTypeOK ==
    /\ conn \in [Conn -> ConnStates]
    /\ ordered \subseteq Conn
    /\ total \in Nat
    /\ hosts \in [Remote -> Nat]
    /\ live \subseteq Request /\ done \subseteq Request
    /\ waiters \subseteq Pool /\ waking \subseteq Pool /\ awake \subseteq Pool
    /\ driver \in [Pool -> {"between", "turn", "dropped"}]
    /\ unpolled \subseteq Conn

----------------------------------------------------------------------------

\* The ceilings a reservation is judged against, when `these` are live.
CeilingsOf(these) ==
    IF these = {} THEN Base
    ELSE [total |-> Max({LimitOf[r].total : r \in these}),
          host |-> Max({LimitOf[r].host : r \in these})]

Ceilings == CeilingsOf(live)

\* State::take would give a reservation for the remote host h.
Free(h) == total < Ceilings.total /\ hosts[h] < Ceilings.host

\* The lock's whole section for a taken reservation.
Reserve(h) == /\ total' = total + 1
              /\ hosts' = [hosts EXCEPT ![h] = @ + 1]

\* Mutant of GiveBack: the returned reservation wakes nobody.
GiveBackSilently(h) == /\ total' = total - 1
                       /\ hosts' = [hosts EXCEPT ![h] = @ - 1]
                       /\ UNCHANGED <<waking, waiters>>

\* Drop for Reservation: the counts go down and every waker leaves the list,
\* to be woken after the lock.
GiveBack(h) == /\ total' = total - 1
               /\ hosts' = [hosts EXCEPT ![h] = @ - 1]
               /\ waking' = waking \cup waiters
               /\ waiters' = {}

----------------------------------------------------------------------------

\* External: the pool wants a connection for a live request and wakes the
\* driver that is to make it.
Checkout(c) ==
    /\ conn[c] = "new"
    /\ RequestOf[c] \in live
    /\ driver[PoolOf[c]] # "dropped"
    /\ conn' = [conn EXCEPT ![c] = "asked"]
    /\ awake' = awake \cup {PoolOf[c]}
    /\ UNCHANGED <<ordered, total, hosts, live, done, waiters, waking,
                   driver, unpolled>>

\* A driver that was woken begins a turn over the entries it has; polling an
\* open one does nothing.  An entry made or told to close in a turn is polled
\* by this one or by the next, which it causes.
TurnBegins(p) ==
    /\ driver[p] = "between"
    /\ p \in awake
    /\ awake' = awake \ {p}
    /\ driver' = [driver EXCEPT ![p] = "turn"]
    /\ unpolled' = unpolled \cup {c \in Conn : /\ PoolOf[c] = p
                                               /\ conn[c] \in Polled}
    /\ UNCHANGED <<conn, ordered, total, hosts, live, done, waiters, waking>>

\* The action Connect, begin: the first look at the reservations, with a
\* waker that wakes nothing.  The turn progressed, so another follows.
Begin(c) ==
    LET p == PoolOf[c] IN
    /\ driver[p] = "turn"
    /\ c \notin ordered
    /\ conn[c] = "asked"
    /\ awake' = awake \cup {p}
    /\ \/ /\ Free(RemoteOf[c])
          /\ conn' = [conn EXCEPT ![c] = "opening"]
          /\ Reserve(RemoteOf[c])
       \/ /\ ~ Free(RemoteOf[c])
          /\ conn' = [conn EXCEPT ![c] = "waiting"]
          /\ UNCHANGED <<total, hosts>>
    /\ UNCHANGED <<ordered, live, done, waiters, waking, driver, unpolled>>

\* Begin when the connector refuses to start: the reservation is returned.
BeginFails(c) ==
    LET p == PoolOf[c] IN
    /\ driver[p] = "turn"
    /\ c \notin ordered
    /\ conn[c] = "asked"
    /\ Free(RemoteOf[c])
    /\ conn' = [conn EXCEPT ![c] = "over"]
    /\ awake' = awake \cup {p}
    /\ waking' = waking \cup waiters
    /\ waiters' = {}
    /\ UNCHANGED <<ordered, total, hosts, live, done, driver, unpolled>>

\* poll_connected of a connection without its reservation: refusal and
\* registration are one section of the lock.
PollWaiting(c) ==
    LET p == PoolOf[c] IN
    /\ c \in unpolled
    /\ conn[c] = "waiting" /\ c \notin ordered
    /\ unpolled' = unpolled \ {c}
    /\ \/ /\ Free(RemoteOf[c])
          /\ conn' = [conn EXCEPT ![c] = "opening"]
          /\ Reserve(RemoteOf[c])
          /\ UNCHANGED waiters
       \/ /\ ~ Free(RemoteOf[c])
          /\ waiters' = waiters \cup {p}
          /\ UNCHANGED <<conn, total, hosts>>
    /\ UNCHANGED <<ordered, live, done, waking, awake, driver>>

\* The same poll when the reservation came and the connector fails to start:
\* the reservation is returned, the entry disposed of on the next turn.
PollWaitingFails(c) ==
    LET p == PoolOf[c] IN
    /\ c \in unpolled
    /\ conn[c] = "waiting" /\ c \notin ordered
    /\ Free(RemoteOf[c])
    /\ unpolled' = unpolled \ {c}
    /\ conn' = [conn EXCEPT ![c] = "over"]
    /\ waking' = waking \cup waiters
    /\ waiters' = {}
    /\ awake' = awake \cup {p}
    /\ UNCHANGED <<ordered, total, hosts, live, done, driver>>

\* The setup, or the disposal, of a started connection comes to its end on
\* its own and wakes the driver.
Work(c) ==
    /\ conn[c] \in {"opening", "closing"}
    /\ conn' = [conn EXCEPT ![c] = IF @ = "opening" THEN "settled"
                                  ELSE "stopped"]
    /\ awake' = awake \cup {PoolOf[c]}
    /\ UNCHANGED <<ordered, total, hosts, live, done, waiters, waking, driver,
                   unpolled>>

\* poll_connected of a connection whose setup settled: the open leases it, or
\* it failed and is to be disposed of.
PollSettled(c) ==
    LET p == PoolOf[c] IN
    /\ c \in unpolled
    /\ conn[c] = "settled" /\ c \notin ordered
    /\ \E next \in {"open", "closing"} : conn' = [conn EXCEPT ![c] = next]
    /\ unpolled' = unpolled \ {c}
    /\ awake' = awake \cup {p}
    /\ UNCHANGED <<ordered, total, hosts, live, done, waiters, waking,
                   driver>>

\* The actions CancelConnect, AbortConnect, Close and Abort: a connection that
\* never started ends here (its disposal has nothing to return).
Obey(c) ==
    LET p == PoolOf[c] IN
    /\ driver[p] = "turn"
    /\ c \in ordered
    /\ ordered' = ordered \ {c}
    /\ conn' = [conn EXCEPT ![c] =
                   IF @ \in {"asked", "waiting"} THEN "over"
                   ELSE IF @ = "stopped" THEN @ ELSE "closing"]
    /\ awake' = awake \cup {p}
    /\ UNCHANGED <<total, hosts, live, done, waiters, waking, driver,
                   unpolled>>

\* poll_dispose that completes: only now is the reservation returned.
Dispose(c) ==
    LET p == PoolOf[c] IN
    /\ c \in unpolled
    /\ conn[c] = "stopped"
    /\ conn' = [conn EXCEPT ![c] = "over"]
    /\ GiveBack(RemoteOf[c])
    /\ unpolled' = unpolled \ {c}
    /\ awake' = awake \cup {p}
    /\ UNCHANGED <<ordered, live, done, driver>>

\* A poll that leaves its entry as it is: the resource's own work goes on and
\* will wake the driver.
PollIdly(c) ==
    LET p == PoolOf[c] IN
    /\ c \in unpolled
    /\ \/ conn[c] \notin {"waiting", "settled", "stopped"}
       \/ conn[c] # "stopped" /\ c \in ordered
    /\ unpolled' = unpolled \ {c}
    /\ UNCHANGED <<conn, ordered, total, hosts, live, done, waiters, waking,
                   awake, driver>>

\* The turn ends once its entries were polled and its actions taken; one it
\* could not take any more leaves the driver awake.
TurnEnds(p) ==
    /\ driver[p] = "turn"
    /\ \A c \in Conn : PoolOf[c] = p =>
          c \notin unpolled \cup ordered /\ conn[c] # "asked"
    /\ driver' = [driver EXCEPT ![p] = "between"]
    /\ UNCHANGED <<conn, ordered, total, hosts, live, done, waiters, waking,
                   awake, unpolled>>

\* External: the pool closes a connection, at the end of its lease, for its
\* age, because retire_surplus discards the idle ones of its site, or since
\* the peer closed it while it was idle (then no order precedes the disposal).
ClosePooled(c) ==
    /\ conn[c] = "open"
    /\ c \notin ordered
    /\ ordered' = ordered \cup {c}
    /\ awake' = awake \cup {PoolOf[c]}
    /\ UNCHANGED <<conn, total, hosts, live, done, waiters, waking, driver,
                   unpolled>>

\* A taken waker is woken, outside the lock.
Deliver(p) ==
    /\ p \in waking
    /\ waking' = waking \ {p}
    /\ awake' = awake \cup {p}
    /\ UNCHANGED <<conn, ordered, total, hosts, live, done, waiters, driver,
                   unpolled>>

\* admit_operation: the request's limits count from now on, and every waiting
\* driver is woken when one of the ceilings rose.
AdmitOperation(r) ==
    LET after == CeilingsOf(live \cup {r})
        rose == after.total > Ceilings.total \/ after.host > Ceilings.host IN
    /\ r \notin live \cup done
    /\ live' = live \cup {r}
    /\ waking' = IF rose THEN waking \cup waiters ELSE waking
    /\ waiters' = IF rose THEN {} ELSE waiters
    /\ UNCHANGED <<conn, ordered, total, hosts, done, awake, driver,
                   unpolled>>

\* Session::cancel and end_operation: the pools cancel what the request still
\* opens, then its limits stop counting.  Nobody is woken for the ceilings.
EndOperation(r) ==
    LET gone == {c \in Conn : /\ RequestOf[c] = r
                              /\ conn[c] \in {"asked", "waiting", "opening",
                                            "settled"}}
    IN
    /\ r \in live
    /\ live' = live \ {r}
    /\ done' = done \cup {r}
    /\ ordered' = ordered \cup gone
    /\ awake' = awake \cup {PoolOf[c] : c \in gone}
    /\ UNCHANGED <<conn, total, hosts, waiters, waking, driver, unpolled>>

\* The emergency drop of a PoolHost: every entry is asked to end by force; one
\* that does not complete at once keeps its reservation for good.
DropHost(p) ==
    LET mine == {c \in Conn : PoolOf[c] = p} IN
    /\ driver[p] # "dropped"
    /\ driver' = [driver EXCEPT ![p] = "dropped"]
    /\ unpolled' = unpolled \ mine
    /\ \E stopped \in SUBSET (mine \cap Physical) :
         /\ conn' = [c \in Conn |->
               IF c \in (mine \cap Physical) \ stopped THEN "lost"
               ELSE IF c \in mine THEN "over" ELSE conn[c]]
         /\ total' = total - Cardinality(stopped)
         /\ hosts' = [h \in Remote |->
               hosts[h] - Cardinality({c \in stopped : RemoteOf[c] = h})]
         /\ waking' = (IF stopped # {} THEN waking \cup waiters
                       ELSE waking) \ {p}
         /\ waiters' = IF stopped # {} THEN {} ELSE waiters \ {p}
    /\ ordered' = ordered \ mine
    /\ awake' = awake \ {p}
    /\ UNCHANGED <<live, done>>

----------------------------------------------------------------------------

ReservationsInit ==
    /\ conn = [c \in Conn |-> "new"]
    /\ ordered = {}
    /\ total = 0
    /\ hosts = [h \in Remote |-> 0]
    /\ live = {} /\ done = {}
    /\ waiters = {} /\ waking = {} /\ awake = {}
    /\ driver = [p \in Pool |-> "between"]
    /\ unpolled = {}

\* What a driver does in its turns.
Drive(p) ==
    \/ TurnBegins(p) \/ TurnEnds(p)
    \/ \E c \in Conn : /\ PoolOf[c] = p
                       /\ \/ Begin(c) \/ BeginFails(c)
                          \/ PollWaiting(c) \/ PollWaitingFails(c)
                          \/ PollSettled(c) \/ Obey(c) \/ Dispose(c)
                          \/ PollIdly(c)

ReservationsNext ==
    \/ \E p \in Pool : Drive(p) \/ Deliver(p) \/ DropHost(p)
    \/ \E c \in Conn : Checkout(c) \/ Work(c) \/ ClosePooled(c)
    \/ \E r \in Request : AdmitOperation(r) \/ EndOperation(r)

ReservationsSpec == ReservationsInit /\ [][ReservationsNext]_resVars

----------------------------------------------------------------------------

\* A live request's connection never sleeps over a free reservation: when one
\* would be given to a connection that waits, its driver is in a turn that
\* will poll it, is awake, or holds a wake that is on its way.  This needs
\* refusal and registration in one section, every return to empty the list
\* and a raised ceiling to wake, whichever pool returned and whichever waits.
NoSleepingConnection ==
    \A c \in Conn :
        /\ conn[c] = "waiting"
        /\ c \notin ordered
        /\ RequestOf[c] \in live
        /\ Free(RemoteOf[c])
        => LET p == PoolOf[c] IN
           \/ p \in awake \cup waking
           \/ c \in unpolled

============================================================================
