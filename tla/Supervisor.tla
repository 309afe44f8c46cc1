----------------------------- MODULE Supervisor -----------------------------
(***************************************************************************)
(* The host's job supervisor (crates/session-host/src/supervisor.rs): one  *)
(* thread polls the jobs that outlive their calls, `shutdown` waits a      *)
(* bounded time for them and reports how many remain, and the drop of the  *)
(* supervisor lets the thread run out on its own.                          *)
(*                                                                         *)
(* Every stretch under the state's mutex is one action. The jobs are       *)
(* polled and dropped outside it, one action per job, so that shutdowns,   *)
(* new jobs and the drop fall anywhere between two polls. A notification   *)
(* of the condition variable is kept apart from the unlock it follows: it  *)
(* reaches exactly the threads that sleep when it is made.                 *)
(*                                                                         *)
(* Left out: the order of the list (a job is polled in any order) and the  *)
(* length of POLL_INTERVAL and of the shutdown's bound, which may both     *)
(* expire at any moment.                                                   *)
(***************************************************************************)
EXTENDS Naturals, FiniteSets

CONSTANTS Job,      \* the jobs callers hand over, each once
          Closer,   \* the threads that call `shutdown`
          NoCount   \* no shutdown has counted yet

ASSUME SupervisorAssumption ==
  /\ IsFiniteSet(Job)
  /\ NoCount \notin Nat
  /\ "thread" \notin Closer

VARIABLES
  where,     \* where each job is (see Places)
  polling,   \* State::polling, the size of the batch being polled
  running,   \* State::running
  closed,    \* State::closed
  released,  \* State::released
  thread,    \* what the thread does
  closer,    \* what each caller of shutdown does
  owner,     \* the Supervisor value: "held", being dropped, or "gone"
  counted,   \* `remaining` of the one disposal, from its count on
  report,    \* Shared::report
  woken      \* the sleepers notified since they went to sleep

supervisorVars == <<where, polling, running, closed, released, thread,
                    closer, owner, counted, report, woken>>

\* "listed" is State::jobs, "quarantined" State::quarantined. The thread's
\* local vectors are "taken" (still to be polled), "kept" (polled, not done),
\* "panicked" (its poll panicked) and "leaving" (out of quarantine, about to
\* be dropped).
Places == {"new", "refused", "listed", "taken", "kept", "panicked",
           "quarantined", "leaving", "dropped"}

At(places) == {j \in Job : where[j] \in places}

\* State::active
Active == Cardinality(At({"listed"})) + polling

\* The threads that sleep on `changed`.
Sleepers ==
  {c \in Closer : closer[c] = "waiting"}
    \cup (IF thread \in {"timed", "idle"} THEN {"thread"} ELSE {})

SupervisorInit ==
  /\ where = [j \in Job |-> "new"]
  /\ polling = 0
  /\ running = FALSE
  /\ closed = FALSE
  /\ released = FALSE
  /\ thread = "none"
  /\ closer = [c \in Closer |-> "before"]
  /\ owner = "held"
  /\ counted = NoCount
  /\ report = NoCount
  /\ woken = {}

-----------------------------------------------------------------------------
(* Callers.                                                                *)

\* `supervise` refuses, and drops the job: the supervisor is closed, or its
\* thread cannot be created.
SuperviseRefused(j) ==
  /\ owner = "held"
  /\ where[j] = "new"
  /\ closed \/ ~running
  /\ where' = [where EXCEPT ![j] = "refused"]
  /\ UNCHANGED <<polling, running, closed, released, thread, closer, owner,
                 counted, report, woken>>

\* `supervise` takes the job, with the thread if it does not run yet.
Supervise(j) ==
  /\ owner = "held"
  /\ where[j] = "new"
  /\ ~closed
  /\ where' = [where EXCEPT ![j] = "listed"]
  /\ running' = TRUE
  /\ thread' = IF running THEN thread ELSE "starting"
  /\ woken' = Sleepers
  /\ UNCHANGED <<polling, closed, released, closer, owner, counted, report>>

\* The report's mutex, which a shutdown holds from its first look at the
\* report to its return.
ReportFree == \A c \in Closer : closer[c] \notin {"waiting", "releasing"}

\* Mutant of CountRemaining: the batch out for polling is forgotten.
CountRemainingListed ==
  /\ counted' = Cardinality(At({"listed"})) + Cardinality(At({"quarantined"}))
  /\ released' = TRUE

\* The end of `dispose`: what remains, counted before the release lets the
\* thread drop the quarantined jobs.
CountRemaining ==
  /\ counted' = Active + Cardinality(At({"quarantined"}))
  /\ released' = TRUE

\* `shutdown` closes the supervisor. It waits while a job is active and
\* counts at once otherwise.
ShutdownBegins(c) ==
  /\ owner = "held"
  /\ closer[c] = "before"
  /\ ReportFree
  /\ report = NoCount
  /\ closed' = TRUE
  /\ \/ /\ Active > 0
        /\ closer' = [closer EXCEPT ![c] = "waiting"]
        /\ UNCHANGED <<released, counted>>
     \/ /\ Active = 0
        /\ closer' = [closer EXCEPT ![c] = "releasing"]
        /\ CountRemaining
  /\ UNCHANGED <<where, polling, running, thread, owner, report, woken>>

\* A later `shutdown` returns the first one's count.
ShutdownAgain(c) ==
  /\ owner = "held"
  /\ closer[c] = "before"
  /\ ReportFree
  /\ report # NoCount
  /\ closer' = [closer EXCEPT ![c] = "returned"]
  /\ UNCHANGED <<where, polling, running, closed, released, thread, owner,
                 counted, report, woken>>

\* The waiting shutdown looks again and finds a job active: it sleeps on.
ShutdownWaitsOn(c) ==
  /\ closer[c] = "waiting"
  /\ c \in woken
  /\ Active > 0
  /\ woken' = woken \ {c}
  /\ UNCHANGED <<where, polling, running, closed, released, thread, closer,
                 owner, counted, report>>

\* The wait ends: no job is active, or the bound has passed.
ShutdownCounts(c, late) ==
  /\ closer[c] = "waiting"
  /\ late \/ (c \in woken /\ Active = 0)
  /\ closer' = [closer EXCEPT ![c] = "releasing"]
  /\ CountRemaining
  /\ woken' = woken \ {c}
  /\ UNCHANGED <<where, polling, running, closed, thread, owner, report>>

\* The notification after the unlock, the report and the return.
ShutdownReports(c) ==
  /\ closer[c] = "releasing"
  /\ woken' = Sleepers
  /\ report' = counted
  /\ closer' = [closer EXCEPT ![c] = "returned"]
  /\ UNCHANGED <<where, polling, running, closed, released, thread, owner,
                 counted>>

\* `Drop for Supervisor` (release): possible once nobody is inside a method.
DropBegins ==
  /\ owner = "held"
  /\ ReportFree
  /\ owner' = "dropping"
  /\ closed' = TRUE
  /\ released' = TRUE
  /\ UNCHANGED <<where, polling, running, thread, closer, counted, report,
                 woken>>

\* Mutant of DropNotifies: the drop notifies nobody.
DropNotifiesNobody ==
  /\ owner = "dropping"
  /\ owner' = "gone"
  /\ UNCHANGED <<where, polling, running, closed, released, thread, closer,
                 counted, report, woken>>

DropNotifies ==
  /\ owner = "dropping"
  /\ owner' = "gone"
  /\ woken' = Sleepers
  /\ UNCHANGED <<where, polling, running, closed, released, thread, closer,
                 counted, report>>

-----------------------------------------------------------------------------
(* The thread.                                                             *)

\* The thread has a reason to leave its wait: the poll interval, or a
\* notification. (The idle wait may also end for no reason.)
Roused == thread \in {"starting", "timed"} \/ "thread" \in woken

\* The top of the loop: the jobs leave the list for the thread's batch.
Take ==
  /\ thread \in {"starting", "timed", "idle"}
  /\ polling' = Cardinality(At({"listed"}))
  /\ where' = [j \in Job |-> IF where[j] = "listed" THEN "taken"
                             ELSE where[j]]
  /\ thread' = "polling"
  /\ woken' = woken \ {"thread"}
  /\ UNCHANGED <<running, closed, released, closer, owner, counted, report>>

\* One poll outside the lock: done (and dropped), not done, or a panic.
Poll(j, outcome) ==
  /\ thread = "polling"
  /\ where[j] = "taken"
  /\ where' = [where EXCEPT ![j] = outcome]
  /\ UNCHANGED <<polling, running, closed, released, thread, closer, owner,
                 counted, report, woken>>

PollEnds(j) == Poll(j, "dropped") \/ Poll(j, "panicked")

\* A shutdown waiting for the jobs counts them again when some settled.
MergeWakes(settled) == woken' = IF settled THEN Sleepers ELSE woken

\* The end of a batch: what is left goes back to the list, the panicked jobs
\* into quarantine, and the thread sleeps or, released with nothing to poll,
\* takes the quarantined jobs out to drop them.
Merge ==
  LET stay == At({"listed", "kept"})
      ends == stay = {} /\ released
  IN /\ thread = "polling"
     /\ At({"taken"}) = {}
     /\ polling' = 0
     /\ where' = [j \in Job |->
          CASE where[j] = "kept" -> "listed"
            [] where[j] \in {"panicked", "quarantined"} ->
                 IF ends THEN "leaving" ELSE "quarantined"
            [] OTHER -> where[j]]
     /\ thread' = IF stay # {} THEN "timed"
                  ELSE IF released THEN "leaving" ELSE "idle"
     /\ MergeWakes(polling > Cardinality(At({"kept"})))
     /\ UNCHANGED <<running, closed, released, closer, owner, counted,
                    report>>

\* The quarantined jobs are dropped and the thread stops.
Stop ==
  /\ thread = "leaving"
  /\ where' = [j \in Job |-> IF where[j] = "leaving" THEN "dropped"
                             ELSE where[j]]
  /\ running' = FALSE
  /\ thread' = "stopped"
  /\ woken' = Sleepers
  /\ UNCHANGED <<polling, closed, released, closer, owner, counted, report>>

-----------------------------------------------------------------------------
SupervisorNext ==
  \/ \E j \in Job :
       \/ SuperviseRefused(j)
       \/ Supervise(j)
       \/ \E outcome \in {"dropped", "kept", "panicked"} : Poll(j, outcome)
  \/ \E c \in Closer :
       \/ ShutdownBegins(c)
       \/ ShutdownAgain(c)
       \/ ShutdownWaitsOn(c)
       \/ \E late \in BOOLEAN : ShutdownCounts(c, late)
       \/ ShutdownReports(c)
  \/ DropBegins
  \/ DropNotifies
  \/ Take
  \/ Merge
  \/ Stop

SupervisorSpec == SupervisorInit /\ [][SupervisorNext]_supervisorVars

\* The thread runs, a notification wakes, a bound passes, a method that has
\* begun goes on. That a job's polls end some day is the jobs' own promise:
\* without it the thread rightly never stops.
SupervisorFairness ==
  /\ WF_supervisorVars(Take /\ Roused)
  /\ WF_supervisorVars(Merge)
  /\ WF_supervisorVars(Stop)
  /\ WF_supervisorVars(DropNotifies)
  /\ \A j \in Job :
       /\ WF_supervisorVars(\E o \in {"dropped", "kept", "panicked"} :
                              Poll(j, o))
       /\ SF_supervisorVars(PollEnds(j))
  /\ \A c \in Closer :
       /\ WF_supervisorVars(ShutdownCounts(c, TRUE))
       /\ WF_supervisorVars(ShutdownReports(c))

-----------------------------------------------------------------------------
(* Properties.                                                             *)

\* The jobs the supervisor has accepted and not dropped.
Unfinished == At(Places \ {"new", "refused", "dropped"})

SupervisorTypeOK ==
  /\ where \in [Job -> Places]
  /\ polling \in Nat
  /\ running \in BOOLEAN
  /\ closed \in BOOLEAN
  /\ released \in BOOLEAN
  /\ thread \in {"none", "starting", "polling", "timed", "idle", "leaving",
                 "stopped"}
  /\ closer \in [Closer -> {"before", "waiting", "releasing", "returned"}]
  /\ owner \in {"held", "dropping", "gone"}
  /\ counted \in Nat \cup {NoCount}
  /\ report \in Nat \cup {NoCount}
  /\ woken \subseteq Closer \cup {"thread"}

\* No unfinished job escapes the count a shutdown returns (`dispose` doc:
\* "the jobs that remain, still running or quarantined, counted before the
\* release lets the thread drop any"): not one in the middle of a poll, not
\* one taken beside the shutdown, not a quarantined one, then or later.
ShutdownCountsAll ==
  counted # NoCount => Cardinality(Unfinished) <= counted

\* Once released, by a shutdown that returned or by the drop, the supervisor
\* ends by itself: every accepted job is dropped and the thread stops, even
\* when it slept without a timeout on quarantined jobs only.
ReleaseDropsAll == released ~> (~running /\ Unfinished = {})

\* A shutdown whose jobs all settle is woken by that and returns zero jobs
\* running; it does not sleep out its bound: no closer sleeps unnotified
\* while no job is active.
NoShutdownSleepsOn ==
  \A c \in Closer :
    closer[c] = "waiting" /\ Active = 0 => c \in woken

\* Both together.
ShutdownExact == ShutdownCountsAll /\ NoShutdownSleepsOn
=============================================================================
