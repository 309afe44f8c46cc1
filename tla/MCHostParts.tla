----------------------------- MODULE MCHostParts -----------------------------
(***************************************************************************)
(* Five parts of the host that share no state, for TLC: the supervisor,    *)
(* the member locks, the in-process channel, the connection reservations   *)
(* and the event log.  A behaviour is a behaviour of one of them, chosen   *)
(* by `part` in its first state; the others stay in theirs.  In its first  *)
(* state no part but the event log has a step its fairness would force.    *)
(***************************************************************************)
EXTENDS Supervisor, MemberLocks, InProcessChannel, Reservations, EventLog,
        TLC

CONSTANTS j1, j2, c1, c2,               \* supervisor: jobs, closers
          p1, p3, t1, t2, s1, s2, s3, i1, m1,
                                        \* locks: takers, tokens, spellings,
                                        \* an identity, a member
          r1, r2, r3,                   \* channel: receivers
          n1, n2, n3, ssh, https, h1, small, big
                                        \* reservations: connections, pools,
                                        \* a host, requests

VARIABLE part

MCTokenOf == p1 :> t1 @@ p3 :> t2
MCIdentity == s1 :> i1 @@ s2 :> i1 @@ s3 :> NoIdentity
MCSideOf == r1 :> "host" @@ r2 :> "host" @@ r3 :> "client"
MCLaneCapacity == "call" :> 2 @@ "control" :> 1
MCPoolOf == n1 :> ssh @@ n2 :> https @@ n3 :> ssh
MCRemoteOf == n1 :> h1 @@ n2 :> h1 @@ n3 :> h1
MCRequestOf == n1 :> small @@ n2 :> small @@ n3 :> big
MCLimitOf == small :> [total |-> 1, host |-> 1]
             @@ big :> [total |-> 2, host |-> 2]
MCBase == [total |-> 1, host |-> 1]

MCInit ==
  /\ part \in {"supervisor", "locks", "channel", "reservations", "log"}
  /\ SupervisorInit /\ MemberLocksInit /\ InProcessInit /\ ReservationsInit
  /\ Init

MCNext ==
  /\ part' = part
  /\ \/ /\ part = "supervisor" /\ SupervisorNext
        /\ UNCHANGED <<memberLocksVars, channelEndVars, resVars, vars>>
     \/ /\ part = "locks" /\ MemberLocksNext
        /\ UNCHANGED <<supervisorVars, channelEndVars, resVars, vars>>
     \/ /\ part = "channel" /\ InProcessNext
        /\ UNCHANGED <<supervisorVars, memberLocksVars, resVars, vars>>
     \/ /\ part = "reservations" /\ ReservationsNext
        /\ UNCHANGED <<supervisorVars, memberLocksVars, channelEndVars, vars>>
     \/ /\ part = "log" /\ Next
        /\ UNCHANGED <<supervisorVars, memberLocksVars, channelEndVars,
                       resVars>>

mcVars == <<part, supervisorVars, memberLocksVars, channelEndVars, resVars,
            vars>>

MCSpec ==
  /\ MCInit /\ [][MCNext]_mcVars
  /\ SupervisorFairness /\ MemberLocksFairness
  /\ WF_vars(part = "log" /\ Notify) /\ WF_vars(part = "log" /\ ReadsStep)
=============================================================================
