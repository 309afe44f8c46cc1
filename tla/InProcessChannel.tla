-------------------------- MODULE InProcessChannel --------------------------
(***************************************************************************)
(* The in-process channel (crates/session-channel/src/in_process.rs): two  *)
(* ends that share one mutex, an inbox per side bounded per lane, one      *)
(* condition variable per side, and an ending that either end may cause    *)
(* while threads of both send and receive.                                 *)
(*                                                                         *)
(* A frame is the side it is for and its number, so that order, loss and   *)
(* duplication show; a frame the carrier refuses is a send of its own.     *)
(* Any number of threads send (a send is one critical section followed by  *)
(* its notification); the receiving threads are the constant Receiver.     *)
(***************************************************************************)
EXTENDS Naturals, Sequences, FiniteSets

CONSTANTS Receiver,   \* the threads that call `recv`
          SideOf,     \* the side each of them receives on
          LaneCapacity,   \* Limits::lane_capacity, per lane
          MaxFrames,  \* how many frames are sent to each side (a bound)
          NoEnding

Side == {"client", "host"}
Lane == {"call", "control"}

ASSUME ChannelAssumption ==
  /\ IsFiniteSet(Receiver)
  /\ NoEnding \notin [by : Side, protocol : BOOLEAN]
  /\ SideOf \in [Receiver -> Side]
  /\ LaneCapacity \in [Lane -> Nat \ {0}]
  /\ MaxFrames \in Nat

VARIABLES
  inbox,    \* State::inboxes, frames: <<frame, lane>>, oldest first
  counts,   \* State::inboxes, calls and controls: the lanes' counts
  ended,    \* State::ended
  stopped,  \* State::stopped
  receiver, \* what each receiving thread does
  owed,     \* per side, the notifications of sends that have yet to be made
  alerted,  \* the waiting receivers notified since they went to sleep
  sent,     \* history: the frames accepted for each side
  received, \* history: the frames each side received
  heard     \* history: the refusals each side met

channelEndVars == <<inbox, counts, ended, stopped, receiver, owed, alerted,
                    sent, received, heard>>

Peer(s) == IF s = "client" THEN "host" ELSE "client"

NoCounts == [l \in Lane |-> 0]

Frame == Side \X (1..MaxFrames)

InProcessInit ==
  /\ inbox = [s \in Side |-> <<>>]
  /\ counts = [s \in Side |-> NoCounts]
  /\ ended = NoEnding
  /\ stopped = {}
  /\ receiver = [r \in Receiver |-> "ready"]
  /\ owed = [s \in Side |-> 0]
  /\ alerted = {}
  /\ sent = [s \in Side |-> <<>>]
  /\ received = [s \in Side |-> <<>>]
  /\ heard = [s \in Side |-> {}]

\* Ending::seen_by
SeenBy(ending, s) ==
  IF ending.protocol THEN "protocol"
  ELSE IF ending.by = s THEN "local" ELSE "peer"

Waiting(s) == {r \in Receiver : SideOf[r] = s /\ receiver[r] = "waiting"}

-----------------------------------------------------------------------------
(* FrameSink.                                                              *)

\* Mutant of Stopped: the peer's inbox goes too.
StoppedBoth(s, protocol) ==
  /\ ended' = IF ended = NoEnding THEN [by |-> s, protocol |-> protocol]
              ELSE ended
  /\ stopped' = stopped \cup {s}
  /\ inbox' = [p \in Side |-> <<>>]
  /\ counts' = [p \in Side |-> NoCounts]
  /\ alerted' = alerted \cup UNION {Waiting(p) : p \in Side}

\* Mutant of Stopped: a stop wakes its own side's receivers only.
StoppedAlone(s, protocol) ==
  /\ ended' = IF ended = NoEnding THEN [by |-> s, protocol |-> protocol]
              ELSE ended
  /\ stopped' = stopped \cup {s}
  /\ inbox' = [inbox EXCEPT ![s] = <<>>]
  /\ counts' = [counts EXCEPT ![s] = NoCounts]
  /\ alerted' = alerted \cup Waiting(s)

\* InProcessEnd::stop: the channel ends unless it has; this side receives
\* nothing more and its inbox goes; both sides' receivers are woken.
Stopped(s, protocol) ==
  /\ ended' = IF ended = NoEnding THEN [by |-> s, protocol |-> protocol]
              ELSE ended
  /\ stopped' = stopped \cup {s}
  /\ inbox' = [inbox EXCEPT ![s] = <<>>]
  /\ counts' = [counts EXCEPT ![s] = NoCounts]
  /\ alerted' = alerted \cup UNION {Waiting(p) : p \in Side}

\* A send on an ended channel comes back with the reason.
SendClosed(s) ==
  /\ ended # NoEnding
  /\ heard' = [heard EXCEPT ![s] = @ \cup {<<"send", SeenBy(ended, s)>>}]
  /\ UNCHANGED <<inbox, counts, ended, stopped, receiver, owed, alerted,
                 sent, received>>

\* A send of a frame the carrier refuses ends the channel.
SendRefused(s) ==
  /\ ended = NoEnding
  /\ Stopped(s, TRUE)
  /\ heard' = [heard EXCEPT ![s] = @ \cup {<<"send", "protocol">>}]
  /\ UNCHANGED <<receiver, owed, sent, received>>

\* A send to a lane with room. (A full lane gives the frame back and changes
\* nothing.) The notification follows the unlock.
Send(s, l) ==
  LET p == Peer(s)
      f == <<p, Len(sent[p]) + 1>>
  IN /\ ended = NoEnding
     /\ Len(sent[p]) < MaxFrames
     /\ counts[p][l] < LaneCapacity[l]
     /\ counts' = [counts EXCEPT ![p][l] = @ + 1]
     /\ inbox' = [inbox EXCEPT ![p] = Append(@, <<f, l>>)]
     /\ sent' = [sent EXCEPT ![p] = Append(@, f)]
     /\ owed' = [owed EXCEPT ![p] = @ + 1]
     /\ UNCHANGED <<ended, stopped, receiver, alerted, received, heard>>

\* notify_one: one of the receivers that sleep, if any does.
NotifyOne(s) ==
  /\ owed[s] > 0
  /\ owed' = [owed EXCEPT ![s] = @ - 1]
  /\ IF Waiting(s) \subseteq alerted THEN alerted' = alerted
     ELSE \E r \in Waiting(s) \ alerted : alerted' = alerted \cup {r}
  /\ UNCHANGED <<inbox, counts, ended, stopped, receiver, sent, received,
                 heard>>

\* `close`, and the drop of an end.
Close(s) ==
  /\ Stopped(s, FALSE)
  /\ UNCHANGED <<receiver, owed, sent, received, heard>>

-----------------------------------------------------------------------------
(* FrameSource: one turn of recv's loop. A receiver that waits takes its   *)
(* turn when notified, or without a reason; one that has returned may call *)
(* again.                                                                  *)

HasFrame(s) == s \notin stopped /\ inbox[s] # <<>>

RecvFrame(r) ==
  LET s == SideOf[r] IN
  /\ HasFrame(s)
  /\ received' = [received EXCEPT ![s] = Append(@, Head(inbox[s])[1])]
  /\ counts' = [counts EXCEPT ![s][Head(inbox[s])[2]] = @ - 1]
  /\ inbox' = [inbox EXCEPT ![s] = Tail(@)]
  /\ receiver' = [receiver EXCEPT ![r] = "ready"]
  /\ alerted' = alerted \ {r}
  /\ UNCHANGED <<ended, stopped, owed, sent, heard>>

RecvClosed(r) ==
  LET s == SideOf[r] IN
  /\ ~HasFrame(s)
  /\ ended # NoEnding
  /\ heard' = [heard EXCEPT ![s] = @ \cup {<<"recv", SeenBy(ended, s)>>}]
  /\ receiver' = [receiver EXCEPT ![r] = "ready"]
  /\ alerted' = alerted \ {r}
  /\ UNCHANGED <<inbox, counts, ended, stopped, owed, sent, received>>

RecvWaits(r) ==
  /\ ~HasFrame(SideOf[r])
  /\ ended = NoEnding
  /\ receiver' = [receiver EXCEPT ![r] = "waiting"]
  /\ alerted' = alerted \ {r}
  /\ UNCHANGED <<inbox, counts, ended, stopped, owed, sent, received, heard>>

RecvTurn(r) == RecvFrame(r) \/ RecvClosed(r) \/ RecvWaits(r)

-----------------------------------------------------------------------------
InProcessNext ==
  \/ \E s \in Side :
       \/ \E l \in Lane : Send(s, l)
       \/ SendClosed(s) \/ SendRefused(s) \/ NotifyOne(s) \/ Close(s)
  \/ \E r \in Receiver : RecvFrame(r) \/ RecvClosed(r) \/ RecvWaits(r)

InProcessSpec == InProcessInit /\ [][InProcessNext]_channelEndVars

-----------------------------------------------------------------------------
(* Properties.                                                             *)

InProcessTypeOK ==
  /\ ended \in {NoEnding} \cup [by : Side, protocol : BOOLEAN]
  /\ stopped \subseteq Side
  /\ receiver \in [Receiver -> {"ready", "waiting"}]
  /\ owed \in [Side -> Nat]
  /\ alerted \subseteq Receiver

\* The channel keeps the contract of the two traits: frames in order, each
\* once; one ending for both; what the peer sent before it ended the channel
\* is received before the ending is, unless the receiver itself stopped.
Contract == INSTANCE ChannelContract

ChannelImplementsContract == Contract!ChannelSpec

\* Nobody sleeps on what is there: a frame waiting, or an ending, finds a
\* receiver alerted or a notification owed, or nobody of that side waits.
\* `send` notifies one receiver per frame and `stop` all of both sides.
NoDeafReceiver ==
  \A s \in Side :
    /\ ended # NoEnding => Waiting(s) \subseteq alerted
    /\ HasFrame(s) =>
         \/ Waiting(s) \subseteq alerted
         \/ Cardinality(Waiting(s) \cap alerted) + owed[s] >= Len(inbox[s])
=============================================================================
