--------------------------- MODULE ChannelContract ---------------------------
(***************************************************************************)
(* What a channel between a client and a host promises its two ends (the   *)
(* traits FrameSink and FrameSource, crates/session-contract/src/          *)
(* channel.rs): frames arrive in order, each once and whole; the first     *)
(* ending is the one both ends report; and an end that has not itself      *)
(* stopped is told of the ending only after all that was sent to it.       *)
(*                                                                         *)
(* There are no queues, locks, lanes or waits here: InProcessChannel has   *)
(* those and is shown to implement this module.                            *)
(***************************************************************************)
EXTENDS Naturals, Sequences

CONSTANTS Side,     \* the two ends
          Frame,
          NoEnding

VARIABLES sent,     \* per side, the frames accepted for it, in order
          received, \* per side, the frames it received, in order
          ended,    \* the first ending: who, and whether a protocol error
          stopped,  \* the sides that stopped receiving
          heard     \* per side, its refusals: <<"send" or "recv", reason>>

channelVars == <<sent, received, ended, stopped, heard>>

ContractPeer(s) == CHOOSE p \in Side : p # s

\* The reason a side is given for the ending.
ContractReason(s) ==
  IF ended.protocol THEN "protocol"
  ELSE IF ended.by = s THEN "local" ELSE "peer"

ChannelInit ==
  /\ sent = [s \in Side |-> <<>>]
  /\ received = [s \in Side |-> <<>>]
  /\ ended = NoEnding
  /\ stopped = {}
  /\ heard = [s \in Side |-> {}]

\* A frame is accepted on an open channel.
Accept(s, f) ==
  /\ ended = NoEnding
  /\ sent' = [sent EXCEPT ![ContractPeer(s)] = Append(@, f)]
  /\ UNCHANGED <<received, ended, stopped, heard>>

\* The next frame arrives at a side that still receives.
Deliver(s) ==
  /\ s \notin stopped
  /\ Len(received[s]) < Len(sent[s])
  /\ received' = [received EXCEPT ![s] = Append(@, sent[s][Len(@) + 1])]
  /\ UNCHANGED <<sent, ended, stopped, heard>>

\* A side ends the channel, or just stops when the peer has ended it. A send
\* that met a protocol error is refused with the reason in the same step.
End(s, protocol) ==
  /\ ended' = IF ended = NoEnding THEN [by |-> s, protocol |-> protocol]
              ELSE ended
  /\ stopped' = stopped \cup {s}
  /\ heard' = IF protocol
             THEN [heard EXCEPT ![s] = @ \cup {<<"send", "protocol">>}]
             ELSE heard
  /\ protocol => ended = NoEnding
  /\ UNCHANGED <<sent, received>>

\* A side is told of the ending: by a refused send at any time, by its
\* receive only after the last frame sent to it, unless it has stopped.
Tell(s, by) ==
  /\ ended # NoEnding
  /\ by = "recv" => s \in stopped \/ received[s] = sent[s]
  /\ heard' = [heard EXCEPT ![s] = @ \cup {<<by, ContractReason(s)>>}]
  /\ UNCHANGED <<sent, received, ended, stopped>>

ChannelNext ==
  \E s \in Side :
    \/ \E f \in Frame : Accept(s, f)
    \/ Deliver(s)
    \/ \E protocol \in BOOLEAN : End(s, protocol)
    \/ \E by \in {"send", "recv"} : Tell(s, by)

ChannelSpec == ChannelInit /\ [][ChannelNext]_channelVars
=============================================================================
