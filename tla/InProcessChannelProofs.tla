----------------------- MODULE InProcessChannelProofs -----------------------
(***************************************************************************)
(* Proofs about InProcessChannel: that nobody sleeps on a frame or on the  *)
(* ending, that no lane holds more than its capacity, and that the channel *)
(* implements ChannelContract.                                             *)
(***************************************************************************)
EXTENDS InProcessChannel, FiniteSetTheorems, TLAPS

Reason == {"protocol", "local", "peer"}

\* The types, with those of the queues and of the histories.
ChannelTypeInv ==
  /\ InProcessTypeOK
  /\ inbox \in [Side -> Seq(Frame \X Lane)]
  /\ counts \in [Side -> [Lane -> Int]]
  /\ sent \in [Side -> Seq(Frame)]
  /\ received \in [Side -> Seq(Frame)]
  /\ heard \in [Side -> SUBSET ({"send", "recv"} \X Reason)]

\* A side has stopped only on an ended channel, and keeps nothing.
StopInv ==
  /\ stopped # {} => ended # NoEnding
  /\ \A s \in stopped : inbox[s] = <<>>

\* rc is how sn starts.
Starts(rc, sn) == Len(rc) <= Len(sn) /\ \A i \in 1..Len(rc) : rc[i] = sn[i]

\* The frames queued in q are what follows rc in sn.
Follows(q, rc, sn) ==
  /\ Len(rc) + Len(q) = Len(sn)
  /\ \A i \in 1..Len(q) : q[i][1] = sn[Len(rc) + i]

\* What a side received is what was sent to it first, and its inbox is what
\* was sent next: all of the rest while it has not stopped.
OrderInv ==
  \A s \in Side :
    /\ Starts(received[s], sent[s])
    /\ s \notin stopped => Follows(inbox[s], received[s], sent[s])

ChannelInv == ChannelTypeInv /\ StopInv /\ OrderInv /\ NoDeafReceiver

\* The places of a lane's frames in a queue.
LanePlaces(q, l) == {i \in 1..Len(q) : q[i][2] = l}

\* The lanes' counts are the frames the inbox holds of each, and no lane is
\* over its capacity (`lane_capacity`).
LanesBounded ==
  \A s \in Side, l \in Lane :
    /\ counts[s][l] = Cardinality(LanePlaces(inbox[s], l))
    /\ counts[s][l] <= LaneCapacity[l]

\* A side's peer is a side, and the other one.
LEMMA PeerIsSide ==
  \A s \in Side : Peer(s) \in Side /\ Peer(s) # s /\ \A p \in Side : p = s \/ p = Peer(s)
BY DEF Peer, Side

\* The reason a side is given is one of the three.
LEMMA ReasonType ==
  ASSUME InProcessTypeOK, ended # NoEnding, NEW s \in Side
  PROVE  SeenBy(ended, s) \in Reason
BY DEF InProcessTypeOK, SeenBy, Reason

\* What is sent next is a frame for the peer.
LEMMA NextFrame ==
  ASSUME ChannelTypeInv, NEW s \in Side, Len(sent[Peer(s)]) < MaxFrames
  PROVE  <<Peer(s), Len(sent[Peer(s)]) + 1>> \in Frame
<1>1. Len(sent[Peer(s)]) \in Nat
  BY PeerIsSide DEF ChannelTypeInv
<1> QED
  BY <1>1, PeerIsSide, ChannelAssumption DEF Frame

\* A frame accepted is queued last.
LEMMA QueueGrows ==
  ASSUME NEW F, NEW L, NEW sn \in Seq(F), NEW rc \in Seq(F), NEW q \in Seq(F \X L),
         NEW f \in F, NEW l \in L, Starts(rc, sn), Follows(q, rc, sn)
  PROVE  Starts(rc, Append(sn, f)) /\ Follows(Append(q, <<f, l>>), rc, Append(sn, f))
<1> DEFINE qq == Append(q, <<f, l>>)
           ss == Append(sn, f)
<1>1. Len(sn) \in Nat /\ Len(rc) \in Nat /\ Len(q) \in Nat /\ Len(rc) + Len(q) = Len(sn)
  BY DEF Follows
<1>2. <<f, l>> \in F \X L
  OBVIOUS
<1>3. /\ Len(ss) = Len(sn) + 1
      /\ \A i \in 1..Len(sn) : ss[i] = sn[i]
      /\ ss[Len(sn) + 1] = f
  OBVIOUS
<1>4. /\ Len(qq) = Len(q) + 1
      /\ \A i \in 1..Len(q) : qq[i] = q[i]
      /\ qq[Len(q) + 1] = <<f, l>>
  BY <1>2
<1> HIDE DEF qq, ss
<1>5. Starts(rc, ss)
  BY <1>1, <1>3 DEF Starts
<1>6. ASSUME NEW i \in 1..(Len(q) + 1)
      PROVE  qq[i][1] = ss[Len(rc) + i]
  <2>1. CASE i \in 1..Len(q)
    <3>1. Len(rc) + i \in 1..Len(sn)
      BY <1>1, <2>1
    <3>2. q[i][1] = sn[Len(rc) + i]
      BY <2>1 DEF Follows
    <3> QED
      BY <1>3, <1>4, <2>1, <3>1, <3>2
  <2>2. CASE i = Len(q) + 1
    <3>1. Len(rc) + i = Len(sn) + 1
      BY <1>1, <2>2
    <3> QED
      BY <1>3, <1>4, <2>2, <3>1
  <2> QED
    BY <1>1, <2>1, <2>2
<1> QED
  <2>1. Follows(qq, rc, ss)
    <3>1. Len(rc) + Len(qq) = Len(ss) /\ Len(qq) = Len(q) + 1
      BY <1>1, <1>3, <1>4
    <3>2. \A i \in 1..Len(qq) : qq[i][1] = ss[Len(rc) + i]
      BY <1>6, <3>1
    <3> QED
      BY <3>1, <3>2 DEF Follows
  <2> QED
    BY <1>5, <2>1 DEF qq, ss

\* The oldest frame queued is the one that comes next.
LEMMA QueueHead ==
  ASSUME NEW F, NEW L, NEW sn \in Seq(F), NEW rc \in Seq(F), NEW q \in Seq(F \X L),
         q # <<>>, Follows(q, rc, sn)
  PROVE  Head(q)[1] = sn[Len(rc) + 1] /\ Len(rc) < Len(sn)
<1>1. /\ Len(sn) \in Nat /\ Len(rc) \in Nat /\ Len(q) \in Nat /\ Len(q) >= 1
      /\ Len(rc) + Len(q) = Len(sn)
  BY DEF Follows
<1>2. Head(q) = q[1] /\ 1 \in 1..Len(q)
  BY <1>1
<1> QED
  BY <1>1, <1>2 DEF Follows

\* Receiving it leaves the rest queued.
LEMMA QueueShrinks ==
  ASSUME NEW F, NEW L, NEW sn \in Seq(F), NEW rc \in Seq(F), NEW q \in Seq(F \X L),
         q # <<>>, Starts(rc, sn), Follows(q, rc, sn)
  PROVE  /\ Starts(Append(rc, Head(q)[1]), sn)
         /\ Follows(Tail(q), Append(rc, Head(q)[1]), sn)
<1> DEFINE f == Head(q)[1]
           rr == Append(rc, f)
           qq == Tail(q)
<1>1. /\ Len(sn) \in Nat /\ Len(rc) \in Nat /\ Len(q) \in Nat /\ Len(q) >= 1
      /\ Len(rc) + Len(q) = Len(sn)
  BY DEF Follows
<1>2. Head(q) = q[1] /\ q[1] \in F \X L
  BY <1>1
<1>3. f \in F /\ f = sn[Len(rc) + 1]
  BY <1>1, <1>2 DEF Follows
<1> HIDE DEF f
<1>4. /\ Len(rr) = Len(rc) + 1
      /\ \A i \in 1..Len(rc) : rr[i] = rc[i]
      /\ rr[Len(rc) + 1] = f
  BY <1>3
<1>5. /\ Len(qq) = Len(q) - 1
      /\ \A i \in 1..(Len(q) - 1) : qq[i] = q[i + 1]
  BY <1>1
<1> HIDE DEF rr, qq
<1>6. Starts(rr, sn)
  <2>1. ASSUME NEW i \in 1..(Len(rc) + 1) PROVE rr[i] = sn[i]
    <3>1. i \in 1..Len(rc) \/ i = Len(rc) + 1
      BY <1>1
    <3> QED
      BY <1>3, <1>4, <3>1 DEF Starts
  <2> QED
    BY <1>1, <1>4, <2>1 DEF Starts
<1>7. ASSUME NEW i \in 1..(Len(q) - 1) PROVE qq[i][1] = sn[(Len(rc) + 1) + i]
  <2>1. i + 1 \in 1..Len(q) /\ Len(rc) + (i + 1) = (Len(rc) + 1) + i
    BY <1>1
  <2>2. q[i + 1][1] = sn[Len(rc) + (i + 1)]
    BY <2>1 DEF Follows
  <2> QED
    BY <1>5, <2>1, <2>2
<1>8. Follows(qq, rr, sn)
  BY <1>1, <1>4, <1>5, <1>7 DEF Follows
<1> QED
  BY <1>6, <1>8 DEF f, rr, qq

\* Every step keeps the types.
LEMMA ChannelTypeStep == ChannelTypeInv /\ [InProcessNext]_channelEndVars => ChannelTypeInv'
<1> SUFFICES ASSUME ChannelTypeInv, [InProcessNext]_channelEndVars PROVE ChannelTypeInv'
  OBVIOUS
<1> USE ChannelAssumption DEF ChannelTypeInv, InProcessTypeOK
<1>1. ASSUME NEW s \in Side, NEW l \in Lane, Send(s, l) PROVE ChannelTypeInv'
  <2>1. <<Peer(s), Len(sent[Peer(s)]) + 1>> \in Frame
    BY <1>1, NextFrame DEF Send
  <2>2. Peer(s) \in Side
    BY PeerIsSide
  <2>3. <<<<Peer(s), Len(sent[Peer(s)]) + 1>>, l>> \in Frame \X Lane
    BY <2>1
  <2>4. /\ Append(sent[Peer(s)], <<Peer(s), Len(sent[Peer(s)]) + 1>>) \in Seq(Frame)
        /\ Append(inbox[Peer(s)], <<<<Peer(s), Len(sent[Peer(s)]) + 1>>, l>>) \in Seq(Frame \X Lane)
    BY <2>1, <2>2, <2>3
  <2>6. sent' \in [Side -> Seq(Frame)] /\ inbox' \in [Side -> Seq(Frame \X Lane)]
    BY <1>1, <2>2, <2>4 DEF Send
  <2>5. counts' \in [Side -> [Lane -> Int]] /\ owed' \in [Side -> Nat]
    BY SMTT(30), <1>1, <2>2 DEF Send
  <2> QED
    BY <1>1, <2>5, <2>6 DEF Send
<1>2. ASSUME NEW s \in Side, SendClosed(s) PROVE ChannelTypeInv'
  <2>1. SeenBy(ended, s) \in Reason
    BY <1>2, ReasonType DEF SendClosed
  <2> QED
    BY <1>2, <2>1 DEF SendClosed
<1>3. ASSUME NEW s \in Side, SendRefused(s) PROVE ChannelTypeInv'
  <2>1. inbox' \in [Side -> Seq(Frame \X Lane)] /\ counts' \in [Side -> [Lane -> Int]]
    BY <1>3 DEF SendRefused, Stopped, NoCounts
  <2>2. heard' \in [Side -> SUBSET ({"send", "recv"} \X Reason)]
    BY <1>3 DEF SendRefused, Reason
  <2> QED
    BY <1>3, <2>1, <2>2 DEF SendRefused, Stopped, Waiting
<1>4. ASSUME NEW s \in Side, NotifyOne(s) PROVE ChannelTypeInv'
  BY <1>4 DEF NotifyOne, Waiting
<1>5. ASSUME NEW s \in Side, Close(s) PROVE ChannelTypeInv'
  <2>1. inbox' \in [Side -> Seq(Frame \X Lane)] /\ counts' \in [Side -> [Lane -> Int]]
    BY <1>5 DEF Close, Stopped, NoCounts
  <2> QED
    BY <1>5, <2>1 DEF Close, Stopped, Waiting
<1>6. ASSUME NEW r \in Receiver, RecvFrame(r) PROVE ChannelTypeInv'
  <2>1. SideOf[r] \in Side
    OBVIOUS
  <2> DEFINE s == SideOf[r]
  <2>2. Head(inbox[s]) \in Frame \X Lane /\ Tail(inbox[s]) \in Seq(Frame \X Lane)
    BY <1>6, <2>1 DEF RecvFrame, HasFrame
  <2>3. Head(inbox[s])[1] \in Frame /\ Head(inbox[s])[2] \in Lane
    BY <2>2
  <2> HIDE DEF s
  <2>4. received' \in [Side -> Seq(Frame)] /\ inbox' \in [Side -> Seq(Frame \X Lane)]
    BY SMTT(30), <1>6, <2>1, <2>2, <2>3 DEF RecvFrame, s
  <2>5. counts' \in [Side -> [Lane -> Int]]
    BY <1>6, <2>1, <2>3 DEF RecvFrame, s
  <2> QED
    BY <1>6, <2>4, <2>5 DEF RecvFrame
<1>7. ASSUME NEW r \in Receiver, RecvClosed(r) PROVE ChannelTypeInv'
  <2>1. SideOf[r] \in Side /\ SeenBy(ended, SideOf[r]) \in Reason
    BY <1>7, ReasonType DEF RecvClosed
  <2> QED
    BY <1>7, <2>1 DEF RecvClosed
<1>8. ASSUME NEW r \in Receiver, RecvWaits(r) PROVE ChannelTypeInv'
  BY <1>8 DEF RecvWaits
<1>9. CASE UNCHANGED channelEndVars
  BY <1>9 DEF channelEndVars
<1> QED
  BY <1>1, <1>2, <1>3, <1>4, <1>5, <1>6, <1>7, <1>8, <1>9
  DEF InProcessNext

\* Every step keeps a stopped side empty: nothing is accepted on an ended
\* channel.
LEMMA StopStep == ChannelTypeInv /\ StopInv /\ [InProcessNext]_channelEndVars => StopInv'
<1> SUFFICES ASSUME ChannelTypeInv /\ StopInv, [InProcessNext]_channelEndVars PROVE StopInv'
  OBVIOUS
<1> USE ChannelAssumption DEF ChannelTypeInv, InProcessTypeOK, StopInv
<1>1. ASSUME NEW s \in Side, NEW l \in Lane, Send(s, l) PROVE StopInv'
  BY <1>1 DEF Send
<1>2. ASSUME NEW s \in Side, SendClosed(s) PROVE StopInv'
  BY <1>2 DEF SendClosed
<1>3. ASSUME NEW s \in Side, SendRefused(s) PROVE StopInv'
  <2>1. ended' # NoEnding /\ inbox' = [inbox EXCEPT ![s] = <<>>] /\ stopped' = stopped \cup {s}
    <3>1. [by |-> s, protocol |-> TRUE] \in [by : Side, protocol : BOOLEAN]
          /\ [by |-> s, protocol |-> FALSE] \in [by : Side, protocol : BOOLEAN]
      OBVIOUS
    <3> QED
      BY <1>3, <3>1 DEF SendRefused, Stopped
  <2> QED
    BY <2>1
<1>4. ASSUME NEW s \in Side, NotifyOne(s) PROVE StopInv'
  BY <1>4 DEF NotifyOne
<1>5. ASSUME NEW s \in Side, Close(s) PROVE StopInv'
  <2>1. ended' # NoEnding /\ inbox' = [inbox EXCEPT ![s] = <<>>] /\ stopped' = stopped \cup {s}
    <3>1. [by |-> s, protocol |-> TRUE] \in [by : Side, protocol : BOOLEAN]
          /\ [by |-> s, protocol |-> FALSE] \in [by : Side, protocol : BOOLEAN]
      OBVIOUS
    <3> QED
      BY <1>5, <3>1 DEF Close, Stopped
  <2> QED
    BY <2>1
<1>6. ASSUME NEW r \in Receiver, RecvFrame(r) PROVE StopInv'
  BY <1>6 DEF RecvFrame, HasFrame
<1>7. ASSUME NEW r \in Receiver, RecvClosed(r) PROVE StopInv'
  BY <1>7 DEF RecvClosed
<1>8. ASSUME NEW r \in Receiver, RecvWaits(r) PROVE StopInv'
  BY <1>8 DEF RecvWaits
<1>9. CASE UNCHANGED channelEndVars
  BY <1>9 DEF channelEndVars
<1> QED
  BY <1>1, <1>2, <1>3, <1>4, <1>5, <1>6, <1>7, <1>8, <1>9
  DEF InProcessNext

\* Every step keeps the inbox the next frames that were sent.
LEMMA OrderStep ==
  ChannelTypeInv /\ StopInv /\ OrderInv /\ [InProcessNext]_channelEndVars => OrderInv'
<1> SUFFICES ASSUME ChannelTypeInv /\ StopInv /\ OrderInv, [InProcessNext]_channelEndVars
             PROVE OrderInv'
  OBVIOUS
<1> USE ChannelAssumption DEF ChannelTypeInv, InProcessTypeOK, OrderInv
<1>1. ASSUME NEW s \in Side, NEW l \in Lane, Send(s, l) PROVE OrderInv'
  <2> DEFINE p == Peer(s)
             f == <<p, Len(sent[p]) + 1>>
  <2>1. /\ p \in Side /\ sent[p] \in Seq(Frame) /\ received[p] \in Seq(Frame)
        /\ inbox[p] \in Seq(Frame \X Lane)
    BY PeerIsSide
  <2>2. f \in Frame
    BY <1>1, NextFrame DEF Send
  <2>3. /\ inbox' = [inbox EXCEPT ![p] = Append(inbox[p], <<f, l>>)]
        /\ sent' = [sent EXCEPT ![p] = Append(sent[p], f)]
        /\ UNCHANGED <<received, stopped>>
    BY <1>1 DEF Send
  <2>4. p \notin stopped
    BY <1>1 DEF Send, StopInv
  <2> HIDE DEF p, f
  <2>5. /\ Starts(received[p], Append(sent[p], f))
        /\ Follows(Append(inbox[p], <<f, l>>), received[p], Append(sent[p], f))
    BY <2>1, <2>2, <2>4, QueueGrows
  <2> QED
    BY <2>1, <2>3, <2>5
<1>2. ASSUME NEW s \in Side, SendClosed(s) PROVE OrderInv'
  <2>1. UNCHANGED <<inbox, sent, received, stopped>>
    BY <1>2 DEF SendClosed
  <2> QED
    BY <2>1
<1>3. ASSUME NEW s \in Side, SendRefused(s) PROVE OrderInv'
  <2>1. /\ inbox' = [inbox EXCEPT ![s] = <<>>] /\ stopped' = stopped \cup {s}
        /\ UNCHANGED <<sent, received>>
    BY <1>3 DEF SendRefused, Stopped
  <2> QED
    BY <2>1
<1>4. ASSUME NEW s \in Side, NotifyOne(s) PROVE OrderInv'
  <2>1. UNCHANGED <<inbox, sent, received, stopped>>
    BY <1>4 DEF NotifyOne
  <2> QED
    BY <2>1
<1>5. ASSUME NEW s \in Side, Close(s) PROVE OrderInv'
  <2>1. /\ inbox' = [inbox EXCEPT ![s] = <<>>] /\ stopped' = stopped \cup {s}
        /\ UNCHANGED <<sent, received>>
    BY <1>5 DEF Close, Stopped
  <2> QED
    BY <2>1
<1>6. ASSUME NEW r \in Receiver, RecvFrame(r) PROVE OrderInv'
  <2> DEFINE s == SideOf[r]
  <2>1. /\ s \in Side /\ sent[s] \in Seq(Frame) /\ received[s] \in Seq(Frame)
        /\ inbox[s] \in Seq(Frame \X Lane)
    OBVIOUS
  <2>2. inbox[s] # <<>> /\ s \notin stopped
    BY <1>6 DEF RecvFrame, HasFrame
  <2>3. /\ inbox' = [inbox EXCEPT ![s] = Tail(inbox[s])]
        /\ received' = [received EXCEPT ![s] = Append(received[s], Head(inbox[s])[1])]
        /\ UNCHANGED <<sent, stopped>>
    BY <1>6 DEF RecvFrame
  <2> HIDE DEF s
  <2>4. /\ Starts(Append(received[s], Head(inbox[s])[1]), sent[s])
        /\ Follows(Tail(inbox[s]), Append(received[s], Head(inbox[s])[1]), sent[s])
    BY <2>1, <2>2, QueueShrinks
  <2> QED
    BY <2>1, <2>3, <2>4
<1>7. ASSUME NEW r \in Receiver, RecvClosed(r) PROVE OrderInv'
  <2>1. UNCHANGED <<inbox, sent, received, stopped>>
    BY <1>7 DEF RecvClosed
  <2> QED
    BY <2>1
<1>8. ASSUME NEW r \in Receiver, RecvWaits(r) PROVE OrderInv'
  <2>1. UNCHANGED <<inbox, sent, received, stopped>>
    BY <1>8 DEF RecvWaits
  <2> QED
    BY <2>1
<1>9. CASE UNCHANGED channelEndVars
  <2>1. UNCHANGED <<inbox, sent, received, stopped>>
    BY <1>9 DEF channelEndVars
  <2> QED
    BY <2>1
<1> QED
  BY <1>1, <1>2, <1>3, <1>4, <1>5, <1>6, <1>7, <1>8, <1>9
  DEF InProcessNext

\* The waiting receivers that were notified.
Notified(s) == Waiting(s) \cap alerted

\* They are finitely many.
LEMMA NotifiedFinite ==
  ASSUME NEW s
  PROVE  IsFiniteSet(Notified(s)) /\ Cardinality(Notified(s)) \in Nat
<1>1. Notified(s) \subseteq Receiver
  BY DEF Waiting, Notified
<1> QED
  BY <1>1, FS_Subset, FS_CardinalityType, ChannelAssumption

\* A side's part of NoDeafReceiver.
NotDeaf(s) ==
  /\ ended # NoEnding => Waiting(s) \subseteq alerted
  /\ HasFrame(s) =>
       \/ Waiting(s) \subseteq alerted
       \/ Cardinality(Notified(s)) + owed[s] >= Len(inbox[s])

\* The parts make the whole.
LEMMA NotDeafParts == NoDeafReceiver <=> \A s \in Side : NotDeaf(s)
BY DEF NoDeafReceiver, NotDeaf, Notified

\* A step that touches no inbox, no waiter and no notification deafens nobody.
LEMMA NotDeafSame ==
  ASSUME NoDeafReceiver, UNCHANGED <<ended, stopped, inbox, receiver, alerted, owed>>
  PROVE  NoDeafReceiver'
<1>1. \A s \in Side : Waiting(s)' = Waiting(s) /\ HasFrame(s)' = HasFrame(s)
  BY DEF Waiting, HasFrame
<1> QED
  BY <1>1 DEF NoDeafReceiver

\* Every step keeps every waiting receiver within reach: a frame is owed a
\* notification or has alerted a receiver, one each, and an ending alerts all.
LEMMA DeafStep ==
  ChannelTypeInv /\ NoDeafReceiver /\ [InProcessNext]_channelEndVars => NoDeafReceiver'
<1> SUFFICES ASSUME ChannelTypeInv /\ NoDeafReceiver, [InProcessNext]_channelEndVars
             PROVE NoDeafReceiver'
  OBVIOUS
<1> USE ChannelAssumption DEF ChannelTypeInv, InProcessTypeOK
<1>1. ASSUME NEW s \in Side, NEW l \in Lane, Send(s, l) PROVE NoDeafReceiver'
  <2> DEFINE p == Peer(s)
             x == <<<<p, Len(sent[p]) + 1>>, l>>
  <2>7. p \in Side /\ x \in Frame \X Lane
    <3>1. <<p, Len(sent[p]) + 1>> \in Frame
      BY <1>1, NextFrame DEF Send
    <3> QED
      BY <3>1, PeerIsSide
  <2>8. ended = NoEnding /\ inbox' = [inbox EXCEPT ![p] = Append(inbox[p], x)]
    BY <1>1 DEF Send
  <2> HIDE DEF x
  <2>1. /\ p \in Side /\ ended = NoEnding /\ UNCHANGED <<ended, stopped, receiver, alerted>>
        /\ owed' = [owed EXCEPT ![p] = owed[p] + 1]
    BY <1>1, <2>7 DEF Send
  <2>2. Len(inbox'[p]) = Len(inbox[p]) + 1 /\ owed'[p] = owed[p] + 1
        /\ Len(inbox[p]) \in Nat /\ owed[p] \in Nat
    BY <2>1, <2>7, <2>8
  <2>3. \A q \in Side : q # p => inbox'[q] = inbox[q] /\ owed'[q] = owed[q]
    BY <2>1, <2>8
  <2>4. \A q \in Side : Notified(q)' = Notified(q) /\ Waiting(q)' = Waiting(q)
    BY <2>1 DEF Waiting, Notified
  <2>5. ASSUME NEW q \in Side, q # p PROVE NotDeaf(q)'
    <3>1. NotDeaf(q)
      BY NotDeafParts
    <3> QED
      BY <2>1, <2>3, <2>4, <2>5, <3>1 DEF NotDeaf, HasFrame
  <2>6. NotDeaf(p)'
    <3> DEFINE k == Cardinality(Notified(p))
    <3>1. k \in Nat /\ k' = k
      BY <2>1, <2>4, NotifiedFinite
    <3>2. CASE inbox[p] = <<>>
      BY <2>1, <2>2, <3>1, <3>2 DEF NotDeaf
    <3>3. CASE inbox[p] # <<>> /\ p \notin stopped
      <4>1. Waiting(p) \subseteq alerted \/ k + owed[p] >= Len(inbox[p])
        BY <2>1, <3>3, NotDeafParts DEF NotDeaf, HasFrame
      <4> HIDE DEF k
      <4>2. k + owed[p] >= Len(inbox[p]) => k' + owed'[p] >= Len(inbox'[p])
        BY SMTT(30), <2>2, <3>1
      <4> QED
        BY <2>1, <2>4, <4>1, <4>2 DEF NotDeaf, k
    <3>4. CASE p \in stopped
      BY <2>1, <3>4 DEF NotDeaf, HasFrame
    <3> QED
      BY <3>2, <3>3, <3>4
  <2> QED
    BY <2>5, <2>6 DEF NoDeafReceiver, NotDeaf, Notified
<1>2. ASSUME NEW s \in Side, SendClosed(s) PROVE NoDeafReceiver'
  <2>1. UNCHANGED <<ended, stopped, inbox, receiver, alerted, owed>>
    BY <1>2 DEF SendClosed
  <2> QED
    BY <2>1, NotDeafSame
<1>3. ASSUME NEW s \in Side, SendRefused(s) PROVE NoDeafReceiver'
  <2>1. \A q \in Side : Waiting(q)' \subseteq alerted'
    BY <1>3 DEF SendRefused, Stopped, Waiting
  <2> QED
    BY <2>1 DEF NoDeafReceiver
<1>4. ASSUME NEW s \in Side, NotifyOne(s) PROVE NoDeafReceiver'
  <2>1. UNCHANGED <<ended, stopped, inbox, receiver>> /\ owed' = [owed EXCEPT ![s] = owed[s] - 1]
    BY <1>4 DEF NotifyOne
  <2>2. \A q \in Side : Waiting(q)' = Waiting(q)
    BY <2>1 DEF Waiting
  <2>3. ASSUME NEW q \in Side, q # s PROVE NotDeaf(q)'
    <3>1. NotDeaf(q) /\ owed'[q] = owed[q]
      BY <2>1, <2>3, NotDeafParts
    <3>2. Notified(q)' = Notified(q) /\ alerted \subseteq alerted'
      BY <1>4, <2>2, <2>3 DEF NotifyOne, Waiting, Notified
    <3> QED
      BY <2>1, <2>2, <3>1, <3>2 DEF NotDeaf, HasFrame
  <2>4. NotDeaf(s)'
    <3>1. NotDeaf(s) /\ owed[s] \in Nat /\ owed[s] > 0 /\ owed'[s] = owed[s] - 1
      BY <1>4, <2>1, NotDeafParts DEF NotifyOne
    <3>2. CASE Waiting(s) \subseteq alerted
      BY <1>4, <2>2, <3>2 DEF NotifyOne, NotDeaf
    <3>3. CASE ~(Waiting(s) \subseteq alerted)
      <4>1. PICK r \in Waiting(s) \ alerted : alerted' = alerted \cup {r}
        BY <1>4, <3>3 DEF NotifyOne
      <4>2. Notified(s)' = Notified(s) \cup {r} /\ r \notin Notified(s)
        BY <2>2, <4>1 DEF Notified
      <4>3. Cardinality(Notified(s)') = Cardinality(Notified(s)) + 1
        BY ZenonT(60), <4>2, NotifiedFinite, FS_AddElement
      <4>4. Len(inbox[s]) \in Nat /\ Cardinality(Notified(s)) \in Nat
        BY NotifiedFinite
      <4>5. ended = NoEnding
        BY <3>1, <3>3 DEF NotDeaf
      <4>6. HasFrame(s) => Cardinality(Notified(s)') + owed'[s] >= Len(inbox[s])
        <5> DEFINE k == Cardinality(Notified(s))
                   kk == Cardinality(Notified(s)')
        <5>1. HasFrame(s) => k + owed[s] >= Len(inbox[s])
          BY <3>1, <3>3 DEF NotDeaf
        <5>2. kk = k + 1 /\ k \in Nat
          BY <4>3, <4>4
        <5> HIDE DEF k, kk
        <5>3. k + owed[s] >= Len(inbox[s]) => kk + owed'[s] >= Len(inbox[s])
          BY <3>1, <4>4, <5>2
        <5> QED
          BY <5>1, <5>3 DEF kk
      <4> QED
        BY <2>1, <4>5, <4>6 DEF NotDeaf, HasFrame
    <3> QED
      BY <3>2, <3>3
  <2> QED
    BY <2>3, <2>4 DEF NoDeafReceiver, NotDeaf, Notified
<1>5. ASSUME NEW s \in Side, Close(s) PROVE NoDeafReceiver'
  <2>1. \A q \in Side : Waiting(q)' \subseteq alerted'
    BY <1>5 DEF Close, Stopped, Waiting
  <2> QED
    BY <2>1 DEF NoDeafReceiver
<1>6. ASSUME NEW r \in Receiver, RecvFrame(r) PROVE NoDeafReceiver'
  <2> DEFINE s == SideOf[r]
  <2>1. /\ s \in Side /\ receiver' = [receiver EXCEPT ![r] = "ready"] /\ alerted' = alerted \ {r}
        /\ UNCHANGED <<ended, stopped, owed>>
    BY <1>6 DEF RecvFrame
  <2>2. Waiting(s)' = Waiting(s) \ {r} /\ \A q \in Side : q # s
        => Waiting(q)' = Waiting(q) /\ r \notin Waiting(q)
    BY <2>1 DEF Waiting
  <2>3. inbox' = [inbox EXCEPT ![s] = Tail(inbox[s])] /\ HasFrame(s)
    BY <1>6 DEF RecvFrame
  <2>4. Len(inbox'[s]) = Len(inbox[s]) - 1 /\ Len(inbox[s]) \in Nat /\ owed[s] \in Nat
    BY <2>1, <2>3 DEF HasFrame
  <2>5. ASSUME NEW q \in Side, q # s PROVE NotDeaf(q)'
    <3>1. NotDeaf(q) /\ inbox'[q] = inbox[q]
      BY <2>3, <2>5, NotDeafParts
    <3>2. Notified(q)' = Notified(q)
          /\ (Waiting(q) \subseteq alerted => Waiting(q)' \subseteq alerted')
      BY <2>1, <2>2, <2>5 DEF Notified
    <3> QED
      BY <2>1, <2>2, <3>1, <3>2 DEF NotDeaf, HasFrame
  <2>6. NotDeaf(s)'
    <3>1. NotDeaf(s)
      BY <2>1, NotDeafParts
    <3>2. Notified(s)' = Notified(s) \ {r}
          /\ (Waiting(s) \subseteq alerted => Waiting(s)' \subseteq alerted')
      BY <2>1, <2>2 DEF Notified
    <3>3. Cardinality(Notified(s)') >= Cardinality(Notified(s)) - 1
          /\ Cardinality(Notified(s)) \in Nat /\ Cardinality(Notified(s)') \in Int
      <4> HIDE DEF s
      <4>1. IsFiniteSet(Notified(s)) /\ Cardinality(Notified(s)) \in Nat
        BY NotifiedFinite
      <4>2. Cardinality(Notified(s) \ {r}) = IF r \in Notified(s) THEN Cardinality(Notified(s)) - 1
                                           ELSE Cardinality(Notified(s))
        BY <4>1, FS_RemoveElement
      <4>3. Cardinality(Notified(s)') = Cardinality(Notified(s) \ {r})
        BY <3>2
      <4> QED
        BY <4>1, <4>2, <4>3
    <3>4. Cardinality(Notified(s)) + owed[s] >= Len(inbox[s])
          => Cardinality(Notified(s)') + owed'[s] >= Len(inbox'[s])
      BY <2>1, <2>4, <3>3
    <3>5. \/ Waiting(s)' \subseteq alerted'
          \/ Cardinality(Notified(s)') + owed'[s] >= Len(inbox'[s])
      BY <2>3, <3>1, <3>2, <3>4 DEF NotDeaf
    <3> QED
      BY <2>1, <3>1, <3>2, <3>5 DEF NotDeaf
  <2> QED
    BY <2>5, <2>6 DEF NoDeafReceiver, NotDeaf, Notified
<1>7. ASSUME NEW r \in Receiver, RecvClosed(r) PROVE NoDeafReceiver'
  <2> DEFINE s == SideOf[r]
  <2>1. /\ s \in Side /\ receiver' = [receiver EXCEPT ![r] = "ready"] /\ alerted' = alerted \ {r}
        /\ UNCHANGED <<ended, stopped, owed>>
    BY <1>7 DEF RecvClosed
  <2>2. Waiting(s)' = Waiting(s) \ {r} /\ \A q \in Side : q # s
        => Waiting(q)' = Waiting(q) /\ r \notin Waiting(q)
    BY <2>1 DEF Waiting
  <2>3. ended # NoEnding
    BY <1>7 DEF RecvClosed
  <2>4. \A q \in Side : Waiting(q) \subseteq alerted
    BY <2>3 DEF NoDeafReceiver
  <2>5. ASSUME NEW q \in Side PROVE Waiting(q)' \subseteq alerted'
    <3>1. Waiting(q) \subseteq alerted /\ Waiting(q)' \subseteq Waiting(q) \ {r}
      <4>1. CASE q = s
        BY <2>2, <2>4, <4>1
      <4>2. CASE q # s
        BY <2>2, <2>4, <4>2
      <4> QED
        BY <4>1, <4>2
    <3> QED
      BY <2>1, <3>1
  <2> QED
    BY <2>5 DEF NoDeafReceiver
<1>8. ASSUME NEW r \in Receiver, RecvWaits(r) PROVE NoDeafReceiver'
  <2> DEFINE s == SideOf[r]
  <2>1. /\ s \in Side /\ alerted' = alerted \ {r} /\ ended = NoEnding /\ ~HasFrame(s)
        /\ receiver' = [receiver EXCEPT ![r] = "waiting"]
        /\ UNCHANGED <<inbox, ended, stopped, owed>>
    BY <1>8 DEF RecvWaits
  <2>2. \A q \in Side : q # s => Waiting(q)' = Waiting(q) /\ r \notin Waiting(q)
    BY <2>1 DEF Waiting
  <2>3. NotDeaf(s)'
    BY <2>1 DEF NotDeaf, HasFrame
  <2>4. ASSUME NEW q \in Side, q # s PROVE NotDeaf(q)'
    <3>1. NotDeaf(q)
      BY NotDeafParts
    <3>2. Notified(q)' = Notified(q)
          /\ (Waiting(q) \subseteq alerted => Waiting(q)' \subseteq alerted')
      BY <2>1, <2>2, <2>4 DEF Notified
    <3> QED
      BY <2>1, <2>2, <3>1, <3>2 DEF NotDeaf, HasFrame
  <2> QED
    BY <2>3, <2>4 DEF NoDeafReceiver, NotDeaf, Notified
<1>9. CASE UNCHANGED channelEndVars
  <2>1. UNCHANGED <<ended, stopped, inbox, receiver, alerted, owed>>
    BY <1>9 DEF channelEndVars
  <2> QED
    BY <2>1, NotDeafSame
<1> QED
  BY <1>1, <1>2, <1>3, <1>4, <1>5, <1>6, <1>7, <1>8, <1>9
  DEF InProcessNext

\* The initial state satisfies the channel's inductive invariant.
LEMMA ChannelBase == InProcessInit => ChannelInv
<1> SUFFICES ASSUME InProcessInit PROVE ChannelInv
  OBVIOUS
<1>1. ChannelTypeInv
  BY DEF InProcessInit, ChannelTypeInv, InProcessTypeOK, NoCounts
<1>2. StopInv /\ OrderInv
  BY DEF InProcessInit, StopInv, OrderInv, Starts, Follows
<1>3. NoDeafReceiver
  BY DEF InProcessInit, NoDeafReceiver, HasFrame
<1> QED
  BY <1>1, <1>2, <1>3 DEF ChannelInv

\* Every step keeps the channel's inductive invariant.
LEMMA ChannelStep == ChannelInv /\ [InProcessNext]_channelEndVars => ChannelInv'
BY ChannelTypeStep, StopStep, OrderStep, DeafStep DEF ChannelInv

\* The channel's state keeps its types.
THEOREM ChannelTypeCorrect == InProcessSpec => []InProcessTypeOK
<1>1. ChannelInv => InProcessTypeOK
  BY DEF ChannelInv, ChannelTypeInv
<1> QED
  BY <1>1, ChannelBase, ChannelStep, PTL DEF InProcessSpec

\* With any number of receiving threads and any lane capacities, nobody
\* sleeps on a frame that is there or on the ending (`send`, `stop`, `recv`).
THEOREM NobodyDeaf == InProcessSpec => []NoDeafReceiver
<1>1. ChannelInv => NoDeafReceiver
  BY DEF ChannelInv
<1> QED
  BY <1>1, ChannelBase, ChannelStep, PTL DEF InProcessSpec

\* A start of the same length is the whole.
LEMMA StartsWhole ==
  ASSUME NEW F, NEW rc \in Seq(F), NEW sn \in Seq(F), Len(rc) = Len(sn), Starts(rc, sn)
  PROVE  rc = sn
BY DEF Starts

\* The contract's choice of the other end is the peer.
LEMMA ContractPeerIsPeer == \A s \in Side : Contract!ContractPeer(s) = Peer(s)
BY DEF Contract!ContractPeer, Peer, Side

\* Every step of the channel is a step of the contract, or changes nothing
\* the contract speaks of.
LEMMA ChannelStepRefines ==
  ChannelInv /\ [InProcessNext]_channelEndVars => [Contract!ChannelNext]_(Contract!channelVars)
<1> SUFFICES ASSUME ChannelInv, [InProcessNext]_channelEndVars
             PROVE  [Contract!ChannelNext]_(Contract!channelVars)
  OBVIOUS
<1> USE ChannelAssumption DEF ChannelInv, ChannelTypeInv, InProcessTypeOK
<1>1. ASSUME NEW s \in Side, NEW l \in Lane, Send(s, l) PROVE Contract!ChannelNext
  <2> DEFINE f == <<Peer(s), Len(sent[Peer(s)]) + 1>>
  <2>1. f \in Frame
    BY <1>1, NextFrame DEF Send
  <2>2. Contract!Accept(s, f)
    BY <1>1, ContractPeerIsPeer DEF Send, Contract!Accept
  <2> QED
    BY <2>1, <2>2 DEF Contract!ChannelNext
<1>2. ASSUME NEW s \in Side, SendClosed(s) PROVE Contract!ChannelNext
  <2>1. Contract!Tell(s, "send")
    BY <1>2 DEF SendClosed, SeenBy, Contract!Tell, Contract!ContractReason
  <2> QED
    BY <2>1 DEF Contract!ChannelNext
<1>3. ASSUME NEW s \in Side, SendRefused(s) PROVE Contract!ChannelNext
  <2>1. Contract!End(s, TRUE)
    BY <1>3 DEF SendRefused, Stopped, Contract!End
  <2> QED
    BY <2>1 DEF Contract!ChannelNext
<1>4. ASSUME NEW s \in Side, NotifyOne(s) PROVE UNCHANGED Contract!channelVars
  BY <1>4 DEF NotifyOne, Contract!channelVars
<1>5. ASSUME NEW s \in Side, Close(s) PROVE Contract!ChannelNext
  <2>1. Contract!End(s, FALSE)
    BY <1>5 DEF Close, Stopped, Contract!End
  <2> QED
    BY <2>1 DEF Contract!ChannelNext
<1>6. ASSUME NEW r \in Receiver, RecvFrame(r) PROVE Contract!ChannelNext
  <2> DEFINE s == SideOf[r]
  <2>1. s \in Side /\ s \notin stopped /\ inbox[s] # <<>> /\ inbox[s] \in Seq(Frame \X Lane)
        /\ sent[s] \in Seq(Frame) /\ received[s] \in Seq(Frame)
    BY <1>6 DEF RecvFrame, HasFrame
  <2>2. Head(inbox[s])[1] = sent[s][Len(received[s]) + 1] /\ Len(received[s]) < Len(sent[s])
    <3> HIDE DEF s
    <3>1. Starts(received[s], sent[s]) /\ Follows(inbox[s], received[s], sent[s])
      BY <2>1 DEF OrderInv
    <3> QED
      BY <2>1, <3>1, QueueHead
  <2>3. Contract!Deliver(s)
    BY <1>6, <2>1, <2>2 DEF RecvFrame, Contract!Deliver
  <2> QED
    BY <2>1, <2>3 DEF Contract!ChannelNext
<1>7. ASSUME NEW r \in Receiver, RecvClosed(r) PROVE Contract!ChannelNext
  <2> DEFINE s == SideOf[r]
  <2>1. s \in Side /\ (s \in stopped \/ inbox[s] = <<>>) /\ ended # NoEnding
    BY <1>7 DEF RecvClosed, HasFrame
  <2>2. s \notin stopped => Len(received[s]) = Len(sent[s])
    BY <2>1 DEF OrderInv, Follows
  <2>3. s \notin stopped => received[s] = sent[s]
    <3>1. sent[s] \in Seq(Frame) /\ received[s] \in Seq(Frame) /\ Starts(received[s], sent[s])
      BY <2>1 DEF OrderInv
    <3> QED
      BY <2>2, <3>1, StartsWhole
  <2>4. Contract!Tell(s, "recv")
    BY <1>7, <2>1, <2>3 DEF RecvClosed, SeenBy, Contract!Tell, Contract!ContractReason
  <2> QED
    BY <2>1, <2>4 DEF Contract!ChannelNext
<1>8. ASSUME NEW r \in Receiver, RecvWaits(r) PROVE UNCHANGED Contract!channelVars
  BY <1>8 DEF RecvWaits, Contract!channelVars
<1>9. CASE UNCHANGED channelEndVars
  BY <1>9 DEF channelEndVars, Contract!channelVars
<1> QED
  BY <1>1, <1>2, <1>3, <1>4, <1>5, <1>6, <1>7, <1>8, <1>9 DEF InProcessNext

\* The in-process channel implements the contract of the channel traits:
\* frames in order, each once; one ending, the same for both ends; and the
\* ending told to a side that has not stopped only after all sent to it.
THEOREM ChannelRefines == InProcessSpec => ChannelImplementsContract
<1>1. InProcessInit => Contract!ChannelInit
  BY DEF InProcessInit, Contract!ChannelInit
<1> QED
  BY <1>1, ChannelBase, ChannelStep, ChannelStepRefines, PTL
  DEF InProcessSpec, ChannelImplementsContract, Contract!ChannelSpec

\* A lane's places are finitely many.
LEMMA PlacesFinite ==
  ASSUME NEW F, NEW q \in Seq(F), NEW l
  PROVE  IsFiniteSet(LanePlaces(q, l)) /\ Cardinality(LanePlaces(q, l)) \in Nat
<1>1. IsFiniteSet(1..Len(q))
  BY FS_Interval
<1>2. LanePlaces(q, l) \subseteq 1..Len(q)
  BY DEF LanePlaces
<1> QED
  BY <1>1, <1>2, FS_Subset, FS_CardinalityType

\* A frame queued adds a place to its own lane.
LEMMA PlacesGrow ==
  ASSUME NEW F, NEW q \in Seq(F \X Lane), NEW f \in F, NEW k \in Lane, NEW l
  PROVE  Cardinality(LanePlaces(Append(q, <<f, k>>), l))
           = Cardinality(LanePlaces(q, l)) + (IF k = l THEN 1 ELSE 0)
<1> DEFINE qq == Append(q, <<f, k>>)
<1>1. /\ Len(qq) = Len(q) + 1 /\ Len(q) \in Nat /\ qq[Len(q) + 1] = <<f, k>>
      /\ \A i \in 1..Len(q) : qq[i] = q[i]
  <2>1. <<f, k>> \in F \X Lane
    OBVIOUS
  <2> QED
    BY <2>1
<1> HIDE DEF qq
<1>2. LanePlaces(qq, l) = LanePlaces(q, l) \cup (IF k = l THEN {Len(q) + 1} ELSE {})
  BY <1>1 DEF LanePlaces
<1>3. Len(q) + 1 \notin LanePlaces(q, l)
  BY <1>1 DEF LanePlaces
<1>4. IsFiniteSet(LanePlaces(q, l)) /\ Cardinality(LanePlaces(q, l)) \in Nat
  BY PlacesFinite
<1>5. Cardinality(LanePlaces(q, l) \cup {Len(q) + 1}) = Cardinality(LanePlaces(q, l)) + 1
  BY <1>3, <1>4, FS_AddElement
<1>6. CASE k = l
  BY <1>2, <1>5, <1>6 DEF qq
<1>7. CASE k # l
  <2>1. LanePlaces(qq, l) = LanePlaces(q, l)
    BY <1>2, <1>7
  <2> QED
    BY <1>4, <1>7, <2>1 DEF qq
<1> QED
  BY <1>6, <1>7

\* A frame taken from the front removes a place of its own lane: the others
\* move up by one.
LEMMA PlacesShrink ==
  ASSUME NEW F, NEW q \in Seq(F \X Lane), q # <<>>, NEW l
  PROVE  Cardinality(LanePlaces(Tail(q), l))
           = Cardinality(LanePlaces(q, l)) - (IF Head(q)[2] = l THEN 1 ELSE 0)
<1> DEFINE qq == Tail(q)
           rest == LanePlaces(q, l) \ {1}
           up == [i \in rest |-> i - 1]
<1>1. /\ Len(q) \in Nat /\ Len(q) >= 1 /\ Len(qq) = Len(q) - 1 /\ Head(q) = q[1]
      /\ \A i \in 1..(Len(q) - 1) : qq[i] = q[i + 1]
  OBVIOUS
<1> HIDE DEF qq
<1>2. rest \subseteq 2..Len(q) /\ \A i \in rest : q[i][2] = l /\ i \in Int
  BY <1>1 DEF LanePlaces
<1>3. ASSUME NEW i \in rest PROVE i - 1 \in LanePlaces(qq, l)
  <2>1. i - 1 \in 1..(Len(q) - 1) /\ (i - 1) + 1 = i
    BY <1>1, <1>2
  <2> QED
    BY <1>1, <1>2, <2>1 DEF LanePlaces
<1>4. ASSUME NEW j \in LanePlaces(qq, l) PROVE j + 1 \in rest /\ (j + 1) - 1 = j
  <2>1. j \in 1..(Len(q) - 1) /\ qq[j][2] = l
    BY <1>1 DEF LanePlaces
  <2>2. j + 1 \in 1..Len(q) /\ j + 1 # 1 /\ q[j + 1] = qq[j]
    BY <1>1, <2>1
  <2> QED
    BY <2>1, <2>2 DEF LanePlaces
<1> HIDE DEF rest
<1>5. up \in [rest -> LanePlaces(qq, l)]
  BY <1>3
<1>6. \A i, j \in rest : up[i] = up[j] => i = j
  BY <1>2
<1>7. \A j \in LanePlaces(qq, l) : \E i \in rest : up[i] = j
  BY <1>4
<1>8. ExistsBijection(rest, LanePlaces(qq, l))
  BY <1>5, <1>6, <1>7 DEF ExistsBijection, Bijection, Injection, Surjection, IsInjective
<1>9. IsFiniteSet(LanePlaces(q, l)) /\ Cardinality(LanePlaces(q, l)) \in Nat
  BY PlacesFinite
<1>10. /\ IsFiniteSet(rest)
       /\ Cardinality(rest) = IF 1 \in LanePlaces(q, l) THEN Cardinality(LanePlaces(q, l)) - 1
                              ELSE Cardinality(LanePlaces(q, l))
  BY <1>9, FS_RemoveElement DEF rest
<1>11. Cardinality(LanePlaces(qq, l)) = Cardinality(rest)
  BY <1>8, <1>10, FS_Bijection
<1>12. 1 \in LanePlaces(q, l) <=> Head(q)[2] = l
  BY <1>1 DEF LanePlaces
<1> QED
  BY <1>9, <1>10, <1>11, <1>12 DEF qq

\* Every step keeps the lanes' counts exact and within their capacities.
LEMMA LanesStep == ChannelTypeInv /\ LanesBounded /\ [InProcessNext]_channelEndVars => LanesBounded'
<1> SUFFICES ASSUME ChannelTypeInv /\ LanesBounded, [InProcessNext]_channelEndVars
             PROVE LanesBounded'
  OBVIOUS
<1> USE ChannelAssumption DEF ChannelTypeInv, InProcessTypeOK
<1>1. ASSUME NEW s \in Side, NEW l \in Lane, Send(s, l) PROVE LanesBounded'
  <2> DEFINE p == Peer(s)
  <2>1. p \in Side /\ <<p, Len(sent[p]) + 1>> \in Frame
    BY <1>1, NextFrame, PeerIsSide DEF Send
  <2>2. PICK f \in Frame : inbox' = [inbox EXCEPT ![p] = Append(inbox[p], <<f, l>>)]
    BY <1>1, <2>1 DEF Send
  <2>4. counts' = [counts EXCEPT ![p][l] = counts[p][l] + 1] /\ counts[p][l] < LaneCapacity[l]
    BY <1>1 DEF Send
  <2> HIDE DEF p
  <2>3. ASSUME NEW q \in Side, NEW m \in Lane
        PROVE  counts'[q][m] = Cardinality(LanePlaces(inbox'[q], m))
              /\ counts'[q][m] <= LaneCapacity[m]
    <3>1. counts[q][m] = Cardinality(LanePlaces(inbox[q], m)) /\ counts[q][m] <= LaneCapacity[m]
          /\ counts[q][m] \in Int /\ LaneCapacity[m] \in Nat
      BY DEF LanesBounded
    <3>2. CASE q # p
      BY <2>1, <2>2, <2>4, <3>1, <3>2
    <3>3. CASE q = p
      <4>1. inbox'[q] = Append(inbox[q], <<f, l>>) /\ inbox[q] \in Seq(Frame \X Lane)
        BY <2>1, <2>2, <3>3
      <4>2. Cardinality(LanePlaces(Append(inbox[q], <<f, l>>), m))
              = Cardinality(LanePlaces(inbox[q], m)) + (IF l = m THEN 1 ELSE 0)
        BY SMTT(30), <4>1, PlacesGrow
      <4>3. CASE m = l
        <5>1. counts'[q][m] = counts[q][m] + 1 /\ counts[q][m] < LaneCapacity[m]
          BY <2>1, <2>4, <3>3, <4>3
        <5> QED
          BY SMTT(30), <2>1, <3>1, <4>1, <4>2, <4>3, <5>1
      <4>4. CASE m # l
        <5>1. counts'[q][m] = counts[q][m]
          BY <2>1, <2>4, <3>3, <4>4
        <5> QED
          BY <2>1, <3>1, <4>1, <4>2, <4>4, <5>1
      <4> QED
        BY <4>3, <4>4
    <3> QED
      BY <3>2, <3>3
  <2> QED
    BY <2>3 DEF LanesBounded
<1>2. ASSUME NEW s \in Side, SendClosed(s) PROVE LanesBounded'
  <2>1. UNCHANGED <<inbox, counts>>
    BY <1>2 DEF SendClosed
  <2> QED
    BY <2>1 DEF LanesBounded
<1>3. ASSUME NEW s \in Side, SendRefused(s) PROVE LanesBounded'
  <2>1. inbox' = [inbox EXCEPT ![s] = <<>>] /\ counts' = [counts EXCEPT ![s] = NoCounts]
    BY <1>3 DEF SendRefused, Stopped
  <2>2. \A m \in Lane : Cardinality(LanePlaces(<<>>, m)) = 0 /\ NoCounts[m] = 0
    <3>1. \A m \in Lane : LanePlaces(<<>>, m) = {}
      BY DEF LanePlaces
    <3> QED
      BY <3>1, FS_EmptySet DEF NoCounts
  <2>3. ASSUME NEW q \in Side, NEW m \in Lane
        PROVE  counts'[q][m] = Cardinality(LanePlaces(inbox'[q], m))
              /\ counts'[q][m] <= LaneCapacity[m]
    <3>1. CASE q = s
      BY <2>1, <2>2, <3>1
    <3>2. CASE q # s
      BY <2>1, <3>2 DEF LanesBounded
    <3> QED
      BY <3>1, <3>2
  <2> QED
    BY <2>3 DEF LanesBounded
<1>4. ASSUME NEW s \in Side, NotifyOne(s) PROVE LanesBounded'
  <2>1. UNCHANGED <<inbox, counts>>
    BY <1>4 DEF NotifyOne
  <2> QED
    BY <2>1 DEF LanesBounded
<1>5. ASSUME NEW s \in Side, Close(s) PROVE LanesBounded'
  <2>1. inbox' = [inbox EXCEPT ![s] = <<>>] /\ counts' = [counts EXCEPT ![s] = NoCounts]
    BY <1>5 DEF Close, Stopped
  <2>2. \A m \in Lane : Cardinality(LanePlaces(<<>>, m)) = 0 /\ NoCounts[m] = 0
    <3>1. \A m \in Lane : LanePlaces(<<>>, m) = {}
      BY DEF LanePlaces
    <3> QED
      BY <3>1, FS_EmptySet DEF NoCounts
  <2>3. ASSUME NEW q \in Side, NEW m \in Lane
        PROVE  counts'[q][m] = Cardinality(LanePlaces(inbox'[q], m))
              /\ counts'[q][m] <= LaneCapacity[m]
    <3>1. CASE q = s
      BY <2>1, <2>2, <3>1
    <3>2. CASE q # s
      BY <2>1, <3>2 DEF LanesBounded
    <3> QED
      BY <3>1, <3>2
  <2> QED
    BY <2>3 DEF LanesBounded
<1>6. ASSUME NEW r \in Receiver, RecvFrame(r) PROVE LanesBounded'
  <2> DEFINE s == SideOf[r]
             h == Head(inbox[s])[2]
  <2>1. s \in Side /\ inbox[s] \in Seq(Frame \X Lane) /\ inbox[s] # <<>> /\ h \in Lane
    BY <1>6 DEF RecvFrame, HasFrame
  <2>2. inbox' = [inbox EXCEPT ![s] = Tail(inbox[s])]
        /\ counts' = [counts EXCEPT ![s][h] = counts[s][h] - 1]
    BY <1>6 DEF RecvFrame
  <2> HIDE DEF s
  <2>3. ASSUME NEW q \in Side, NEW m \in Lane
        PROVE  counts'[q][m] = Cardinality(LanePlaces(inbox'[q], m))
              /\ counts'[q][m] <= LaneCapacity[m]
    <3>1. counts[q][m] = Cardinality(LanePlaces(inbox[q], m)) /\ counts[q][m] <= LaneCapacity[m]
          /\ counts[q][m] \in Int /\ LaneCapacity[m] \in Nat
      BY DEF LanesBounded
    <3>2. CASE q # s
      BY <2>1, <2>2, <3>1, <3>2
    <3>3. CASE q = s
      <4>1. inbox'[q] = Tail(inbox[q])
        BY <2>1, <2>2, <3>3
      <4>2. Cardinality(LanePlaces(Tail(inbox[q]), m))
              = Cardinality(LanePlaces(inbox[q], m)) - (IF h = m THEN 1 ELSE 0)
        BY <2>1, <3>3, PlacesShrink
      <4> HIDE DEF h
      <4>3. counts'[q][m] = counts[q][m] - (IF h = m THEN 1 ELSE 0)
        <5>1. CASE m = h
          BY <2>1, <2>2, <3>1, <3>3, <5>1
        <5>2. CASE m # h
          BY <2>1, <2>2, <3>1, <3>3, <5>2
        <5> QED
          BY <5>1, <5>2
      <4> QED
        BY <3>1, <4>1, <4>2, <4>3
    <3> QED
      BY <3>2, <3>3
  <2> QED
    BY <2>3 DEF LanesBounded
<1>7. ASSUME NEW r \in Receiver, RecvClosed(r) PROVE LanesBounded'
  <2>1. UNCHANGED <<inbox, counts>>
    BY <1>7 DEF RecvClosed
  <2> QED
    BY <2>1 DEF LanesBounded
<1>8. ASSUME NEW r \in Receiver, RecvWaits(r) PROVE LanesBounded'
  <2>1. UNCHANGED <<inbox, counts>>
    BY <1>8 DEF RecvWaits
  <2> QED
    BY <2>1 DEF LanesBounded
<1>9. CASE UNCHANGED channelEndVars
  <2>1. UNCHANGED <<inbox, counts>>
    BY <1>9 DEF channelEndVars
  <2> QED
    BY <2>1 DEF LanesBounded
<1> QED
  BY <1>1, <1>2, <1>3, <1>4, <1>5, <1>6, <1>7, <1>8, <1>9
  DEF InProcessNext

\* The inbox of a side never holds more frames of a lane than the lane's
\* capacity, whatever the sends, the receives and the stops of both sides.
THEOREM LanesStayBounded == InProcessSpec => []LanesBounded
<1>1. InProcessInit => LanesBounded
  <2> SUFFICES ASSUME InProcessInit, NEW s \in Side, NEW l \in Lane
               PROVE  /\ counts[s][l] = Cardinality(LanePlaces(inbox[s], l))
                      /\ counts[s][l] <= LaneCapacity[l]
    BY DEF LanesBounded
  <2>1. LanePlaces(inbox[s], l) = {} /\ counts[s][l] = 0
    BY DEF InProcessInit, NoCounts, LanePlaces
  <2> QED
    BY <2>1, FS_EmptySet, ChannelAssumption
<1>2. ChannelInv => ChannelTypeInv
  BY DEF ChannelInv
<1> QED
  BY <1>1, <1>2, ChannelBase, ChannelStep, LanesStep, PTL DEF InProcessSpec
=============================================================================
