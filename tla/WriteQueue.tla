----------------------------- MODULE WriteQueue -----------------------------
(***************************************************************************)
(* The order in which frames that wait for a byte stream's writer are      *)
(* written (crates/session-channel/src/write_queue.rs): a queue is a       *)
(* sequence of frames in arrival order.                                    *)
(***************************************************************************)
EXTENDS Integers, Sequences

\* Nothing before entry i must stay ahead of it: no SessionCall (tag 1) and no
\* frame of its own target.
Unblocked(q, i) ==
  /\ q[i].control
  /\ \A j \in 1 .. i - 1 : ~q[j].call /\ q[j].target # q[i].target

\* Mutant of NextIndex: any control frame goes first.
NextControl(q) ==
  LET controls == {i \in 1 .. Len(q) : q[i].control}
  IN  IF controls = {} THEN 1
      ELSE CHOOSE i \in controls : \A j \in controls : i <= j

\* `next_index`, of a queue that is not empty.
NextIndex(q) ==
  LET unblocked == {i \in 1 .. Len(q) : Unblocked(q, i)}
  IN  IF unblocked = {} THEN 1
      ELSE CHOOSE i \in unblocked : \A j \in unblocked : i <= j

\* `peek` and `pop`.
Peek(q) == q[NextIndex(q)]
Popped(q) == SubSeq(q, 1, NextIndex(q) - 1) \o SubSeq(q, NextIndex(q) + 1, Len(q))

\* What the rule allows: frame f is written before frame g, which came first.
MayOvertake(f, g) == f.control /\ f.target # g.target /\ ~g.call
=============================================================================
