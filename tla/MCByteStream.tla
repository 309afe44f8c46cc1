---------------------------- MODULE MCByteStream ----------------------------
(***************************************************************************)
(* ByteStream for TLC: the kinds of frames its senders send.               *)
(***************************************************************************)
EXTENDS ByteStream

CONSTANTS x, y

Key(call, control, target) ==
  [call |-> call, control |-> control, target |-> target]

\* A SessionCall, data and control of one target, control of another.
MCKeys == {Key(TRUE, FALSE, x), Key(FALSE, FALSE, x), Key(FALSE, TRUE, x),
           Key(FALSE, TRUE, y)}
=============================================================================
