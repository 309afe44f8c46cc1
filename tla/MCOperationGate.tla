-------------------------- MODULE MCOperationGate ---------------------------
(***************************************************************************)
(* OperationGate for TLC: two worker threads, the reading and the close    *)
(* thread, and one callback.                                               *)
(***************************************************************************)
EXTENDS OperationGate, TLC

CONSTANTS w1, w2, reader, closer, k1

MCCrossers == {w1, w2}
MCControllers == {reader, closer}
MCCallbacks == {k1}
=============================================================================
