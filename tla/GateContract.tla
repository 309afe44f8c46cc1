---------------------------- MODULE GateContract ----------------------------
(***************************************************************************)
(* What a call's gate promises the session host, whatever the threads that *)
(* use it do: the three gate states (live, cancelled, revoked), which      *)
(* crossings each lets through, and the finality of a revocation           *)
(* (crates/session-host/src/gate.rs, the table of the module comment and   *)
(* the docs of `cross`, `cancel` and `revoke`).                            *)
(*                                                                         *)
(* Locks, reads of single flags and the steps between them are absent:     *)
(* OperationGate has those and is shown to implement this module.          *)
(***************************************************************************)
EXTENDS Naturals

CONSTANTS Crossers,   \* the threads of the call's worker
          Kinds       \* "effect" (effects and appends) and "report"

VARIABLES cancelled,  \* the token is cancelled
          revoked,    \* the gate is revoked
          ended,      \* nobody holds the session any more
          inside      \* the closures running, as <<crosser, kind>>

contractVars == <<cancelled, revoked, ended, inside>>

ContractInit ==
  /\ cancelled = FALSE
  /\ revoked = FALSE
  /\ ended = FALSE
  /\ inside = {}

\* A closure starts: alone, on a live session, before any revocation, and
\* an effectful one only before the cancellation.
Enter(t, k) ==
  /\ inside = {}
  /\ ~revoked
  /\ ~ended
  /\ k = "effect" => ~cancelled
  /\ inside' = {<<t, k>>}
  /\ UNCHANGED <<cancelled, revoked, ended>>

\* A closure ends. The session may end with it, when the crossing held the
\* last reference.
Leave(t, k) ==
  /\ <<t, k>> \in inside
  /\ inside' = inside \ {<<t, k>>}
  /\ ended' \in {ended, TRUE}
  /\ UNCHANGED <<cancelled, revoked>>

Cancel ==
  /\ cancelled' = TRUE
  /\ UNCHANGED <<revoked, ended, inside>>

\* Revocation follows cancellation and waits for the closure in flight.
Revoke ==
  /\ cancelled
  /\ inside = {}
  /\ revoked' = TRUE
  /\ UNCHANGED <<cancelled, ended, inside>>

\* The session ends, never under a running closure.
EndSession ==
  /\ inside = {}
  /\ ended' = TRUE
  /\ UNCHANGED <<cancelled, revoked, inside>>

ContractNext ==
  \/ \E t \in Crossers, k \in Kinds : Enter(t, k) \/ Leave(t, k)
  \/ Cancel
  \/ Revoke
  \/ EndSession

ContractSpec == ContractInit /\ [][ContractNext]_contractVars
=============================================================================
