---------------------------- MODULE MergeContract ----------------------------
(***************************************************************************)
(* What a coordinated merge promises whoever looks only at the             *)
(* repositories: it goes one way until it is given up, then the other way; *)
(* the workspace root's evidence commit stands only while every member is  *)
(* at its result; and it ends with everything merged or nothing.           *)
(***************************************************************************)
CONSTANT Member

VARIABLES
  decision,   \* "forward", "reverse", "completed" or "aborted"
  at,         \* where each member's branch is
  goal,       \* where a completed merge leaves it
  published   \* the root branch carries the evidence commit

contractVars == <<decision, at, goal, published>>

Merged == \A m \in Member : at[m] = goal[m]

Required == \E m \in Member : goal[m] = "result"

ContractInit ==
  /\ decision = "forward"
  /\ at = [m \in Member |-> "before"]
  /\ goal \in [Member -> {"before", "result"}]
  /\ published = FALSE

\* A member is merged, stops at a conflict, or its conflict is resolved.
Advance(m, place) ==
  /\ decision = "forward"
  /\ ~published
  /\ <<at[m], place>> \in {<<"before", "conflict">>, <<"before", "result">>,
                           <<"conflict", "result">>}
  /\ goal[m] = "result"
  /\ at' = [at EXCEPT ![m] = place]
  /\ UNCHANGED <<decision, goal, published>>

\* The evidence commit is made once every member is at its result.
Publish ==
  /\ decision = "forward"
  /\ Merged /\ Required
  /\ ~published
  /\ published' = TRUE
  /\ UNCHANGED <<decision, at, goal>>

GiveUp ==
  /\ decision = "forward"
  /\ decision' = "reverse"
  /\ UNCHANGED <<at, goal, published>>

\* The evidence is withdrawn before any member goes back.
Withdraw ==
  /\ decision = "reverse"
  /\ published
  /\ published' = FALSE
  /\ UNCHANGED <<decision, at, goal>>

TakeBack(m) ==
  /\ decision = "reverse"
  /\ ~published
  /\ at[m] # "before"
  /\ at' = [at EXCEPT ![m] = "before"]
  /\ UNCHANGED <<decision, goal, published>>

Finish ==
  /\ \/ /\ decision = "forward"
        /\ Merged
        /\ published = Required
        /\ decision' = "completed"
     \/ /\ decision = "reverse"
        /\ \A m \in Member : at[m] = "before"
        /\ ~published
        /\ decision' = "aborted"
  /\ UNCHANGED <<at, goal, published>>

ContractNext ==
  \/ \E m \in Member :
       \/ \E place \in {"conflict", "result"} : Advance(m, place)
       \/ TakeBack(m)
  \/ Publish \/ GiveUp \/ Withdraw \/ Finish

ContractSpec == ContractInit /\ [][ContractNext]_contractVars
=============================================================================
