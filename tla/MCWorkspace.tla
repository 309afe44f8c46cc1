----------------------------- MODULE MCWorkspace -----------------------------
(***************************************************************************)
(* Two parts of the workspace layer that share no state, for TLC: the      *)
(* merge lifecycle and the local family.  A behaviour is a behaviour of    *)
(* one of them, chosen by `part` in its first state.                       *)
(***************************************************************************)
EXTENDS MCMergeLifecycle, LocalFamily

CONSTANTS w0, w1, w2, p1, p2            \* family: workspaces, processes

VARIABLE part

\* The family's behaviours are explored beside one plan of a merge.
MCInit ==
  /\ part \in {"merge", "family"} /\ Init /\ FamilyInit
  /\ part = "family" => /\ kind = [m \in Member |-> "verify"]
                        /\ changes = {"lock"}

\* The family's commands are used up; the merge's never are.
FamilyRests ==
  /\ started = MaxCommands /\ \A p \in Process : proc[p] = NoCommand
  /\ UNCHANGED familyVars

MCNext ==
  /\ part' = part
  /\ \/ part = "merge" /\ Next /\ UNCHANGED familyVars
     \/ part = "family" /\ (FamilyNext \/ FamilyRests) /\ UNCHANGED vars

MCSpec ==
  /\ MCInit /\ [][MCNext]_<<part, vars, familyVars>>
  /\ WF_vars(ServiceStep)
=============================================================================
