--------------------------- MODULE MCMergeLifecycle ---------------------------
(* Two members with every mix of outcomes: a conflict before or after a    *)
(* member that merges at once, two conflicts, a member with nothing to do, *)
(* and nothing to do at all.                                               *)
EXTENDS MergeLifecycle

CONSTANTS m1, m2

MCTargets == <<m1, m2>>

MCKindChoices == [{m1, m2} -> {"verify", "ff", "merge", "conflict"}]

MCChangeSets == {{"lock"}, {"lock", "boundary"}}
=============================================================================
