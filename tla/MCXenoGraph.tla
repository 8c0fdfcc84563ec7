----------------------------- MODULE MCXenoGraph -----------------------------
(***************************************************************************)
(* Instances of XenoGraph for TLC.                                         *)
(***************************************************************************)
EXTENDS XenoGraphProperties, TLC

\* core/types.py RUNG_BUDGETS: {0: 1, 1: 3, 2: 2, 3: 2, 4: 1}
CodeBudgets == 0 :> 1 @@ 1 :> 3 @@ 2 :> 2 @@ 3 :> 2 @@ 4 :> 1

\* One attempt per rung: the whole ladder in as few steps as it has rungs.
UnitBudgets == [rung \in Rungs |-> 1]

RunSymmetry == Permutations(Diffs) \cup Permutations(Tasks)
=============================================================================
