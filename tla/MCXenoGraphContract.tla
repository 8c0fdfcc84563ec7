------------------------- MODULE MCXenoGraphContract -------------------------
(***************************************************************************)
(* An instance of XenoGraphContract for TLC.                               *)
(***************************************************************************)
EXTENDS XenoGraphContract

UnitBudgets == [rung \in Rungs |-> 1]
=============================================================================
