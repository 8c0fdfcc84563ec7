------------------------------ MODULE MCXenoRun ------------------------------
(***************************************************************************)
(* An instance of XenoRun for TLC.                                         *)
(***************************************************************************)
EXTENDS XenoRunProperties, TLC

UnitBudgets == [rung \in Rungs |-> 1]

OneLine == [content \in Contents |-> 1]

Changes == UNION {[S -> (Contents \cup {Absent}) \X Contents] : S \in SUBSET Paths}

\* Every diff of a write to these paths.
RealDiffs == [changes : Changes, blanks : 0..Cardinality(Paths)]

ContentSymmetry == Permutations(Contents)
=============================================================================
