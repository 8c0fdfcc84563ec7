------------------------------ MODULE MCWorktree ------------------------------
(***************************************************************************)
(* Instances of Worktree for TLC.                                          *)
(***************************************************************************)
EXTENDS WorktreeProperties, TLC

ContentSymmetry == Permutations(Contents)
=============================================================================
