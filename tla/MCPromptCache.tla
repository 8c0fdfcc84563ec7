----------------------------- MODULE MCPromptCache ----------------------------
(***************************************************************************)
(* Instances of PromptCache for TLC.                                       *)
(***************************************************************************)
EXTENDS PromptCacheProperties, TLC

TreeSymmetry == Permutations(Trees)
=============================================================================
