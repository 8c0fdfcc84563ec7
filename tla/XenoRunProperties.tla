-------------------------- MODULE XenoRunProperties --------------------------
(***************************************************************************)
(* What holds of control flow and files together.                          *)
(***************************************************************************)
EXTENDS XenoRun

(* Whatever way the graph takes through ladder, re-plans, rejections and   *)
(* halts, files, index, commits and touched-file lists move only as the    *)
(* worktree's specification allows, one commit per checkpoint.             *)
FollowsWorktree == W!Init /\ [][W!Next]_(W!vars)

(* The one word XenoGraph keeps about the files is true of them: when it   *)
(* says "committed", git finds nothing to commit, so a rewrite after L3 or *)
(* a task's first write starts from the last green commit.                 *)
TreeWordIsTrue == worktree = "committed" => W!AddAll = W!HeadTree

(* When the human approves, the branch is the root and one commit: the     *)
(* tree Cerberus read on its last visit, which is what the last passing    *)
(* gates saw wherever git and the sandbox both look, whatever re-plans,    *)
(* returns and rollbacks came before.                                      *)
ShipsWhatWasReviewed ==
  pc = "END" /\ review_verdict = "approve" /\ disposition = "approved" =>
    /\ history = <<W!RootTree, reviewed>>
    /\ \A p \in Paths \ (IgnoredPaths \cup UngatedPaths) :
         W!HeadTree[p] = evaluated[p]
=============================================================================
