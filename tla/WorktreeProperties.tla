-------------------------- MODULE WorktreeProperties --------------------------
(***************************************************************************)
(* What the checkpoint substrate promises about files and commits.         *)
(***************************************************************************)
EXTENDS Worktree

(* Every variable stays in its range, and checkpoints name commits.        *)
TypeOK ==
  /\ files \in Trees
  /\ index \in Trees
  /\ history \in Seq(Trees)
  /\ checkpoints \in Seq(Nat)
  /\ touched_files \subseteq Paths
  /\ touched_test_files \subseteq TestPaths
  /\ node \in {"daedalus", "chiron", "talos", "rollback", "cerberus", "gate", "end"}
  /\ ladder_rung \in 0..4
  /\ halted \in BOOLEAN
  /\ rejections \in 0..MaxRejections
  /\ outcome \in {"running", "approved", "declined", "escalated", "raised"}
  /\ evaluated \in Trees
  /\ reviewed \in Trees
  /\ replanned \in BOOLEAN

(* "Linear ancestry is never broken": until an approved run is squashed,   *)
(* the branch is the root and one commit per checkpoint, in order, however *)
(* often L3 rolled back; so a declined or escalated branch has them all.   *)
CheckpointsStayReachable ==
  outcome # "approved" /\ ~(outcome = "raised" /\ history = <<RootTree>>) =>
    /\ Len(history) = Len(checkpoints) + 1
    /\ \A i \in DOMAIN checkpoints : checkpoints[i] = i + 1

(* A task's first write and every rewrite of L3 start from the last green  *)
(* state: nothing git tracks is left of an earlier attempt.                *)
RewritesStartClean ==
  node = "daedalus" /\ ladder_rung \in {0, 3} => AddAll = HeadTree

(* What ships is what the gates passed and what Cerberus read: the         *)
(* squashed commit is the reviewed tree, and equals what the last passing  *)
(* evaluation saw wherever both git and the sandbox look.                  *)
ApprovedIsReviewed ==
  outcome = "approved" =>
    /\ history = <<RootTree, reviewed>>
    /\ \A p \in Paths \ (IgnoredPaths \cup UngatedPaths) :
         HeadTree[p] = evaluated[p]

ChangedTests == {p \in TestPaths \ IgnoredPaths : HeadTree[p] # RootTree[p]}

(* Until a run re-plans, every test file its commits change is in the      *)
(* warning Cerberus is given, although each Daedalus call forgets what the *)
(* call before it touched.                                                 *)
TestEditsReportedUnlessReplanned ==
  node = "cerberus" /\ ~halted /\ ~replanned =>
    ChangedTests \subseteq touched_test_files
=============================================================================
