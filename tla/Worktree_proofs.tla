--------------------------- MODULE Worktree_proofs ---------------------------
(***************************************************************************)
(* Proofs about Worktree: for all files, contents, ignore rules, numbers   *)
(* of tasks and of rejections, the branch stays linear, rewrites start     *)
(* from it, what ships is what was evaluated and reviewed, and the changed *)
(* tests are reported.                                                     *)
(***************************************************************************)
EXTENDS WorktreeProperties, TLAPS

(* What an answer writes: some of the worktree's paths, never a deletion.  *)
LEMMA BlocksTyped ==
  ASSUME NEW blocks \in Blocks
  PROVE  /\ DOMAIN blocks \subseteq Paths
         /\ \A p \in DOMAIN blocks : blocks[p] \in Contents
BY DEF Blocks

\* Writing blocks over the files leaves a tree.
LEMMA OverlayTyped ==
  ASSUME files \in Trees, NEW blocks \in Blocks
  PROVE  Overlay(blocks) \in Trees
BY BlocksTyped DEF Overlay, Trees

\* An accepted patch writes files of the task.
LEMMA PatchedAreBlocks == Patched \subseteq Blocks
BY DEF Patched

\* Staging everything stages a tree.
LEMMA AddAllTyped ==
  ASSUME files \in Trees
  PROVE  AddAll \in Trees
BY DEF AddAll, Trees

-----------------------------------------------------------------------------
(* The branch: one commit per checkpoint after the root, until the human   *)
(* gate squashes it; commits never hold what .gitignore matches.           *)

Straight == Len(history) = Len(checkpoints) + 1

Linear ==
  /\ \A i \in DOMAIN checkpoints : checkpoints[i] = i + 1
  /\ node # "end" => Straight
  /\ outcome = "running" <=> node # "end"
  /\ \/ Straight
     \/ outcome = "approved"
     \/ outcome = "raised" /\ history = <<RootTree>>

Tracked ==
  /\ \A i \in DOMAIN history : \A p \in IgnoredPaths : history[i][p] = Absent
  /\ \A p \in IgnoredPaths : index[p] = Absent

Branch == TypeOK /\ history # <<>> /\ Linear /\ Tracked

(* A path never listed in a tree git staged.                               *)
LEMMA StagedTracked ==
  ASSUME NEW p \in IgnoredPaths
  PROVE  AddAll[p] = Absent
BY WorktreeAssumption DEF AddAll

\* The first commit is the branch.
LEMMA InitTyped == Init => Branch
<1> SUFFICES ASSUME Init PROVE Branch
  OBVIOUS
<1>1. files \in Trees /\ AddAll \in Trees
  BY AddAllTyped DEF Init
<1>2. history = <<AddAll>> /\ checkpoints = <<>>
  BY DEF Init
<1>3. TypeOK
  <2>1. /\ history \in Seq(Trees) /\ checkpoints \in Seq(Nat)
        /\ 0 \in 0..MaxRejections
    BY <1>1, <1>2, WorktreeAssumption
  <2>2. /\ {index, evaluated, reviewed} \subseteq Trees
        /\ touched_files = {} /\ touched_test_files = {}
        /\ rejections = 0 /\ ladder_rung = 0
        /\ node = "daedalus" /\ outcome = "running"
        /\ {halted, replanned} \subseteq BOOLEAN
    BY <1>1 DEF Init
  <2> QED BY <1>1, <2>1, <2>2 DEF TypeOK
<1>4. Linear
  BY <1>2 DEF Init, Linear, Straight
<1>5. Tracked
  BY <1>2, StagedTracked DEF Init, Tracked
<1> QED BY <1>2, <1>3, <1>4, <1>5 DEF Branch

(* While the branch is straight, a rollback's target is its head.          *)
LEMMA TargetIsHead ==
  ASSUME Branch, Straight
  PROVE  RollbackTarget = Len(history)
<1>1. CASE checkpoints = <<>>
  BY <1>1 DEF RollbackTarget, Straight
<1>2. CASE checkpoints # <<>>
  <2>1. Len(checkpoints) \in DOMAIN checkpoints
    BY <1>2 DEF Branch, TypeOK
  <2>2. Last(checkpoints) = Len(checkpoints) + 1
    BY <2>1 DEF Last, Branch, Linear
  <2> QED BY <1>2, <2>2 DEF RollbackTarget, Straight
<1> QED BY <1>1, <1>2

\* A checkpoint extends the branch by one commit, its own.
LEMMA CommitKeepsBranch ==
  ASSUME Branch, node # "end", Commit,
         checkpoints' = Append(checkpoints, Len(history) + 1)
  PROVE  /\ history' \in Seq(Trees) /\ history' # <<>> /\ index' \in Trees
         /\ checkpoints' \in Seq(Nat)
         /\ Straight' /\ Tracked'
         /\ \A i \in DOMAIN checkpoints' : checkpoints'[i] = i + 1
<1>1. /\ history \in Seq(Trees) /\ checkpoints \in Seq(Nat) /\ AddAll \in Trees
      /\ Straight /\ history' = Append(history, AddAll) /\ index' = AddAll
  BY AddAllTyped DEF Branch, TypeOK, Commit, Linear
<1>2. Straight'
  BY <1>1 DEF Straight
<1>3. \A i \in DOMAIN checkpoints' : checkpoints'[i] = i + 1
  <2> SUFFICES ASSUME NEW i \in DOMAIN checkpoints'
               PROVE  checkpoints'[i] = i + 1
    OBVIOUS
  <2>1. CASE i \in DOMAIN checkpoints
    BY <1>1, <2>1 DEF Branch, Linear
  <2>2. CASE i = Len(checkpoints) + 1
    BY <1>1, <2>2 DEF Straight
  <2> QED BY <1>1, <2>1, <2>2
<1>4. Tracked'
  <2> SUFFICES ASSUME NEW i \in DOMAIN history', NEW p \in IgnoredPaths
               PROVE  history'[i][p] = Absent
    BY <1>1, StagedTracked DEF Tracked
  <2>1. CASE i \in DOMAIN history
    BY <1>1, <2>1 DEF Branch, Tracked
  <2>2. CASE i = Len(history) + 1
    BY <1>1, <2>2, StagedTracked
  <2> QED BY <1>1, <2>1, <2>2
<1> QED BY <1>1, <1>2, <1>3, <1>4

\* A hard reset keeps the branch and restores what git tracks.
LEMMA ResetKeepsBranch ==
  ASSUME Branch, node # "end", ResetHard(RollbackTarget)
  PROVE  /\ history' = history
         /\ files' \in Trees /\ index' \in Trees /\ index' = HeadTree
         /\ \A p \in Paths \ IgnoredPaths : files'[p] = HeadTree[p]
<1>1. /\ RollbackTarget = Len(history) /\ history \in Seq(Trees)
      /\ Len(history) \in DOMAIN history
  BY TargetIsHead DEF Branch, Linear, TypeOK
<1>2. history[Len(history)] \in Trees /\ HeadTree = history[Len(history)]
  BY <1>1 DEF HeadTree, Last
<1>3. history' = history
  BY <1>1 DEF ResetHard
<1>4. files \in Trees
  BY DEF Branch, TypeOK
<1> QED BY <1>1, <1>2, <1>3, <1>4 DEF ResetHard, Trees

\* The branch's invariant survives every step.
LEMMA BranchStep ==
  ASSUME Branch, [Next]_vars
  PROVE  Branch'
<1> USE DEF Branch
<1>1. TypeOK /\ history # <<>> /\ Linear /\ Tracked
  OBVIOUS
<1>2. AddAll \in Trees
  BY AddAllTyped DEF TypeOK
<1>3. ASSUME UNCHANGED <<history, checkpoints>>,
             index' \in {index, AddAll, HeadTree},
             outcome' = "running" <=> node' # "end",
             node # "end" \/ UNCHANGED <<node, outcome>>
      PROVE  history' # <<>> /\ Linear' /\ Tracked'
  <2>1. Len(history) \in DOMAIN history
    BY <1>1 DEF TypeOK
  <2>2. \A p \in IgnoredPaths : HeadTree[p] = Absent
    BY <1>1, <2>1 DEF HeadTree, Last, Tracked
  <2>3. Tracked'
    BY <1>1, <1>3, <2>2, StagedTracked DEF Tracked
  <2> QED BY <1>1, <1>3, <2>3 DEF Linear, Straight, RootTree
<1>4. CASE Daedalus
  <2>1. TypeOK'
    BY <1>1, <1>4, OverlayTyped, BlocksTyped
    DEF Daedalus, TypeOK, Goto, Halt, repoVars, reportVars, ghostVars
  <2> QED BY <1>1, <1>3, <1>4, <2>1
      DEF Daedalus, Goto, Halt, repoVars, reportVars, Linear
<1>5. CASE Chiron
  <2>1. TypeOK'
    BY <1>1, <1>5, OverlayTyped, BlocksTyped, PatchedAreBlocks
    DEF Chiron, TypeOK, Goto, Halt, repoVars, reportVars, ghostVars
  <2> QED BY <1>1, <1>3, <1>5, <2>1
      DEF Chiron, Goto, Halt, repoVars, reportVars, Linear
<1>6. CASE Escape
  <2>1. TypeOK'
    BY <1>1, <1>6, OverlayTyped, PatchedAreBlocks
    DEF Escape, TypeOK, Halt, repoVars, reportVars, ghostVars
  <2> QED BY <1>1, <1>3, <1>6, <2>1
      DEF Escape, Halt, repoVars, reportVars, Linear
<1>7. CASE Stop
  <2>1. TypeOK'
    BY <1>1, <1>7 DEF Stop, TypeOK, Halt, repoVars, reportVars, ghostVars
  <2> QED BY <1>1, <1>3, <1>7, <2>1
      DEF Stop, Halt, repoVars, reportVars, Linear
<1>8. CASE Pass
  <2>1. /\ node # "end" /\ Commit
        /\ checkpoints' = Append(checkpoints, Len(history) + 1)
    BY <1>8 DEF Pass
  <2>2. /\ history' \in Seq(Trees) /\ history' # <<>> /\ index' \in Trees
        /\ checkpoints' \in Seq(Nat)
        /\ Straight' /\ Tracked'
        /\ \A i \in DOMAIN checkpoints' : checkpoints'[i] = i + 1
    BY <2>1, CommitKeepsBranch
  <2>3. Gated \in Trees
    BY <1>1 DEF Gated, TypeOK, Trees
  <2>4. TypeOK'
    BY <1>1, <1>8, <2>2, <2>3 DEF Pass, Report, TypeOK
  <2>5. Linear'
    BY <1>1, <1>8, <2>2 DEF Pass, Linear
  <2> QED BY <2>2, <2>4, <2>5
<1>9. CASE Fail
  <2>1. TypeOK'
    BY <1>1, <1>9 DEF Fail, Serving, TypeOK, repoVars, reportVars
  <2>2. node' # "end"
    BY <1>1, <1>9 DEF Fail, Serving, TypeOK
  <2>3. /\ UNCHANGED <<history, index, checkpoints, outcome>>
        /\ node # "end"
    BY <1>9 DEF Fail, repoVars, reportVars
  <2>4. outcome' = "running" <=> node' # "end"
    BY <1>1, <2>2, <2>3 DEF Linear
  <2> QED BY <1>3, <2>1, <2>3, <2>4
<1>10. CASE RollbackStep
  <2>1. /\ history' = history /\ files' \in Trees /\ index' \in Trees
        /\ index' = HeadTree
    BY <1>1, <1>10, ResetKeepsBranch DEF RollbackStep
  <2>2. TypeOK'
    BY <1>1, <1>10, <2>1 DEF RollbackStep, Goto, TypeOK, reportVars, ghostVars
  <2> QED BY <1>1, <1>3, <1>10, <2>1, <2>2 DEF RollbackStep, Goto, reportVars, Linear
<1>11. CASE Review
  <2>1. /\ node' \in {"end", "gate", "daedalus"}
        /\ outcome' \in {outcome, "escalated"}
        /\ outcome' = "running" <=> node' # "end"
        /\ ladder_rung' = ladder_rung
        /\ halted' \in {halted, TRUE}
        /\ reviewed' \in {reviewed, AddAll}
        /\ index' = AddAll
    BY <1>1, <1>11 DEF Review, Goto, Linear
  <2>2. rejections' \in 0..MaxRejections
    BY <1>1, <1>11, WorktreeAssumption DEF Review, Goto, TypeOK
  <2>3. TypeOK'
    BY <1>1, <1>2, <1>11, <2>1, <2>2 DEF Review, TypeOK, reportVars
  <2> QED BY <1>1, <1>3, <1>11, <2>1, <2>3 DEF Review, reportVars, Linear
<1>12. CASE HumanGate
  <2>1. RootTree \in Trees
    BY <1>1 DEF RootTree, TypeOK
  <2>2. CASE Squash /\ index = RootTree
    <3>1. history' = <<RootTree>> /\ outcome' = "raised" /\ node' = "end"
      BY <2>2 DEF Squash, End
    <3>2. RootTree' = RootTree
      BY <3>1 DEF RootTree
    <3>3. TypeOK'
      BY <1>1, <1>12, <2>1, <2>2, <3>1
      DEF HumanGate, Squash, End, TypeOK, reportVars, ghostVars
    <3>4. Tracked'
      BY <1>1, <1>12, <3>1 DEF HumanGate, Tracked, RootTree, TypeOK
    <3>5. Linear' /\ history' # <<>>
      BY <1>1, <1>12, <3>1, <3>2 DEF HumanGate, Linear, reportVars
    <3> QED BY <3>3, <3>4, <3>5
  <2>3. CASE Squash /\ index # RootTree
    <3>1. history' = <<RootTree, index>> /\ outcome' = "approved" /\ node' = "end"
      BY <2>3 DEF Squash, End
    <3>2. TypeOK'
      BY <1>1, <1>12, <2>1, <2>3, <3>1
      DEF HumanGate, Squash, End, TypeOK, reportVars, ghostVars
    <3>3. Linear' /\ history' # <<>>
      BY <1>1, <1>12, <3>1 DEF HumanGate, Linear, reportVars
    <3>4. Tracked'
      BY <1>1, <1>12, <3>1 DEF HumanGate, Tracked, RootTree, TypeOK
    <3> QED BY <3>2, <3>3, <3>4
  <2>4. CASE End("declined") /\ UNCHANGED history
    <3>1. TypeOK'
      BY <1>1, <1>12, <2>4
      DEF HumanGate, End, TypeOK, reportVars, ghostVars
    <3> QED BY <1>1, <1>3, <1>12, <2>4, <3>1 DEF HumanGate, End, reportVars
  <2> QED BY <1>12, <2>2, <2>3, <2>4 DEF HumanGate
<1>13. CASE Raise
  <2>1. TypeOK'
    BY <1>1, <1>13 DEF Raise, End, TypeOK, repoVars, reportVars, ghostVars
  <2> QED BY <1>1, <1>3, <1>13, <2>1 DEF Raise, End, repoVars, reportVars
<1>14. CASE UNCHANGED vars
  BY <1>1, <1>14
  DEF vars, repoVars, reportVars, controlVars, ghostVars, TypeOK, Linear,
      Straight, Tracked, RootTree
<1> QED BY <1>4, <1>5, <1>6, <1>7, <1>8, <1>9, <1>10, <1>11, <1>12, <1>13, <1>14
    DEF Next
-----------------------------------------------------------------------------
(* Which rung leads to which node, and what the files are there.           *)

NodeRung ==
  /\ node = "daedalus" => ladder_rung \in {0, 3, 4}
  /\ node = "rollback" => ladder_rung = 3
  /\ node = "cerberus" /\ ~halted => ladder_rung = 0
  /\ ladder_rung = 4 => replanned

Fresh ==
  /\ RewritesStartClean
  /\ node = "cerberus" /\ ~halted => AddAll = HeadTree

(* The paths git and the sandbox both look at.                             *)
Shared == Paths \ (IgnoredPaths \cup UngatedPaths)

Seen ==
  /\ node = "gate" \/ (node = "cerberus" /\ ~halted) =>
       \A p \in Shared : files[p] = evaluated[p]
  /\ node = "gate" => index = AddAll /\ reviewed = AddAll
  /\ ApprovedIsReviewed

(* Until a re-plan, a test file that differs from the root is reported, or *)
(* was touched since the last commit and is about to be.                   *)
Reported ==
  ~replanned /\ node # "end" =>
    /\ ChangedTests \subseteq touched_test_files
    /\ node \in {"talos", "chiron"} =>
         \A p \in TestPaths \ IgnoredPaths :
           files[p] # HeadTree[p] => p \in touched_files

Safe == Branch /\ NodeRung /\ Fresh /\ Seen /\ Reported

\* Which node runs fits the rung.
LEMMA NodeRungStep ==
  ASSUME Branch, NodeRung, [Next]_vars
  PROVE  NodeRung'
<1>1. ladder_rung \in 0..4
  BY DEF Branch, TypeOK
<1>2. CASE Daedalus \/ Chiron \/ Escape \/ Stop
  BY <1>2 DEF Daedalus, Chiron, Escape, Stop, Goto, Halt, NodeRung, ghostVars
<1>3. CASE Pass
  BY <1>3 DEF Pass, NodeRung
<1>4. CASE Fail
  <2>1. PICK rung \in {ladder_rung, ladder_rung + 1} :
          /\ ladder_rung' = rung
          /\ node' = IF rung = 0 THEN "talos" ELSE Serving[rung]
          /\ replanned' = (replanned \/ rung = 4)
    BY <1>4 DEF Fail
  <2>2. rung \in 0..4
    BY <1>1, <1>4 DEF Fail
  <2>3. /\ node' = "daedalus" => rung = 4
        /\ node' = "rollback" => rung = 3
        /\ node' # "cerberus"
    BY <2>1, <2>2 DEF Serving
  <2>4. rung = 4 => replanned'
    BY <2>1, ZenonT(20)
  <2> QED BY <2>1, <2>3, <2>4 DEF NodeRung
<1>5. CASE RollbackStep
  BY <1>5 DEF RollbackStep, Goto, NodeRung, ghostVars
<1>6. CASE Review
  BY <1>6 DEF Review, Goto, NodeRung
<1>7. CASE HumanGate \/ Raise
  BY <1>7 DEF HumanGate, Squash, Raise, End, NodeRung, ghostVars
<1>8. CASE UNCHANGED vars
  BY <1>8 DEF vars, controlVars, ghostVars, NodeRung
<1> QED BY <1>2, <1>3, <1>4, <1>5, <1>6, <1>7, <1>8 DEF Next

(* A commit makes the head what git add -A stages; the root stays.         *)
LEMMA CommitMovesHead ==
  ASSUME Branch, Commit, UNCHANGED files
  PROVE  HeadTree' = AddAll /\ RootTree' = RootTree /\ AddAll' = AddAll
<1>1. history \in Seq(Trees) /\ history # <<>> /\ history' = Append(history, AddAll)
  BY DEF Branch, TypeOK, Commit
<1>2. history'[Len(history')] = AddAll /\ history'[1] = history[1]
  BY <1>1
<1> QED BY <1>2 DEF HeadTree, RootTree, Last, AddAll

(* Steps that leave files and commits alone leave these trees alone.       *)
LEMMA SameTrees ==
  ASSUME UNCHANGED <<files, history>>
  PROVE  AddAll' = AddAll /\ HeadTree' = HeadTree /\ RootTree' = RootTree
BY DEF AddAll, HeadTree, RootTree, Last

\* After a hard reset nothing is left to stage.
LEMMA ResetCleans ==
  ASSUME Branch, node # "end", ResetHard(RollbackTarget)
  PROVE  AddAll' = HeadTree' /\ HeadTree' = HeadTree /\ RootTree' = RootTree
<1>1. /\ history' = history
      /\ \A p \in Paths \ IgnoredPaths : files'[p] = HeadTree[p]
  BY ResetKeepsBranch
<1>2. HeadTree \in Trees /\ \A p \in IgnoredPaths : HeadTree[p] = Absent
  <2>1. history \in Seq(Trees) /\ Len(history) \in DOMAIN history
    BY DEF Branch, TypeOK
  <2> QED BY <2>1 DEF HeadTree, Last, Branch, Tracked
<1>3. AddAll' = HeadTree
  BY <1>1, <1>2 DEF AddAll, Trees
<1> QED BY <1>1, <1>3 DEF HeadTree, RootTree, Last

\* A rewrite starts from a clean tree, step by step.
LEMMA FreshStep ==
  ASSUME Branch, NodeRung, Fresh, [Next]_vars
  PROVE  Fresh'
<1> USE DEF Fresh, RewritesStartClean
<1>1. CASE Daedalus \/ Chiron \/ Escape \/ Stop
  BY <1>1 DEF Daedalus, Chiron, Escape, Stop, Goto, Halt
<1>2. CASE Pass
  <2>1. Commit /\ UNCHANGED files
    BY <1>2 DEF Pass
  <2> QED BY <2>1, CommitMovesHead
<1>3. CASE Fail
  <2>1. node' # "cerberus" /\ (node' = "daedalus" => ladder_rung' = 4)
    BY <1>3 DEF Fail, Serving, Branch, TypeOK
  <2> QED BY <2>1
<1>4. CASE RollbackStep
  <2>1. node # "end" /\ ResetHard(RollbackTarget)
    BY <1>4 DEF RollbackStep
  <2> QED BY <2>1, ResetCleans
<1>5. CASE Review
  <2>1. UNCHANGED <<files, history>>
    BY <1>5 DEF Review
  <2>2. node' = "daedalus" => AddAll = HeadTree
    BY <1>5 DEF Review, Goto
  <2>3. node' # "cerberus"
    BY <1>5 DEF Review, Goto
  <2> QED BY <2>1, <2>2, <2>3, SameTrees
<1>6. CASE HumanGate \/ Raise
  BY <1>6 DEF HumanGate, Squash, Raise, End
<1>7. CASE UNCHANGED vars
  BY <1>7, SameTrees DEF vars, repoVars, controlVars
<1> QED BY <1>1, <1>2, <1>3, <1>4, <1>5, <1>6, <1>7 DEF Next

\* What was reviewed is what is there, step by step.
LEMMA SeenStep ==
  ASSUME Branch, Seen, [Next]_vars
  PROVE  Seen'
<1> USE DEF Seen
<1>1. ASSUME node' \notin {"gate", "end"}, node' # "cerberus" \/ halted',
             node # "end", outcome' = outcome
      PROVE  Seen'
  <2>1. outcome' # "approved"
    BY <1>1 DEF Branch, Linear
  <2> QED BY <1>1, <2>1 DEF ApprovedIsReviewed
<1>2. CASE Daedalus \/ Chiron \/ Escape \/ Stop
  BY <1>1, <1>2 DEF Daedalus, Chiron, Escape, Stop, Goto, Halt
<1>3. CASE Pass
  <2>1. \A p \in Shared : files'[p] = evaluated'[p]
    BY <1>3 DEF Pass, Gated, Shared
  <2>2. outcome' # "approved" /\ node' \in {"daedalus", "cerberus"}
    BY <1>3 DEF Pass, Branch, Linear
  <2> QED BY <2>1, <2>2 DEF ApprovedIsReviewed
<1>4. CASE Fail
  <2>1. node' \in {"talos", "chiron", "rollback", "daedalus"}
    BY <1>4 DEF Fail, Serving, Branch, TypeOK
  <2> QED BY <1>1, <1>4, <2>1 DEF Fail
<1>5. CASE RollbackStep
  BY <1>1, <1>5 DEF RollbackStep, Goto
<1>6. CASE Review
  <2>1. UNCHANGED <<files, evaluated>> /\ index' = AddAll /\ AddAll' = AddAll
    BY <1>6 DEF Review, AddAll
  <2>2. outcome' # "approved"
    BY <1>6 DEF Review, Goto, Branch, Linear
  <2>3. node' # "cerberus"
    BY <1>6 DEF Review, Goto
  <2>4. node' = "gate" => reviewed' = AddAll /\ ~halted /\ node = "cerberus"
    BY <1>6 DEF Review, Goto
  <2>5. node' = "gate" => \A p \in Shared : files'[p] = evaluated'[p]
    BY <2>1, <2>4
  <2> QED BY <2>1, <2>2, <2>3, <2>4, <2>5 DEF ApprovedIsReviewed
<1>7. CASE HumanGate
  <2>1. /\ node = "gate" /\ UNCHANGED <<files, index, evaluated, reviewed>>
        /\ node' = "end"
    BY <1>7 DEF HumanGate, Squash, End, ghostVars
  <2>2. CASE outcome' = "approved"
    <3>1. history' = <<RootTree, index>>
      BY <1>7, <2>2 DEF HumanGate, Squash, End
    <3>2. RootTree' = RootTree /\ HeadTree' = index
      BY <3>1 DEF RootTree, HeadTree, Last
    <3>3. index = AddAll /\ reviewed = AddAll
      BY <2>1
    <3>4. \A p \in Shared : files[p] = evaluated[p]
      BY <2>1
    <3>5. \A p \in Shared : index[p] = files[p]
      BY <3>3 DEF AddAll, Shared
    <3> QED BY <2>1, <3>1, <3>2, <3>3, <3>4, <3>5 DEF ApprovedIsReviewed, Shared
  <2>3. CASE outcome' # "approved"
    BY <2>1, <2>3 DEF ApprovedIsReviewed
  <2> QED BY <2>2, <2>3
<1>8. CASE Raise
  BY <1>8 DEF Raise, End, ApprovedIsReviewed
<1>9. CASE UNCHANGED vars
  <2>1. UNCHANGED <<files, history, index, node, halted, outcome, evaluated, reviewed>>
    BY <1>9 DEF vars, repoVars, controlVars, ghostVars
  <2> QED BY <2>1, SameTrees DEF ApprovedIsReviewed
<1> QED BY <1>2, <1>3, <1>4, <1>5, <1>6, <1>7, <1>8, <1>9 DEF Next

(* Without a re-plan, the files a node finds differ from the last commit   *)
(* in touched files only; the reports add up to the branch's changes.      *)
LEMMA ReportedStep ==
  ASSUME Branch, NodeRung, Fresh, Reported, [Next]_vars
  PROVE  Reported'
<1>1. CASE replanned' \/ node' = "end"
  BY <1>1 DEF Reported
<1> SUFFICES ASSUME ~replanned', node' # "end"
             PROVE  /\ ChangedTests' \subseteq touched_test_files'
                    /\ node' \in {"talos", "chiron"} =>
                         \A p \in TestPaths \ IgnoredPaths :
                           files'[p] # HeadTree'[p] => p \in touched_files'
  BY <1>1 DEF Reported
<1>2. ASSUME UNCHANGED <<history, touched_test_files, replanned>>, node # "end",
             node' \notin {"talos", "chiron"}
      PROVE  Reported'
  BY <1>2 DEF Reported, ChangedTests, HeadTree, RootTree, Last
<1>3. ASSUME UNCHANGED <<history, touched_test_files, replanned>>, node # "end",
             \A p \in TestPaths \ IgnoredPaths :
               files'[p] # HeadTree[p] => p \in touched_files'
      PROVE  Reported'
  BY <1>3 DEF Reported, ChangedTests, HeadTree, RootTree, Last
<1>4. CASE Daedalus
  <2>1. PICK blocks \in Blocks : /\ files' = Overlay(blocks)
                                 /\ touched_files' = DOMAIN blocks
    BY <1>4 DEF Daedalus
  <2>2. AddAll = HeadTree
    BY <1>4 DEF Daedalus, ghostVars, NodeRung, Fresh, RewritesStartClean
  <2>3. \A p \in TestPaths \ IgnoredPaths : files[p] = HeadTree[p]
    BY <2>2, WorktreeAssumption DEF AddAll
  <2>4. \A p \in TestPaths \ IgnoredPaths :
          files'[p] # HeadTree[p] => p \in touched_files'
    BY <2>1, <2>3, WorktreeAssumption DEF Overlay
  <2>5. UNCHANGED <<history, touched_test_files, replanned>> /\ node # "end"
    BY <1>4 DEF Daedalus, repoVars, reportVars, ghostVars
  <2> QED BY <1>3, <2>4, <2>5 DEF Reported
<1>5. CASE Chiron
  <2>1. /\ UNCHANGED <<history, touched_test_files, replanned>>
        /\ node = "chiron"
    BY <1>5 DEF Chiron, repoVars, reportVars, ghostVars
  <2>2. \A p \in TestPaths \ IgnoredPaths :
          files[p] # HeadTree[p] => p \in touched_files
    BY <2>1 DEF Reported
  <2>3. CASE UNCHANGED <<files, touched_files>>
    BY <1>3, <2>1, <2>2, <2>3 DEF Reported
  <2>4. CASE \E blocks \in Patched :
               /\ files' = Overlay(blocks)
               /\ touched_files' = touched_files \cup DOMAIN blocks
    <3>1. PICK blocks \in Patched :
            /\ files' = Overlay(blocks)
            /\ touched_files' = touched_files \cup DOMAIN blocks
      BY <2>4
    <3>2. \A p \in TestPaths \ IgnoredPaths : files'[p] = files[p]
      BY <3>1, WorktreeAssumption DEF Overlay, Patched
    <3> QED BY <1>3, <2>1, <2>2, <3>1, <3>2 DEF Reported
  <2> QED BY <1>5, <2>3, <2>4 DEF Chiron
<1>6. CASE Escape \/ Stop
  BY <1>2, <1>6 DEF Escape, Stop, Halt, repoVars, reportVars, ghostVars, Reported
<1>7. CASE Pass
  <2>1. /\ node = "talos" /\ Commit /\ UNCHANGED <<files, replanned>>
        /\ touched_test_files' = touched_test_files \cup (touched_files \cap TestPaths)
        /\ node' \in {"daedalus", "cerberus"}
    BY <1>7 DEF Pass, Report
  <2>2. HeadTree' = AddAll /\ RootTree' = RootTree
    BY <2>1, CommitMovesHead
  <2>3. \A p \in TestPaths \ IgnoredPaths : AddAll[p] = files[p]
    BY WorktreeAssumption DEF AddAll
  <2>4. ChangedTests' \subseteq touched_test_files'
    BY <2>1, <2>2, <2>3 DEF ChangedTests, Reported
  <2> QED BY <2>1, <2>4
<1>8. CASE Fail
  <2>1. /\ UNCHANGED <<files, history, touched_files, touched_test_files>>
        /\ node = "talos" /\ ~replanned
    <3>1. UNCHANGED <<files, history, touched_files, touched_test_files>>
          /\ node = "talos"
      BY <1>8 DEF Fail, repoVars, reportVars
    <3>2. PICK rung \in {ladder_rung, ladder_rung + 1} :
            replanned' = (replanned \/ rung = 4)
      BY <1>8 DEF Fail
    <3>3. ~replanned
      BY <3>2, ZenonT(20)
    <3> QED BY <3>1, <3>3
  <2> QED BY <2>1, SameTrees DEF Reported, ChangedTests
<1>9. CASE RollbackStep
  <2>1. /\ node = "rollback" /\ ResetHard(RollbackTarget) /\ node' = "daedalus"
        /\ UNCHANGED <<touched_test_files, replanned>>
    BY <1>9 DEF RollbackStep, Goto, reportVars, ghostVars
  <2>2. HeadTree' = HeadTree /\ RootTree' = RootTree
    BY <2>1, ResetCleans
  <2> QED BY <2>1, <2>2 DEF Reported, ChangedTests
<1>10. CASE Review
  <2>1. /\ UNCHANGED <<history, touched_test_files, replanned>> /\ node # "end"
        /\ node' \notin {"talos", "chiron"}
    BY <1>10 DEF Review, Goto, reportVars
  <2> QED BY <1>2, <2>1 DEF Reported
<1>11. CASE HumanGate \/ Raise
  BY <1>11 DEF HumanGate, Squash, Raise, End
<1>12. CASE UNCHANGED vars
  <2>1. UNCHANGED <<files, history, touched_files, touched_test_files, node, replanned>>
    BY <1>12 DEF vars, repoVars, reportVars, controlVars, ghostVars
  <2> QED BY <2>1, SameTrees DEF Reported, ChangedTests
<1> QED BY <1>4, <1>5, <1>6, <1>7, <1>8, <1>9, <1>10, <1>11, <1>12 DEF Next

-----------------------------------------------------------------------------
(* The initial states are safe and every step keeps them so.               *)
LEMMA InitSafe == Init => Safe
<1> SUFFICES ASSUME Init PROVE Safe
  OBVIOUS
<1>1. Branch
  BY InitTyped
<1>2. /\ history = <<AddAll>> /\ node = "daedalus" /\ outcome = "running"
      /\ ladder_rung = 0
  BY DEF Init
<1>3. HeadTree = AddAll /\ RootTree = AddAll
  BY <1>2 DEF HeadTree, RootTree, Last
<1>4. NodeRung /\ Fresh
  BY <1>2, <1>3 DEF NodeRung, Fresh, RewritesStartClean
<1>5. Seen /\ Reported
  BY <1>2, <1>3 DEF Seen, ApprovedIsReviewed, Reported, ChangedTests
<1> QED BY <1>1, <1>4, <1>5 DEF Safe

\* The whole invariant survives every step,
LEMMA SafeStep == Safe /\ [Next]_vars => Safe'
BY BranchStep, NodeRungStep, FreshStep, SeenStep, ReportedStep DEF Safe

\* and so holds in every state.
LEMMA AlwaysSafe == Spec => []Safe
BY InitSafe, SafeStep, PTL DEF Spec

(* Every variable stays in its range, whatever the files and contents, the *)
(* number of tasks and the rejection cap.                                  *)
THEOREM TypeCorrect == Spec => []TypeOK
<1>1. Safe => TypeOK
  BY DEF Safe, Branch
<1> QED BY <1>1, AlwaysSafe, PTL

(* L3's reset --hard never drops a checkpoint: until the squash the branch *)
(* is the root and one commit per checkpoint, in order.                    *)
THEOREM CheckpointsAreReachable == Spec => []CheckpointsStayReachable
<1>1. Safe => CheckpointsStayReachable
  BY DEF Safe, Branch, Linear, Straight, CheckpointsStayReachable
<1> QED BY <1>1, AlwaysSafe, PTL

(* A task's first write and L3's rewrite find exactly the last commit      *)
(* under everything git tracks.                                            *)
THEOREM RewritesAreClean == Spec => []RewritesStartClean
<1>1. Safe => RewritesStartClean
  BY DEF Safe, Fresh
<1> QED BY <1>1, AlwaysSafe, PTL

(* The squashed commit is the tree Cerberus read, and the one the last     *)
(* passing gates saw wherever both git and the sandbox look.               *)
THEOREM ShippedIsReviewed == Spec => []ApprovedIsReviewed
<1>1. Safe => ApprovedIsReviewed
  BY DEF Safe, Seen
<1> QED BY <1>1, AlwaysSafe, PTL

(* Unless the run re-planned, Cerberus is told of every test file the      *)
(* branch changes, though Daedalus's calls replace the list it comes from. *)
THEOREM TestEditsAreReported == Spec => []TestEditsReportedUnlessReplanned
<1>1. Safe => TestEditsReportedUnlessReplanned
  BY DEF Safe, Reported, TestEditsReportedUnlessReplanned
<1> QED BY <1>1, AlwaysSafe, PTL
=============================================================================
