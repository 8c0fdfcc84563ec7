------------------------------- MODULE XenoRun -------------------------------
(***************************************************************************)
(* One run as graph/build.py assembles it: the control flow of XenoGraph   *)
(* over the real files and the git repository of Worktree.                 *)
(*                                                                         *)
(* A step is a step of the graph together with what the node it runs does  *)
(* to the worktree.  What XenoGraph leaves open is decided here: the diff  *)
(* _after_write hashes for CB-5 is the difference between the files before *)
(* and after the write, and CB-6 fires exactly when that difference        *)
(* deletes too many lines.                                                 *)
(***************************************************************************)
EXTENDS XenoGraphProperties, FiniteSetsExt

CONSTANTS
  Paths, TestPaths, IgnoredPaths, UngatedPaths, Contents, Absent,
  Lines,           \* how many lines a content has; different ones share none
  MaxDeletedLines, \* limits.max_deleted_lines (CB-6)
  MaxTasks         \* more tasks than any run of the instance commits

VARIABLES
  files, index, history, touched_files, touched_test_files,
  disposition,     \* what the human gate did with an approved run
  evaluated, reviewed, replanned  \* Worktree's history variables

repoVars == <<index, history>>
fileVars == <<files, repoVars, touched_files, touched_test_files, disposition,
              evaluated, reviewed, replanned>>
runVars == <<vars, fileVars>>

\* L4 re-plans once (core/types.py), a disposition is something, and the
\* special paths are among the paths.
ASSUME RunAssumption ==
  /\ RungBudgets[4] = 1
  /\ None \notin {"approved", "declined", "raised"}
  /\ TestPaths \subseteq Paths
  /\ IgnoredPaths \subseteq Paths
  /\ UngatedPaths \subseteq Paths
  /\ Absent \notin Contents
  /\ MaxTasks \in Nat \ {0}

-----------------------------------------------------------------------------
(* How the run's state looks to the worktree.  Nodes that touch no file    *)
(* stand for the write node they lead to.                                  *)

WorktreeNode ==
  CASE pc \in {"argus_skeleton", "odysseus"} -> "daedalus"
    [] pc = "argus_research" -> IF ladder_rung = 2 THEN "chiron" ELSE "daedalus"
    [] pc = "END" /\ review_verdict = "approve" /\ disposition = None -> "gate"
    [] pc \in {"END", "raised"} /\ ~(review_verdict = "approve" /\ disposition = None) -> "end"
    [] OTHER -> pc

WorktreeOutcome ==
  IF pc = "raised" THEN "raised"
  ELSE IF pc # "END" THEN "running"
  ELSE IF review_verdict # "approve" THEN "escalated"
  ELSE IF disposition = None THEN "running" ELSE disposition

\* A checkpoint's sha is the commit made for it, right after the last one's.
CheckpointCommits == [i \in 1..Len(checkpoints) |-> i + 1]

W == INSTANCE Worktree WITH
  checkpoints <- CheckpointCommits,
  node <- WorktreeNode,
  halted <- Halted,
  rejections <- reject_count,
  outcome <- WorktreeOutcome,
  MaxRejections <- MaxRejectionsPerRun

-----------------------------------------------------------------------------
(* Writes.                                                                 *)

\* What _unified_diff shows of a write: the changed files with both
\* contents.  An unchanged file's chunk is empty and leaves a newline.
DiffOf(blocks) ==
  LET changed == {p \in DOMAIN blocks : files[p] # blocks[p]}
  IN  [changes |-> [p \in changed |-> <<files[p], blocks[p]>>],
       blanks |-> Cardinality(DOMAIN blocks \ changed)]

DeletedLines(diff) ==
  LET old(p) == diff.changes[p][1]
  IN  MapThenSumSet(LAMBDA p : IF old(p) = Absent THEN 0 ELSE Lines[old(p)],
                    DOMAIN diff.changes)

Destructive(diff) == DeletedLines(diff) > MaxDeletedLines

\* The graph's step wrote: the run goes on to the gates, or CB-6 stopped it.
Wrote == pc' = "talos" \/ breaker_trips' # breaker_trips

WriteBlocks(blocks) ==
  /\ files' = W!Overlay(blocks)
  /\ diff_history' = RecordDiff(diff_history, DiffOf(blocks))
  /\ (breaker_trips' # breaker_trips) <=> Destructive(DiffOf(blocks))

\* Nothing was written, or what came before a block outside the worktree.
LeaveBlocks(answers) ==
  /\ \/ worktree' = worktree /\ UNCHANGED files
     \/ /\ halt_reason' = "worktree_escape"
        /\ worktree' = "written"
        /\ \E blocks \in answers : files' = W!Overlay(blocks)
  /\ UNCHANGED touched_files

RunDaedalus ==
  /\ Daedalus
  /\ IF Wrote
     THEN \E blocks \in W!Blocks :
            WriteBlocks(blocks) /\ touched_files' = DOMAIN blocks
     ELSE LeaveBlocks(W!Blocks)
  /\ UNCHANGED <<repoVars, touched_test_files, disposition, evaluated,
                 reviewed, replanned>>

RunChiron ==
  /\ ChironPatches
  /\ IF Wrote
     THEN \E blocks \in W!Patched :
            /\ WriteBlocks(blocks)
            /\ touched_files' = touched_files \cup DOMAIN blocks
     ELSE LeaveBlocks(W!Patched)
  /\ UNCHANGED <<repoVars, touched_test_files, disposition, evaluated,
                 reviewed, replanned>>

-----------------------------------------------------------------------------
(* Evaluation, rollback and review.                                        *)

\* The task's commit is made before the gates have passed.
Mutant_RunTalos ==
  /\ Talos
  /\ W!Commit
  /\ IF eval_report' = "passed"
     THEN evaluated' = W!Gated /\ W!Report
     ELSE UNCHANGED <<evaluated, touched_test_files>>
  /\ replanned' = (replanned \/ ladder_rung' = 4)
  /\ UNCHANGED <<files, touched_files, disposition, reviewed>>

\* checkpoint_step commits what the gates just passed.
RunTalos ==
  /\ Talos
  /\ IF eval_report' = "passed"
     THEN evaluated' = W!Gated /\ W!Commit /\ W!Report
     ELSE UNCHANGED <<repoVars, evaluated, touched_test_files>>
  /\ replanned' = (replanned \/ ladder_rung' = 4)
  /\ UNCHANGED <<files, touched_files, disposition, reviewed>>

\* The rollback resets the index only.
Mutant_RunRollback ==
  /\ Rollback
  /\ index' = history[W!RollbackTarget]
  /\ UNCHANGED <<files, history, touched_files, touched_test_files,
                 disposition, evaluated, reviewed, replanned>>

RunRollback ==
  /\ Rollback
  /\ W!ResetHard(W!RollbackTarget)
  /\ UNCHANGED <<touched_files, touched_test_files, disposition, evaluated,
                 reviewed, replanned>>

\* diff_since stages the worktree on every visit, judged or only reported.
RunCerberus ==
  /\ Cerberus
  /\ index' = W!AddAll
  /\ reviewed' = IF review_verdict' = "escalate" THEN reviewed ELSE W!AddAll
  /\ UNCHANGED <<files, history, touched_files, touched_test_files,
                 disposition, evaluated, replanned>>

-----------------------------------------------------------------------------
RunPlanning ==
  /\ \/ ArgusSkeleton
     \/ OdysseusPlans
     \/ OdysseusHalts
     \/ ArgusResearch
     \/ ChironDeclines
     \/ UncaughtError
  /\ UNCHANGED fileVars

\* The human gate squashes or leaves the branch; git may refuse the squash.
RunGate ==
  /\ pc = "END"
  /\ review_verdict = "approve"
  /\ disposition = None
  /\ \/ /\ index # W!RootTree
        /\ history' = <<W!RootTree, index>>
        /\ disposition' = "approved"
     \/ /\ index = W!RootTree
        /\ history' = <<W!RootTree>>
        /\ disposition' = "raised"
     \/ /\ disposition' = "declined"
        /\ UNCHANGED history
  /\ UNCHANGED <<vars, files, index, touched_files, touched_test_files,
                 evaluated, reviewed, replanned>>

RunInit ==
  /\ Init
  /\ files \in {tree \in W!Trees : \A p \in UngatedPaths : tree[p] = Absent}
  /\ index = W!AddAll
  /\ history = <<W!AddAll>>
  /\ touched_files = {}
  /\ touched_test_files = {}
  /\ disposition = None
  /\ evaluated = W!AddAll
  /\ reviewed = W!AddAll
  /\ replanned = FALSE

RunNext ==
  \/ RunPlanning
  \/ RunDaedalus
  \/ RunChiron
  \/ RunTalos
  \/ RunRollback
  \/ RunCerberus
  \/ RunGate

RunSpec == RunInit /\ [][RunNext]_runVars
=============================================================================
