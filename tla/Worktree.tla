------------------------------- MODULE Worktree -------------------------------
(***************************************************************************)
(* The throwaway worktree of one run and the git repository inside it:     *)
(* core/vcs.py, graph/checkpoints.py, the file writes of graph/nodeops.py  *)
(* with the touched-file list Daedalus, Chiron and Talos share, Cerberus's *)
(* diff and the disposition of the branch in cli.py.                       *)
(*                                                                         *)
(* A tree maps every path to its content, or to Absent.  What the node     *)
(* decides is nondeterministic here (XenoGraph.tla has the ladder's exact  *)
(* budgets); this module keeps what it does to files, index and commits.   *)
(***************************************************************************)
EXTENDS Naturals, FiniteSets, SequencesExt

CONSTANTS
  Paths,          \* files of the worktree
  TestPaths,      \* those is_test_file recognises
  IgnoredPaths,   \* those the repository's .gitignore matches
  UngatedPaths,   \* those mount_ignore keeps out of worktree copy and sandbox
  Contents,       \* what a file can hold
  Absent,         \* no such file
  MaxTasks,       \* bound on the tasks committed
  MaxRejections   \* limits.max_rejections_per_run

ASSUME WorktreeAssumption ==
  /\ TestPaths \subseteq Paths
  /\ IgnoredPaths \subseteq Paths
  /\ UngatedPaths \subseteq Paths
  /\ Absent \notin Contents
  /\ MaxTasks \in Nat \ {0}
  /\ MaxRejections \in Nat

VARIABLES
  files,              \* the worktree's files
  index,              \* the tree staged by the last git add -A
  history,            \* trees of the branch's commits, the root first
  checkpoints,        \* AgentState.checkpoints: positions in history
  touched_files,      \* the list build.py shares between the write nodes
  touched_test_files, \* AgentState.touched_test_files
  node,               \* the node, or the gate, about to run
  ladder_rung,        \* 0..4
  halted,             \* AgentState.halted
  rejections,         \* AgentState.reject_count
  outcome,            \* what became of the run
  evaluated,          \* history variable: what the last passing gates saw
  reviewed,           \* history variable: the tree Cerberus's diff ended in
  replanned           \* history variable: L4 was reached

repoVars    == <<index, history>>
reportVars  == <<checkpoints, touched_test_files>>
controlVars == <<node, ladder_rung, halted, rejections, outcome>>
ghostVars   == <<evaluated, reviewed, replanned>>

vars == <<files, repoVars, reportVars, touched_files, controlVars, ghostVars>>

Trees == [Paths -> Contents \cup {Absent}]

RootTree == history[1]
HeadTree == Last(history)

-----------------------------------------------------------------------------
(* git, as vcs.py uses it.                                                 *)

\* git add -A stages everything but what .gitignore matches.
AddAll == [p \in Paths |-> IF p \in IgnoredPaths THEN Absent ELSE files[p]]

\* add -A; commit --allow-empty.
Commit ==
  /\ index' = AddAll
  /\ history' = Append(history, AddAll)

\* Only tracked files are reset: no git clean.
Mutant_ResetHard(position) ==
  /\ files' = [p \in Paths |->
       IF history[position][p] = Absent /\ index[p] = Absent
       THEN files[p] ELSE history[position][p]]
  /\ index' = history[position]
  /\ history' = SubSeq(history, 1, position)

\* reset --hard; clean -fd, which leaves ignored files where they are.
ResetHard(position) ==
  /\ files' = [p \in Paths |->
       IF p \in IgnoredPaths THEN files[p] ELSE history[position][p]]
  /\ index' = history[position]
  /\ history' = SubSeq(history, 1, position)

-----------------------------------------------------------------------------
(* The write nodes.  A response's files are a function from some paths to  *)
(* new contents: no answer can delete a file.                              *)

Blocks == UNION {[S -> Contents] : S \in SUBSET Paths \ {{}}}

Overlay(blocks) ==
  [p \in Paths |-> IF p \in DOMAIN blocks THEN blocks[p] ELSE files[p]]

Goto(next) == node' = next /\ UNCHANGED <<ladder_rung, halted, rejections, outcome>>

Halt ==
  /\ node' = "cerberus"
  /\ halted' = TRUE
  /\ UNCHANGED <<ladder_rung, rejections, outcome>>

\* Daedalus's call replaces what the task's earlier calls touched.  CB-6
\* may halt the run right after a write.
Daedalus ==
  /\ node = "daedalus"
  /\ \E blocks \in Blocks :
       /\ files' = Overlay(blocks)
       /\ touched_files' = DOMAIN blocks
  /\ Goto("talos") \/ Halt
  /\ UNCHANGED <<repoVars, reportVars, ghostVars>>

\* A patch that touches a test file is refused whole.
Patched == {blocks \in Blocks : DOMAIN blocks \cap TestPaths = {}}

\* Chiron's call adds to what the task touched.
Chiron ==
  /\ node = "chiron"
  /\ \/ /\ \E blocks \in Patched :
            /\ files' = Overlay(blocks)
            /\ touched_files' = touched_files \cup DOMAIN blocks
        /\ Goto("talos") \/ Halt
     \/ UNCHANGED <<files, touched_files>> /\ Goto("talos")  \* declined, or refused
  /\ UNCHANGED <<repoVars, reportVars, ghostVars>>

\* A later block leaves the worktree: the ones before it stay written and
\* the run halts with touched_files as it was.
Escape ==
  /\ node \in {"daedalus", "chiron"}
  /\ \E blocks \in IF node = "daedalus" THEN Blocks ELSE Patched :
       files' = Overlay(blocks)
  /\ Halt
  /\ UNCHANGED <<repoVars, reportVars, touched_files, ghostVars>>

\* An objection, an exhausted chain, a breaker or the end of the ladder.
Stop ==
  /\ node \in {"daedalus", "chiron", "talos"}
  /\ Halt
  /\ UNCHANGED <<files, repoVars, reportVars, touched_files, ghostVars>>

-----------------------------------------------------------------------------
(* Talos and the ladder.                                                   *)

\* The gates run on a copy without the paths mount_ignore matches.
Gated == [p \in Paths |-> IF p \in UngatedPaths THEN Absent ELSE files[p]]

\* Only the last task's report reaches the review.
Mutant_Report == touched_test_files' = touched_files \cap TestPaths

\* The report of the passing evaluation is carried up to the run.
Report ==
  touched_test_files' = touched_test_files \cup (touched_files \cap TestPaths)

\* The gates pass: checkpoint_step commits and moves on.
Pass ==
  /\ node = "talos"
  /\ Len(checkpoints) < MaxTasks
  /\ evaluated' = Gated
  /\ Commit
  /\ checkpoints' = Append(checkpoints, Len(history) + 1)
  /\ Report
  /\ ladder_rung' = 0
  /\ \/ node' = "daedalus" /\ Len(checkpoints) + 1 < MaxTasks
     \/ node' = "cerberus"
  /\ UNCHANGED <<files, touched_files, halted, rejections, outcome,
                 reviewed, replanned>>

\* The node that serves a rung; rung 4's re-plan leads back to Daedalus.
Serving == <<"chiron", "chiron", "rollback", "daedalus">>

\* The gates fail: another attempt at this rung, or the next one.
Fail ==
  /\ node = "talos"
  /\ ladder_rung < 4
  /\ \E rung \in {ladder_rung, ladder_rung + 1} :
       /\ ladder_rung' = rung
       /\ node' = IF rung = 0 THEN "talos" ELSE Serving[rung]
       /\ replanned' = (replanned \/ rung = 4)
  /\ UNCHANGED <<files, repoVars, reportVars, touched_files, halted,
                 rejections, outcome, evaluated, reviewed>>

\* The root is taken although the run has checkpoints.
Mutant_RollbackTarget == 1

\* The last checkpoint, or the root while there is none.
RollbackTarget == IF checkpoints = <<>> THEN 1 ELSE Last(checkpoints)

RollbackStep ==
  /\ node = "rollback"
  /\ ResetHard(RollbackTarget)
  /\ Goto("daedalus")
  /\ UNCHANGED <<reportVars, touched_files, ghostVars>>

-----------------------------------------------------------------------------
(* The review and what the CLI does after it.                              *)

End(how) ==
  /\ node' = "end"
  /\ outcome' = how
  /\ UNCHANGED <<ladder_rung, halted, rejections>>

\* diff_since stages everything before it looks at the run's verdict; an
\* escalation is a halt.
Review ==
  /\ node = "cerberus"
  /\ index' = AddAll
  /\ \/ /\ node' = "end"
        /\ outcome' = "escalated"
        /\ halted' = TRUE
        /\ UNCHANGED <<ladder_rung, rejections, reviewed>>
     \/ /\ ~halted
        /\ reviewed' = AddAll
        /\ Goto("gate")
     \/ /\ ~halted
        /\ rejections < MaxRejections
        /\ Len(checkpoints) < MaxTasks  \* the bound: the new task would not fit
        /\ reviewed' = AddAll
        /\ rejections' = rejections + 1
        /\ node' = "daedalus"
        /\ UNCHANGED <<ladder_rung, halted, outcome>>
  /\ UNCHANGED <<files, history, reportVars, touched_files, evaluated, replanned>>

\* reset --soft to the checkpoint before the last; commit.
Mutant_Squash ==
  /\ history' = Append(Front(history), index)
  /\ End("approved")

\* reset --soft to the root; commit, which git refuses when the index
\* equals the root: the error leaves the branch at the root.
Squash ==
  IF index = RootTree
  THEN history' = <<RootTree>> /\ End("raised")
  ELSE history' = <<RootTree, index>> /\ End("approved")

HumanGate ==
  /\ node = "gate"
  /\ \/ Squash
     \/ End("declined") /\ UNCHANGED history
  /\ UNCHANGED <<files, index, reportVars, touched_files, ghostVars>>

\* An error no node catches ends the run where it stands.
Raise ==
  /\ node \in {"daedalus", "chiron", "talos", "rollback", "cerberus"}
  /\ End("raised")
  /\ UNCHANGED <<files, repoVars, reportVars, touched_files, ghostVars>>

-----------------------------------------------------------------------------
\* _copy_into_worktree and init_repo: a fresh repository with one commit.
Init ==
  /\ files \in {tree \in Trees : \A p \in UngatedPaths : tree[p] = Absent}
  /\ index = AddAll
  /\ history = <<AddAll>>
  /\ checkpoints = <<>>
  /\ touched_files = {}
  /\ touched_test_files = {}
  /\ node = "daedalus"
  /\ ladder_rung = 0
  /\ halted = FALSE
  /\ rejections = 0
  /\ outcome = "running"
  /\ evaluated = AddAll
  /\ reviewed = AddAll
  /\ replanned = FALSE

Next ==
  \/ Daedalus
  \/ Chiron
  \/ Escape
  \/ Stop
  \/ Pass
  \/ Fail
  \/ RollbackStep
  \/ Review
  \/ HumanGate
  \/ Raise

Spec == Init /\ [][Next]_vars
=============================================================================
