------------------------- MODULE XenoGraphProperties -------------------------
(***************************************************************************)
(* What a run of the graph promises: the state invariants, the action      *)
(* properties and the liveness property of XenoGraph.                      *)
(***************************************************************************)
EXTENDS XenoGraph

(* Every field stays in the range the code gives it.                       *)
TypeOK ==
  /\ pc \in Nodes \cup {"END", "raised"}
  /\ plan \in Seq(Tasks)
  /\ task_count \in Nat
  /\ task_cursor \in Nat
  /\ checkpoints \in Seq([task_index : Nat, task : Tasks])
  /\ ladder_rung \in Rungs
  /\ rung_attempts \in Nat
  /\ failure_signature \in Signatures \cup InfraSignatures \cup {None}
  /\ signature_streak \in 0..SIGNATURE_STREAK_LIMIT
  /\ iterations_this_task \in Nat
  /\ iteration_count \in 0..MaxIterationsPerRun
  /\ diff_history \in Seq(Diffs)
  /\ eval_report \in {"passed", "failed", "infrastructure", None}
  /\ reject_count \in 0..MaxRejectionsPerRun
  /\ reject_destination \in {"coder", "planner", None}
  /\ review_verdict \in {"approve", "reject_and_return", "escalate", None}
  /\ cerberus_notes \in {"report", "objections", "notes", None}
  /\ halt_reason \in HaltReasons \cup {None}
  /\ breaker_trips \in Seq(BreakerCodes)
  /\ intervention \in {"none", "model_authored", "declined"}
  /\ worktree \in {"committed", "evaluated", "written"}

-----------------------------------------------------------------------------
(* The checkpoints are exactly the plan's completed prefix: checkpoint i   *)
(* was made for plan task i, no re-plan or rejection ever rewrites a task  *)
(* that was committed, and task_count is the length of the plan on disk    *)
(* (checkpoint_step, the re-plan slice of odysseus.py, E16's append).      *)
CheckpointsArePlanPrefix ==
  /\ task_count = Len(plan)
  /\ task_cursor = Len(checkpoints)
  /\ task_cursor <= task_count
  /\ \A i \in 1..Len(checkpoints) :
       checkpoints[i] = [task_index |-> i - 1, task |-> plan[i]]

(* Argus, the writers and Talos only ever run with a current task in the   *)
(* plan: current_task(plan, task_cursor) is never out of range.            *)
WorkHasATask ==
  pc \in {"argus_research", "daedalus", "chiron", "rollback", "talos"}
    => task_cursor < Len(plan)

(* An approved run completed every task of its plan, is not halted, fired  *)
(* no breaker and holds nothing Talos has not passed; every other run that *)
(* ends is an escalation with its reason ("the harness must never          *)
(* auto-approve in the absence of a review").                              *)
ApprovalIsEarned ==
  /\ review_verdict = "approve" =>
       /\ ~Halted
       /\ breaker_trips = <<>>
       /\ plan # <<>>
       /\ Len(checkpoints) = Len(plan)
       /\ worktree = "committed"
  /\ pc = "END" /\ review_verdict # "approve" =>
       Halted /\ review_verdict = "escalate"

(* A task's first write, and an L3 rewrite, start from the last checkpoint *)
(* and nothing else: no earlier attempt's files are left (rollback_step).  *)
RewritesStartClean ==
  pc \in {"argus_research", "daedalus"} /\ ladder_rung \in {0, 3}
    => worktree = "committed"

(* ctx.intervention tells Talos the truth: it says MODEL_AUTHORED exactly  *)
(* when a model wrote to the worktree since Talos last ran (CB-4's rule).  *)
(* A task's first write counts too, where the enumeration's own comment    *)
(* (breakers.py) has NONE for the first evaluation of a task; it moves no  *)
(* streak: CB-4 has no earlier signature to compare a first failure with.  *)
InterventionIsHonest ==
  pc = "talos" => (intervention = "model_authored" <=> worktree = "written")

(* CB-4's streak never exceeds the model-authored diffs of this task other *)
(* than the first, the baseline: retries and declined patches never count. *)
StreakNeedsWrites ==
  signature_streak > 0 => signature_streak < Len(diff_history)

(* The ladder bounds the writes of a task: the attempts granted so far are *)
(* never overdrawn, so with RUNG_BUDGETS a task is written at most 9 times.*)
WritesWithinLadder ==
  iterations_this_task <= LadderWrites(ladder_rung, rung_attempts)

(* CB-5: when the run goes back to a model after a failure, no two diffs   *)
(* of the window are equal: every oscillation was caught at the poll.      *)
NoThrashSurvives ==
  pc \in {"odysseus", "argus_research", "rollback", "daedalus", "chiron"} =>
    \A i, j \in 1..Len(diff_history) :
      diff_history[i] = diff_history[j] => i = j

(* A halted run goes to Cerberus and ends: it never comes back to a node   *)
(* that calls a model or writes, and one breaker at most fires.            *)
HaltsReachCerberus ==
  /\ Halted => pc \in {"cerberus", "END"}
  /\ Len(breaker_trips) <= 1
  /\ breaker_trips # <<>> <=> halt_reason = "breaker"

(* A rejection's destination is read by the node it names and by no later  *)
(* one: it is still set only on the way to that node, on a fresh ladder    *)
(* with the objections at hand (the field's docstring in core/state.py).   *)
RejectionIsConsumed ==
  /\ reject_destination = "coder" =>
       /\ pc \in {"argus_research", "daedalus", "raised"} \/ Halted
       /\ ladder_rung = 0
       /\ iterations_this_task = 0
       /\ pc = "daedalus" => cerberus_notes = "objections"
  /\ reject_destination = "planner" =>
       /\ pc \in {"odysseus", "raised"}
       /\ ladder_rung = 0

-----------------------------------------------------------------------------
(* The first reason to halt is the one reported: once halted, the reason,  *)
(* the breakers, the plan, the commits and the files are frozen and no     *)
(* model is called again.                                                  *)
HaltIsFinal ==
  [][Halted => UNCHANGED <<haltVars, planVars, doneVars, worktree,
                           iteration_count>>]_vars

(* The ladder is monotonic within a task: neither rung nor the attempts at *)
(* a rung are ever given back, not even by L4's re-plan.                   *)
LadderIsMonotonic ==
  [][task_cursor' = task_cursor =>
       \/ ladder_rung' > ladder_rung
       \/ ladder_rung' = ladder_rung /\ rung_attempts' >= rung_attempts]_vars

(* A failing evaluation at an iteration cap halts the run: no retry, rung  *)
(* or re-plan starts with CB-1 already due.                                *)
CapHaltsFailingTask ==
  [][/\ pc = "talos"
     /\ eval_report' # "passed"
     /\ pc' # "raised"
     /\ IterationCapHit(iterations_this_task, iteration_count')
     => Halted']_vars

\* An answer after the cap is reached no longer counts.  Only a run's first
\* plan (discovery may use the cap up) and a re-plan are made all the same.
UncountedPlans ==
  IF /\ pc \in {"argus_skeleton", "odysseus"}
     /\ iteration_count = MaxIterationsPerRun
  THEN 1 ELSE 0

\* How far the node about to run is from the end of its attempt.
NodesLeft ==
  CASE pc \in {"END", "raised"} -> 0
    [] pc = "cerberus" -> 1
    [] pc = "talos" -> 2
    [] pc \in {"daedalus", "chiron"} -> 3
    [] pc \in {"rollback", "argus_research"} -> 4
    [] pc = "odysseus" -> 5
    [] pc = "argus_skeleton" -> 6

\* What the run has left, the scarcest budget first.
Fuel == <<MaxRejectionsPerRun - reject_count,
          MaxIterationsPerRun - iteration_count,
          UncountedPlans,
          task_count - task_cursor,
          4 - ladder_rung,
          RungBudgets[ladder_rung] - rung_attempts,
          NodesLeft>>

\* Lexicographically smaller.
Less(m, n) ==
  \E i \in 1..Len(n) : m[i] < n[i] /\ \A j \in 1..i - 1 : m[j] = n[j]

(* Why every run ends: no step of the graph leaves it with as much fuel as *)
(* before.  A step may refill a budget (a re-plan adds tasks, a passed     *)
(* task resets the ladder) only by spending one that comes earlier, and no *)
(* budget is ever overdrawn.                                               *)
EveryStepBurnsFuel == [][Fuel' \in Seq(Nat) /\ Less(Fuel', Fuel)]_vars

(* Every run ends: with a verdict, or with an error no node catches.       *)
Termination == <>(pc \in {"END", "raised"})

-----------------------------------------------------------------------------
(* What the documentation says and the code does not do.                   *)

(* cerberus.py and core/state.py: no notes after a review that could not   *)
(* be made; their absence on an ESCALATE is the UNREVIEWED signal.         *)
UnreviewedIsSignalled ==
  halt_reason = "review_chain_exhausted" => cerberus_notes = None
=============================================================================
