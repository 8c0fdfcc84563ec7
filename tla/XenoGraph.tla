------------------------------ MODULE XenoGraph ------------------------------
(***************************************************************************)
(* The control flow of one xeno run: the compiled LangGraph of             *)
(* graph/build.py with the eight nodes it steps through, one action per    *)
(* outcome a node's step can have.                                         *)
(*                                                                         *)
(* The variables are the control fields of AgentState (core/state.py) and  *)
(* of build.py's _LoopContext.  LangGraph runs one node at a time and      *)
(* rebuilds the state from each node's return value, so a node's whole     *)
(* step, with the bookkeeping build.py wraps around it and the routing     *)
(* function on its outgoing edge, is one atomic action; pc is the node     *)
(* the graph runs next.                                                    *)
(*                                                                         *)
(* Model answers, gate outcomes, budget and clock are the environment:     *)
(* each is a nondeterministic choice over what the code tells apart.       *)
(***************************************************************************)
EXTENDS Breakers

CONSTANTS
  Tasks,                \* plan task descriptions
  Signatures,           \* failure signatures of failing commands
  InfraSignatures,      \* signatures of infrastructure failures (exit code 0)
  Diffs,                \* content hashes of the diffs the models write
  MaxRejectionsPerRun,  \* limits.max_rejections_per_run
  MaxNewTasks           \* bound on the tasks of one Odysseus answer

ASSUME GraphAssumption ==
  /\ MaxRejectionsPerRun \in Nat
  /\ MaxNewTasks \in Nat \ {0}
  /\ None \notin Signatures \cup InfraSignatures
  /\ Signatures \cap InfraSignatures = {}

\* The domains of the enumerated fields hold strings only.
ASSUME NoneAssumption ==
  None \notin {"passed", "failed", "infrastructure", "coder", "planner",
               "approve", "reject_and_return", "escalate",
               "report", "objections", "notes",
               "chain_exhausted", "objection", "worktree_escape", "breaker",
               "ladder_exhausted", "review_chain_exhausted",
               "review_malformed", "rejections_exhausted", "escalated",
               "CB-1", "CB-2", "CB-3", "CB-4", "CB-5", "CB-6"}

VARIABLES
  pc,                   \* the node about to run, "END", or "raised"
  plan,                 \* the plan file's tasks
  task_count,           \* AgentState.task_count, stored apart from the plan
  task_cursor,          \* tasks completed; 0-based index of the current one
  checkpoints,          \* CommitRefs: the task index and the task committed
  ladder_rung,          \* 0..4 of the current task
  rung_attempts,        \* attempts consumed at that rung
  failure_signature,    \* signature of the last failure of this task
  signature_streak,     \* CB-4's counter
  iterations_this_task, \* write attempts of this task (CB-1)
  iteration_count,      \* answered model calls of the run, saturated (CB-1)
  diff_history,         \* CB-5's window
  eval_report,          \* Talos's last verdict
  reject_count,         \* Cerberus rejections
  reject_destination,   \* where the last rejection sends the run
  review_verdict,       \* Cerberus's last verdict
  cerberus_notes,       \* which text the last review left for the reader
  halt_reason,          \* why the run stopped working, or None
  breaker_trips,        \* codes of the breakers that fired
  intervention,         \* ctx.intervention: what preceded this evaluation
  worktree              \* the files against the last commit and evaluation

planVars   == <<plan, task_count>>
doneVars   == <<task_cursor, checkpoints>>
ladderVars == <<ladder_rung, rung_attempts>>
failVars   == <<failure_signature, signature_streak>>
writeVars  == <<iterations_this_task, diff_history, intervention, worktree>>
reviewVars == <<reject_count, review_verdict, cerberus_notes>>
haltVars   == <<halt_reason, breaker_trips>>

vars == <<pc, planVars, doneVars, ladderVars, failVars, writeVars,
          iteration_count, eval_report, reviewVars, reject_destination,
          haltVars>>

Nodes == {"argus_skeleton", "odysseus", "argus_research", "daedalus",
          "chiron", "rollback", "talos", "cerberus"}
HaltReasons == {"chain_exhausted", "objection", "worktree_escape", "breaker",
                "infrastructure", "ladder_exhausted",
                "review_chain_exhausted", "review_malformed",
                "rejections_exhausted", "escalated"}
BreakerCodes == {"CB-1", "CB-2", "CB-3", "CB-4", "CB-5", "CB-6"}

Plans == UNION {[1..k -> Tasks] : k \in 1..MaxNewTasks}

Halted == halt_reason # None

-----------------------------------------------------------------------------
(* Steps shared by several nodes.                                          *)

Continue(node) ==
  /\ pc' = node
  /\ UNCHANGED haltVars

Halt(reason) ==
  /\ pc' = "cerberus"
  /\ halt_reason' = reason
  /\ UNCHANGED breaker_trips

\* A breaker that fires sets a halt reason, so every edge leads to Cerberus.
Trip(code) ==
  /\ pc' = "cerberus"
  /\ halt_reason' = "breaker"
  /\ breaker_trips' = Append(breaker_trips, code)

\* Between a and b calls of the node's chain were answered: each counts.
Calls(a, b) ==
  \E n \in a..b : iteration_count' = Bump(iteration_count, n)

\* One answer, or two when the first did not parse (MAX_FORMAT_ATTEMPTS).
Answered == Calls(1, 2)

\* The chain ran out on the first call, or on the corrective retry.
ChainExhausted(reason) == Calls(0, 1) /\ Halt(reason)

-----------------------------------------------------------------------------
ArgusSkeleton ==
  /\ pc = "argus_skeleton"
  /\ \/ Calls(1, 1) /\ Continue("odysseus")
     \/ Calls(0, 0) /\ Halt("chain_exhausted")
  /\ UNCHANGED <<planVars, doneVars, ladderVars, failVars, writeVars,
                 eval_report, reviewVars, reject_destination>>

\* The node that acts on a rejection leaves it set.
Mutant_ConsumeRejection == UNCHANGED reject_destination

\* The destination of a rejection is read once, by the node it names.
ConsumeRejection == reject_destination' = None

Replanning == ladder_rung = 4 \/ reject_destination = "planner"

\* A re-plan keeps the tasks before the cursor and replaces the rest.
NewPlan(answer) ==
  IF Replanning THEN SubSeq(plan, 1, task_cursor) \o answer ELSE answer

OdysseusPlans ==
  /\ pc = "odysseus"
  /\ Answered
  /\ \E answer \in Plans :
       /\ plan' = NewPlan(answer)
       /\ task_count' = Len(NewPlan(answer))
  /\ Continue("argus_research")
  /\ ConsumeRejection
  /\ UNCHANGED <<doneVars, ladderVars, failVars, writeVars, eval_report,
                 reviewVars>>

OdysseusHalts ==
  /\ pc = "odysseus"
  /\ \/ ChainExhausted("chain_exhausted")
     \/ Answered /\ Halt("objection")
  /\ ConsumeRejection
  /\ UNCHANGED <<planVars, doneVars, ladderVars, failVars, writeVars,
                 eval_report, reviewVars>>

ArgusResearch ==
  /\ pc = "argus_research"
  /\ \/ /\ Answered
        /\ Continue(IF ladder_rung = 2 THEN "chiron" ELSE "daedalus")
     \/ ChainExhausted("chain_exhausted")
  /\ UNCHANGED <<planVars, doneVars, ladderVars, failVars, writeVars,
                 eval_report, reviewVars, reject_destination>>

-----------------------------------------------------------------------------
(* The two nodes that write.  _after_write runs after every write that     *)
(* happened: the diff enters CB-5's window and CB-6 may fire at once.      *)

\* CB-6 fires but the write still goes on to the gates.
Mutant_AfterWrite(diff) ==
  /\ diff_history' = RecordDiff(diff_history, diff)
  /\ worktree' = "written"
  /\ \/ Continue("talos") /\ intervention' = "model_authored"
     \/ /\ pc' = "talos"
        /\ halt_reason' = "breaker"
        /\ breaker_trips' = Append(breaker_trips, "CB-6")
        /\ UNCHANGED intervention

AfterWrite(diff) ==
  /\ diff_history' = RecordDiff(diff_history, diff)
  /\ worktree' = "written"
  /\ \/ Continue("talos") /\ intervention' = "model_authored"
     \/ Trip("CB-6") /\ UNCHANGED intervention

\* A block outside the worktree halts the run; earlier blocks stay on disk.
Escape ==
  /\ Answered
  /\ Halt("worktree_escape")
  /\ worktree' \in {worktree, "written"}
  /\ UNCHANGED <<diff_history, intervention>>

Daedalus ==
  /\ pc = "daedalus"
  /\ iterations_this_task' = iterations_this_task + 1
  /\ ConsumeRejection
  /\ \/ Answered /\ \E diff \in Diffs : AfterWrite(diff)
     \/ Escape
     \/ /\ ChainExhausted("chain_exhausted") \/ (Answered /\ Halt("objection"))
        /\ UNCHANGED <<diff_history, intervention, worktree>>
  /\ UNCHANGED <<planVars, doneVars, ladderVars, failVars, eval_report,
                 reviewVars>>

\* No hypothesis, an unparsable answer, or a patch that touches a test file.
ChironDeclines ==
  /\ pc = "chiron"
  /\ iterations_this_task' = iterations_this_task + 1
  /\ Answered
  /\ Continue("talos")
  /\ intervention' = "declined"
  /\ UNCHANGED <<planVars, doneVars, ladderVars, failVars, diff_history,
                 worktree, eval_report, reviewVars, reject_destination>>

ChironPatches ==
  /\ pc = "chiron"
  /\ iterations_this_task' = iterations_this_task + 1
  /\ \/ Answered /\ \E diff \in Diffs : AfterWrite(diff)
     \/ Escape
     \/ /\ ChainExhausted("chain_exhausted")
        /\ UNCHANGED <<diff_history, intervention, worktree>>
  /\ UNCHANGED <<planVars, doneVars, ladderVars, failVars, eval_report,
                 reviewVars, reject_destination>>

-----------------------------------------------------------------------------
(* Evaluation.  A pass is checkpointed in the same step; a failure updates *)
(* CB-4, polls the other breakers and moves the ladder.                    *)

CurrentTask == plan[task_cursor + 1]

ResetForNewTask ==
  /\ ladder_rung' = 0
  /\ rung_attempts' = 0
  /\ failure_signature' = None
  /\ signature_streak' = 0
  /\ iterations_this_task' = 0
  /\ diff_history' = <<>>

TalosPasses ==
  /\ pc = "talos"
  /\ eval_report' = "passed"
  /\ worktree' = "committed"
  /\ checkpoints' = Append(checkpoints, [task_index |-> task_cursor,
                                         task |-> CurrentTask])
  /\ ResetForNewTask
  /\ task_cursor' = task_cursor + 1
  /\ Continue(IF task_cursor' < task_count THEN "argus_research"
                                           ELSE "cerberus")
  /\ UNCHANGED <<planVars, intervention, iteration_count, reviewVars,
                 reject_destination>>

\* The triage call is best effort: its chain may be exhausted.
ObserveFailure(report, signature) ==
  /\ eval_report' = report
  /\ Calls(0, 1)
  /\ failure_signature' = signature
  /\ signature_streak' = StreakAfter(failure_signature, signature_streak,
                                     signature, intervention)
  /\ worktree' = IF worktree = "written" THEN "evaluated" ELSE worktree

\* POLLED_BREAKERS in order: the first that fires, or None.
PolledBreakers ==
  IF IterationCapHit(iterations_this_task, iteration_count') THEN {"CB-1"}
  ELSE {"CB-3", "CB-2"} \cup {IF DiffThrash(diff_history) THEN "CB-5"
                                                          ELSE None}

RouteByRung(rung) ==
  CASE rung = 0 -> "talos"
    [] rung = 1 -> "chiron"
    [] rung = 2 -> "argus_research"
    [] rung = 3 -> "rollback"
    [] rung = 4 -> "odysseus"

\* The retry after an infrastructure failure is free: no attempt is counted.
Mutant_InfraRetry ==
  /\ ladder_rung = 0
  /\ rung_attempts < RungBudgets[0]
  /\ intervention' = "none"
  /\ Continue("talos")
  /\ UNCHANGED ladderVars

InfraRetry ==
  /\ ladder_rung = 0
  /\ rung_attempts < RungBudgets[0]
  /\ rung_attempts' = rung_attempts + 1
  /\ intervention' = "none"
  /\ Continue("talos")
  /\ UNCHANGED ladder_rung

InfraHalt ==
  /\ ladder_rung = 0 => rung_attempts >= RungBudgets[0]
  /\ Halt("infrastructure")
  /\ UNCHANGED <<ladderVars, intervention>>

\* An L0 retry is granted without being counted.
Mutant_RetryRungUncounted ==
  /\ rung_attempts < RungBudgets[ladder_rung]
  /\ rung_attempts' = IF ladder_rung = 0 THEN rung_attempts
                                         ELSE rung_attempts + 1
  /\ intervention' = IF ladder_rung = 0 THEN "none" ELSE intervention
  /\ Continue(RouteByRung(ladder_rung))
  /\ UNCHANGED ladder_rung

\* The L0 retry keeps the label of the write that came before it.
Mutant_RetryRung ==
  /\ rung_attempts < RungBudgets[ladder_rung]
  /\ rung_attempts' = rung_attempts + 1
  /\ Continue(RouteByRung(ladder_rung))
  /\ UNCHANGED <<ladder_rung, intervention>>

\* One attempt too many at every rung.
Mutant_RetryRungOffByOne ==
  /\ rung_attempts <= RungBudgets[ladder_rung]
  /\ rung_attempts' = rung_attempts + 1
  /\ intervention' = IF ladder_rung = 0 THEN "none" ELSE intervention
  /\ Continue(RouteByRung(ladder_rung))
  /\ UNCHANGED ladder_rung

RetryRung ==
  /\ rung_attempts < RungBudgets[ladder_rung]
  /\ rung_attempts' = rung_attempts + 1
  /\ intervention' = IF ladder_rung = 0 THEN "none" ELSE intervention
  /\ Continue(RouteByRung(ladder_rung))
  /\ UNCHANGED ladder_rung

LadderExhausted ==
  /\ rung_attempts >= RungBudgets[ladder_rung]
  /\ ladder_rung = 4
  /\ Halt("ladder_exhausted")
  /\ UNCHANGED <<ladderVars, intervention>>

NextRung ==
  /\ rung_attempts >= RungBudgets[ladder_rung]
  /\ ladder_rung < 4
  /\ ladder_rung' = ladder_rung + 1
  /\ rung_attempts' = 1
  /\ Continue(RouteByRung(ladder_rung + 1))
  /\ UNCHANGED intervention

BreakerHalt(code) ==
  /\ Trip(code)
  /\ UNCHANGED <<ladderVars, intervention>>

AdvanceLadder ==
  \E breach \in PolledBreakers :
    IF breach # None THEN BreakerHalt(breach)
    ELSE IF eval_report' = "infrastructure"
    THEN InfraRetry \/ InfraHalt
    ELSE RetryRung \/ NextRung \/ LadderExhausted

TalosFails(report, signature) ==
  /\ pc = "talos"
  /\ ObserveFailure(report, signature)
  /\ IF NoProgress(failure_signature, signature_streak, signature, intervention)
     THEN BreakerHalt("CB-4")
     ELSE AdvanceLadder
  /\ UNCHANGED <<planVars, doneVars, iterations_this_task, diff_history,
                 reviewVars, reject_destination>>

\* L3: back to the last checkpoint, or to the run's initial commit.
Rollback ==
  /\ pc = "rollback"
  /\ worktree' = "committed"
  /\ Continue("daedalus")
  /\ UNCHANGED <<planVars, doneVars, ladderVars, failVars,
                 iterations_this_task, diff_history, intervention,
                 iteration_count, eval_report, reviewVars, reject_destination>>

-----------------------------------------------------------------------------
(* The gate.                                                               *)

Review(verdict, notes) ==
  /\ review_verdict' = verdict
  /\ cerberus_notes' = notes
  /\ UNCHANGED <<doneVars, ladderVars, failVars, writeVars, eval_report>>

CerberusReportsHalt ==
  /\ pc = "cerberus"
  /\ Halted
  /\ pc' = "END"
  /\ Review("escalate", "report")
  /\ UNCHANGED <<planVars, iteration_count, reject_count, reject_destination,
                 haltVars>>

Escalate(reason, notes) ==
  /\ pc' = "END"
  /\ halt_reason' = reason
  /\ Review("escalate", notes)
  /\ UNCHANGED <<planVars, reject_count, reject_destination, breaker_trips>>

\* A review whose chain is exhausted counts as an approval.
Mutant_CerberusUnreviewed ==
  /\ pc = "cerberus"
  /\ ~Halted
  /\ Calls(0, 1)
  /\ pc' = "END"
  /\ halt_reason' = "review_chain_exhausted"
  /\ Review("approve", cerberus_notes)
  /\ UNCHANGED <<planVars, reject_count, reject_destination, breaker_trips>>

CerberusUnreviewed ==
  /\ pc = "cerberus"
  /\ ~Halted
  /\ Calls(0, 1)
  /\ Escalate("review_chain_exhausted", cerberus_notes)

CerberusApproves ==
  /\ pc = "cerberus"
  /\ ~Halted
  /\ Answered
  /\ pc' = "END"
  /\ Review("approve", "notes")
  /\ UNCHANGED <<planVars, reject_count, reject_destination, haltVars>>

\* A rejection past the budget is returned all the same.
Mutant_RejectionAllowed == reject_count <= MaxRejectionsPerRun

RejectionAllowed == reject_count < MaxRejectionsPerRun

\* The objection task is written to the plan file but not counted.
Mutant_CerberusReturnsToCoder ==
  /\ pc = "cerberus"
  /\ ~Halted
  /\ Answered
  /\ RejectionAllowed
  /\ reject_count' = reject_count + 1
  /\ reject_destination' = "coder"
  /\ \E objection \in Tasks : plan' = Append(plan, objection)
  /\ Continue("argus_research")
  /\ Review("reject_and_return", "objections")
  /\ UNCHANGED task_count

CerberusReturnsToCoder ==
  /\ pc = "cerberus"
  /\ ~Halted
  /\ Answered
  /\ RejectionAllowed
  /\ reject_count' = reject_count + 1
  /\ reject_destination' = "coder"
  /\ \E objection \in Tasks : plan' = Append(plan, objection)
  /\ task_count' = Len(plan) + 1
  /\ Continue("argus_research")
  /\ Review("reject_and_return", "objections")

CerberusReturnsToPlanner ==
  /\ pc = "cerberus"
  /\ ~Halted
  /\ Answered
  /\ RejectionAllowed
  /\ reject_count' = reject_count + 1
  /\ reject_destination' = "planner"
  /\ Continue("odysseus")
  /\ Review("reject_and_return", "objections")
  /\ UNCHANGED planVars

CerberusEscalates ==
  /\ pc = "cerberus"
  /\ ~Halted
  /\ Answered
  /\ \/ Escalate("escalated", "report")
     \/ Escalate("review_malformed", "report")
     \/ ~RejectionAllowed /\ Escalate("rejections_exhausted", "report")

-----------------------------------------------------------------------------
(* BudgetExceededError, a non-retryable ProviderError, a DockerException   *)
(* from the pool, a validation error: no node catches them and run_graph   *)
(* does not either, so the state of the raising step is lost.  (A git      *)
(* command that fails, the one thing a halted Cerberus or a rollback could *)
(* raise, is left out.)                                                    *)

UncaughtError ==
  /\ pc \in Nodes \ {"rollback"}
  /\ ~Halted
  /\ pc' = "raised"
  /\ UNCHANGED <<planVars, doneVars, ladderVars, failVars, writeVars,
                 iteration_count, eval_report, reviewVars,
                 reject_destination, haltVars>>

Terminated ==
  /\ pc \in {"END", "raised"}
  /\ UNCHANGED vars

\* Toolchain discovery has had no answer (its cache was hit), one or two.
Init ==
  /\ pc = "argus_skeleton"
  /\ plan = <<>>
  /\ task_count = 0
  /\ task_cursor = 0
  /\ checkpoints = <<>>
  /\ ladder_rung = 0
  /\ rung_attempts = 0
  /\ failure_signature = None
  /\ signature_streak = 0
  /\ iterations_this_task = 0
  /\ iteration_count \in {Bump(0, answers) : answers \in 0..2}
  /\ diff_history = <<>>
  /\ eval_report = None
  /\ reject_count = 0
  /\ reject_destination = None
  /\ review_verdict = None
  /\ cerberus_notes = None
  /\ halt_reason = None
  /\ breaker_trips = <<>>
  /\ intervention = "none"
  /\ worktree = "committed"

Talos ==
  \/ TalosPasses
  \/ \E signature \in Signatures : TalosFails("failed", signature)
  \/ \E signature \in InfraSignatures : TalosFails("infrastructure", signature)

Cerberus ==
  \/ CerberusReportsHalt
  \/ CerberusUnreviewed
  \/ CerberusApproves
  \/ CerberusReturnsToCoder
  \/ CerberusReturnsToPlanner
  \/ CerberusEscalates

Next ==
  \/ ArgusSkeleton
  \/ OdysseusPlans
  \/ OdysseusHalts
  \/ ArgusResearch
  \/ Daedalus
  \/ ChironDeclines
  \/ ChironPatches
  \/ Talos
  \/ Rollback
  \/ Cerberus
  \/ UncaughtError
  \/ Terminated

(* run_graph invokes the graph in one thread and every node returns: model *)
(* calls and gate commands have timeouts.  So the graph keeps stepping.    *)
Spec == Init /\ [][Next]_vars /\ WF_vars(Next)
=============================================================================
