# Formal models of xeno-cli

TLA+ specifications of xeno, the command-line harness that plans a coding goal,
lets models write files in a throwaway worktree, gates every change in a
sandbox and has a reviewer model approve the result. The modules follow
`src/src/xeno`; a path without a prefix below is relative to it. TLC checks every
component on small instances, alone and for graph and worktree together; TLAPS
proves every safety property the runs check, three refinements, and that every run of the
graph is finite, for all values of their constants.

1. [The system](#the-system)
2. [Modules](#modules)
3. [How the models correspond to the code](#how-the-models-correspond-to-the-code)
4. [What the runs check](#what-the-runs-check)
5. [What is proved](#what-is-proved)
6. [Where documentation and code differ](#where-documentation-and-code-differ)
7. [What is not modelled](#what-is-not-modelled)
8. [Plan](#plan)

## The system

`xeno run GOAL` is one process with one main thread (LangGraph runs one node at
a time) and, inside it, the sandbox pool's worker threads. Several processes may
work on one repository at once.

| Component | Source | State it keeps | Operations |
| --- | --- | --- | --- |
| Graph and ladder | `graph/build.py` | `AgentState` control fields, `_LoopContext` | one step per node; routing; `_advance_ladder`; breaker poll |
| Nodes | `graph/argus.py`, `odysseus.py`, `daedalus.py`, `chiron.py`, `talos.py`, `cerberus.py`, `nodeops.py`, `plan.py` | plan file, handles, call counters | ask a model (with one corrective retry), act on the answer |
| Circuit breakers | `core/breakers.py`, `core/types.py` | signature streak, diff window, counters | CB-1..CB-6, `observe_failure`, `record_diff` |
| Worktree and git | `core/vcs.py`, `graph/checkpoints.py`, `graph/testfiles.py` | files, index, branch, touched files | write, commit, rollback, diff, squash |
| Router, ledger, prices | `router/router.py`, `router/pricing.py`, `core/ledger.py`, `core/usage.py` | `calls`, task windows, state's spend | walk a chain, pre-check, record, bill |
| Configuration | `core/config.py` | chains, nodes, limits | load and validate |
| Prompt cache | `prompt/keys.py`, `prompt/assembly.py`, `graph/context.py` | content hash, dirty flag, turn counters, histories | build a prompt, append turns, mark written |
| Sandbox pool | `sandbox/pool.py` | ready queue, executor queue, `_closed` | fill, acquire, release, replenish, shutdown, install image |
| Discovery and gates | `adapters/discovery.py`, `adapters/generic.py`, `graph/gates.py` | cache file per fingerprint, images per tag | load, ask, validate, save; run commands |
| Run lifecycle | `cli.py`, `core/runlog.py` | ExitStack, `events.jsonl`, `cost.json` | set up, run, tear down, human gate |
| Providers and probe | `router/providers/*`, `router/probe.py` | HTTP clients, `cache_capable` | complete (status and body to answer or error, usage, cached tokens per layer), probe |
| Answers | `graph/prompts.py`, `graph/nodeops.py`, `core/state.py` | the corrective retry; every field at most 4 KB | parse tags, correct once, act, assign |
| Hardening, secrets, untrusted text | `sandbox/profile.py`, `security/*`, `prompt/delimit.py` | none | pure functions on text and options |

**How they interact.** The CLI builds everything and registers its teardown on
one ExitStack. The graph calls nodes; nodes call the router through a
`PromptBuilder`, which takes its keys from the `CacheKeyring`; the router writes
the ledger *and* the state. Daedalus and Chiron write files and mark the
keyring; Talos borrows a container from the pool, copies the worktree into it
and runs the discovered commands; a pass commits, a failure climbs the ladder
(retry, patch, re-research and patch, roll back and rewrite, re-plan, halt);
Cerberus reads the diff against the root commit and approves, rejects back into
the graph, or escalates. Shared state that crosses a component boundary: the
`touched_files` list between write nodes and Talos, `ctx.intervention` between
write nodes and CB-4, the plan file and `task_count`, the keyring's dirty flag,
the pool's queues between threads, and cache files and images between processes.

**What is hard.** Fields that outlive the step they describe (interventions,
notes, rejection destinations, diff windows); budgets counted in one place and
spent in another; errors raised in the middle of a node or of a walk; worker
threads against shutdown; a process killed between truncating and writing a file;
two processes and an editor on the same files; keys that name what they were
computed from rather than what they are used with; answers that are empty, mixed, too
long or a refusal; an error class that decides whether the next provider is paid or the run is lost. `PROJECT.json` lists each
hazard at its line.

**What makes each component correct.**

- Graph: commits are the plan's completed prefix; approval is earned; a halt is
  final, reaches Cerberus and keeps its first reason; the ladder only climbs
  and bounds the writes; every run ends.
- Worktree: the branch is root plus one commit per checkpoint; rewrites start
  clean; what ships is what was gated and reviewed; changed tests are reported.
- Router and providers: no downward fallback; flagship tokens counted as such; state and
  ledger agree; ceilings hold; only what is listed ends a run (a configuration defect, a provider
  without a client, the budget, an object of the wrong shape); the cache rate was measured.
- Answers: one correction, for mistakes only; a refusal writes nothing and half an answer is
  never evaluated; short text overflows a field only by the length of a list; the plan stays readable.
- Prompt cache: a prompt shows the tree as it is; a key names what it is on.
- Pool: a container is started once, serves one evaluation, alone, and is removed, or left with
  Docker by a command that failed; constant size but for replacements not made; acquire and shutdown end.
- Discovery: only validated commands run; installs fit their manifests; the
  verdict is the first required failure's.
- Lifecycle: nothing acquired is stranded unless its teardown raised, and then the run ends as an
  error; RUN_END is last, exit 0 is earned.
- Graph and worktree together: what the graph believes of the files is so, and what an
  approved run ships is what was reviewed and evaluated.

## Modules

| Component | Specification | Properties | TLC instances | Proofs |
| --- | --- | --- | --- | --- |
| Graph, ladder, breakers | `XenoGraph` extends `Breakers` | `XenoGraphProperties` | `MCXenoGraph` | `XenoRun_proofs` |
| What a run promises | `RunContract` (abstract), `XenoGraphContract` (refinement mapping) | `ImplementsContract` | `MCXenoGraphContract` | `XenoRun_proofs` |
| Worktree, git, human gate | `Worktree` | `WorktreeProperties` | `MCWorktree` | `Worktree_proofs` |
| Graph over real files | `XenoRun` extends `XenoGraph`, instantiates `Worktree` | `XenoRunProperties` | `MCXenoRun` | `XenoRun_proofs` |
| Answers, parsers, field limits | `Answers` | `AnswersProperties` | `MCAnswers` | `Answers_proofs` |
| Router, ledger, loader, probe | `Router` extends `Providers` | `RouterProperties` | `MCRouter` | `Router_proofs` |
| Prompt cache | `PromptCache` | `PromptCacheProperties` | `MCPromptCache` | `PromptCache_proofs` |
| Sandbox pool | `WarmPool` | `WarmPoolProperties` | `MCWarmPool` | `WarmPool_proofs` |
| A container's life | `ContainerLife` (abstract) | `ImplementsContainerLife` | `MCWarmPool` | `WarmPool_proofs` |
| Discovery, image, gates | `Toolchain` | `ToolchainProperties` | `MCToolchain` | `Toolchain_proofs` |
| Run lifecycle | `RunLifecycle` | `RunLifecycleProperties` | `MCRunLifecycle` | `WarmPool_proofs` |

`Router_proofs` and `Answers_proofs` rest on `SumTheorems`, which is about sums and not about xeno.

Two pairs are composed: `XenoRun` runs the graph over the worktree, `Router` runs its walk over
the providers' error and usage mapping. The others stand alone: what the other components do is
their environment. `XenoGraph` has the exact ladder; `Worktree`, `PromptCache` and `Answers`
follow the same edges with the ladder's budgets left open, so they allow every
run `XenoGraph` allows and more; for `Worktree` this is what `XenoRun` checks and proves.
An operator called `Mutant_X` next to a
definition `X` is a plausible bug in the code behind `X`; `PROJECT.json` names
the property each one violates.

## How the models correspond to the code

**XenoGraph.** `pc` is the node LangGraph runs next. LangGraph rebuilds the state
from each node's return value, so a node's step, with build.py's wrapper around
it and the routing function on the outgoing edge, is one action; the alternatives
of a node (answered, malformed twice, chain exhausted, objection, path escape)
are its disjuncts. The variables are the control fields of `AgentState`
(`ladder_rung`, `rung_attempts`, `signature_streak`, `diff_history`,
`reject_destination`, …) and of `_LoopContext` (`intervention`), under the
code's names; `worktree` abstracts the files to *committed*, *evaluated* or
*written*. `iteration_count` saturates at the run's cap: no code distinguishes
larger values, and starts at the answered calls of discovery (none on a cache hit, one or two). CB-1, CB-4 and CB-5 are computed; whether CB-2, CB-3 or CB-6
fires at a poll is the environment's choice. An error no node catches is the
step to `raised`.

**Worktree.** A tree maps paths to contents; the index is the tree of the last
`git add -A`, `history` the branch's commits. `AddAll` leaves ignored files out,
`ResetHard` leaves them in place, exactly as `git reset --hard; git clean -fd`.
`UngatedPaths` are those `mount_ignore` keeps from worktree copy and sandbox. The history
variables `evaluated` and `reviewed` remember what the gates and Cerberus saw.

**XenoRun.** The variables of both. Each action is an action of `XenoGraph` conjoined with what
the node does to files, index and commits, so every run is a run of the graph. What the graph
leaves open is decided by the files: a diff is the
set of changed paths with their old and new contents (`_unified_diff` skips what did not
change, but leaves a newline), CB-5 compares such diffs, and CB-6 fires exactly when the lines a diff deletes
exceed the limit. The refinement mapping reads Worktree's `node`, `halted`, `outcome` and
checkpoints off the graph's state; nodes that touch no file stand for the write node they lead to.

**Answers.** An answer is the sequence of well-formed tags in it, with prose left out; a text is
its length and whether it is wide (not only ASCII), because the parsers' limits count characters and a field's 4 KB count
bytes of JSON, where any other character takes six. Each node asks, is corrected once if the answer had no usable tags, and
acts; an assignment over a limit is the step to `raised`. The lists that grow are charged for what is in them:
`context_handles` (a handle's path is absolute, so the worktree's own path, `DirBytes`, counts for every file),
`checkpoints`, the test files of an evaluation (`touched`, as often as they were written) and those of the run
(`touched_test_files`). Every path in the repository counts as the longest, `RelBytes`, which errs on the side of raising.
The constant `Replies` says what each node's model may answer, `Failures` what failing gates may have quoted of them;
`AnswersAssumption` only asks for sequences of tags the node's parser knows. `Picked` is `findall` as a recursive
function of the position. `call` records the exchanges of the call, `written` what its node put on disk: the blocks
before an escape too.

**Providers.** A response is a status (0: none arrived), a kind of body and four token counts. `Retryable`,
`Refused`, `Crashes` and `Answered` are the layers of error handling (status, JSON, shape, message)
as predicates; a *misshapen* body is a JSON object whose parts are not of the types the code reads them as
(`choices` that are a string, a null text part, a `usage` or `message` that is no object), for which `complete` raises
something other than a `ProviderError`; `ParseUsage` normalises; `Attribution` fills the prompt's layers in
order, reads first.

**Router.** A configuration is any the loader accepts, chosen in `Init`; the probe then asks one
representative model of each endpoint, and its result stays for the run. A walk is a
sequence of steps, one per chain entry: the pre-check raises, or `Providers` says of the
response whether the entry answered, failed (retryable), refused (not retryable) or crashed; an entry whose family
has no client in the code ends the walk before any call. Money is counted in twentieths of the input rate's unit,
so that the cache multipliers 1.25, 0.50 and 0.10 are integers.

**PromptCache.** A tree's content stands for its hash, a map for the tree it was built
from, a history for its length (a builder has no operation that edits a turn). A
prompt is recorded with the map it shows, the tree at that moment and the key it carries.

**WarmPool.** Main thread and workers interleave between Docker commands, queue operations and
reads of `_closed`. Docker may fail at each command named in `Faults`. A failed removal is suppressed when it
is a `DockerException` (`Destroy`) and escapes when it is an error of the HTTP client under it, *transport*
(`DestroyRaises`): in a worker the task ends there, without a replacement and without a log line (`Retire`), in
the shutdown's loop `shutdown` raises and what is still queued stays (`Drain`). The
30-second timeout of `acquire` may expire whenever the queue is empty. `ContainerLife` is what this
comes to for one container: absent, created, fresh, busy, used, gone - or lost, where a command failed - or, at the
end of a run whose shutdown raised, still fresh; the refinement mapping computes a container's word from Docker's
state and from who holds it.

**Toolchain.** `write_text` is two steps, truncate and write, so two processes and a crash
can meet in between; a cache file is absent, torn, alien (not decodable as the
loader expects) or an entry. Users edit manifests and cache files at any time.
`RunGates` is the gate runner as a function of the exit codes the commands would give.

**RunLifecycle.** The phases of `run` in order, each of which may raise; the ExitStack as a
stack of callbacks popped in LIFO order (`Unwind`, `Call`), where closing the router or the Docker
client may itself raise, and so may the pool's shutdown, which then leaves containers running; then report and cost file (`Summarise`) and `_finalize`. A kill leaves
everything as it is. Writing an event is assumed to succeed.

## What the runs check

Every run finishes in less than three minutes. The two runs that expect a violation are
discussed [below](#where-documentation-and-code-differ).

| Run | What it asks | Instance and why it is enough |
| --- | --- | --- |
| `runs` | the graph's safety invariants | the code's rung budgets (1, 3, 2, 2, 1), caps of 9 writes per task and 24 calls per run; two task texts, two code signatures, one infrastructure signature, three diffs (enough to climb to L4 without thrashing), one rejection, plans of up to two tasks: every rung, both rejection destinations, a re-plan, every breaker and each cap are reached |
| `contract` | `ImplementsContract`, `Termination`, and why: `EveryStepBurnsFuel` | one attempt per rung, so that the whole ladder fits under the caps, two signatures, so that a failure can alternate, and two rejections, so that a return is answered and followed by another; no state constraint: CB-1's caps bound the run, as in the code |
| `composed` | the graph over real files implements `Worktree`, and its word for them is true | one attempt per rung, one task text, a rejection, a source and a test file, two contents of one line each and a limit of one deleted line: CB-5 and CB-6 fire on real diffs, and L3 rolls back before and after a checkpoint |
| `worktree` | all of `WorktreeProperties` | a source `src`, a test fixture `pem` that the sandbox copy leaves out (`tests/*.pem` is both a test path and on the mount denylist) and an ignored file `env`, two contents, two tasks, one rejection: a rollback before and after a checkpoint |
| `answers` | all of `AnswersProperties` but the refuted one | answers that are empty, mixed, overlong, non-ASCII or refuse, for every node; the code's own limits in characters and bytes; a worktree path of 80 bytes and paths of 400 in it, so long that six context files, ten test files in an evaluation, twelve in a run and fourteen checkpoints are each too many; failures that are as long as Talos keeps them, plain and wide |
| `routing` | all of `RouterProperties` | every accepted assignment of all chains of one or two entries over a local, a cheap and a frontier model and one of a family without a client, each on an endpoint of its own; responses of every error class, with cached and written tokens; two attempts and two tasks, with a run budget that admits one frontier and one cheap answer but not two frontier ones, and a flagship cap that admits one full answer |
| `prompts` | freshness of maps and keys | two trees, seven prompts: discovery, a write, a corrective retry, a triage, a rollback and the rewrite |
| `pool` | size, the refinement of `ContainerLife`, and that acquire and shutdown end | two workers, two containers, three evaluations, so that a replacement is itself replaced; create, start and remove may each fail, with an error that is suppressed or one that escapes; as many container numbers as can be handed out |
| `toolchain` | what reaches the gates, what the image was installed from, the gates' verdict | two processes, two Python manifests, one valid and two invalid proposals, edits and crashes; every combination of exit codes of the proposal's commands |
| `lifecycle` | teardown, event order, exit code | the whole state space: the model has no size parameter, so this check is exhaustive |

Properties modules open with the ranges of their variables (`TypeOK`; `ProcessTypeOK` for the lifecycle). Those of
`XenoGraph`, `Worktree`, `WarmPool`, `RunLifecycle`, `Toolchain` and `Router` are proved; the runs
spend their time on the properties that relate variables.

Seven more properties are proved and not checked by a run, which has room for others:
`WorkHasATask`, `RewritesStartClean` and `StreakNeedsWrites` (invariants of the graph), `HaltIsFinal`,
`LadderIsMonotonic` and `CapHaltsFailingTask` (its action properties), and `ShipsWhatWasReviewed`, which for
the instance of `composed` follows from what `composed` and `worktree` check.

`CHECK_DEADLOCK FALSE` appears where the program ends (its last state has no successor). Symmetry is used for
values no definition orders, and never in a run that checks liveness.

**Fairness.** `contract` assumes weak fairness of the whole next-state relation:
LangGraph runs the next node as soon as the previous one returns, and every node
returns because model calls, gate commands and git have timeouts or are finite. `pool` assumes weak fairness of
each thread's steps: the operating system schedules runnable threads, Docker
commands return, and the 30 s timeout expires. The user, crashes and kills are
never assumed to happen. No other run depends on fairness.

## What is proved

TLAPS checks all eight proof modules from nothing; the only assumptions are the
named `ASSUME`s on the constants, which TLC evaluates in the runs, and those stated in a theorem.
Hardly any property is inductive as it stands; each proof rests on the strengthening named below.

**`XenoRun_proofs`, part 1,** proves fourteen theorems about `XenoGraph`: type correctness, each safety invariant of `runs`,
three more invariants and three action properties, for any sets of tasks, signatures and
diffs and any budgets. They rest on `Safe == Control /\ Worktree /\ Ladder`:

- `Control`: types; a plan exists wherever a node reads it (`NodePlan`); the
  checkpoints are its prefix; a halted run is at Cerberus and has at most one
  breaker; the streak is below its limit while the run goes on (`StreakOpen`).
- `Worktree`: which rung leads to which node (`NodeRung`) and what the files are
  there (`NodeFiles`); an approval is the end.
- `Ladder`: attempts within the rung's budget and equal to the writes granted;
  one diff recorded per write (`WriteGranted`); the window without its newest entry free of
  duplicates (`FrontDistinct`), since thrash is polled only after the next
  failure; objections present on a rejected run's way back (`ObjectionsAtHand`).

Each layer is proved with the one below as an assumption: `TypeStep`, `PlanStep`,
`HaltStep`, `StreakStep` for `Control`; `WorktreeStep`; and, after `StepKinds` sorts
every step into those that write, move on or stop, `LadderStateStep`, `WritesStep`,
`ThrashStep`, `RejectionStep`.

*Why every run ends* is proved there too, but for the scheduling. `Fuel` is what a run has left: rejections,
counted calls, the one plan that CB-1's cap can still let through uncounted, tasks, rungs, attempts at the rung,
and nodes up to the end of the attempt. A re-plan refills tasks, a green task refills the ladder, a retry refills the
nodes; `RunsBurnFuel` shows that each step pays for what it refills with a budget that comes earlier. One fact surfaced in
the proof: the counter saturates at the run's cap, so a planner's call there is not visible in it and needs a place of its
own (`UncountedPlans`). `RunsAreBounded` turns the budgets into a number: where a run counts its steps (`CountedSpec`),
`steps <= MostSteps` always holds, with

    MostSteps = ((3 + B0) * N + 8) * (C + 2 * R) + B0 + 6

for plans that grow by at most `N` tasks, an L0 budget `B0`, `C` calls and `R` rejections per run. The argument is that
`steps + StepsLeft` never grows, where `StepsLeft` prices what `Fuel` lists. With the code's defaults (1, 60, 2)
the bound is `256 * N + 519`. LangGraph's limit of 1000 supersteps (`graph/build.py:514`) is thus out of reach of plans of
one task; for longer ones the bound does not exclude it, and the code limits neither the length of a plan nor, as
CB-1 is polled on failures only, the tasks that pass after the cap. `Termination` adds to this
that a node that can run is run, which is fairness and stays with TLC.

**Part 2** proves `GraphKeepsContract`: the graph's initial states are the
contract's, and every step is one of the contract's four or a stutter. The history
variable `returned_at` records the cursor of the last rejection. That a returned run cannot be
approved without another green task follows from the plan having grown past the cursor
(`ReturnAnswered`). The contract's liveness part stays with the run `contract`.

**Part 3** proves `RunsFollowWorktree`: for any files, tasks, diffs and budgets, every
step of the composed run is a step of `Worktree` or a stutter. It uses `Safe` (which rung a node is at decides which write node it stands for) and `Run`: the branch
has one commit more than there are checkpoints until the human gate (`Branch`), what git stored holds no ignored file (`Stored`), every rung
past L0 was entered with an attempt and L4 was noted (`Climbed`), and nothing moves after the
review's `git add -A` (`Staged`). `RunAssumption` says that L4's budget is 1, as in the code, and that the special
paths are paths; the one hypothesis is that the commits fit `Worktree`'s bound `MaxTasks`, which is the
model's and not the code's (`CommitsFit`). `TreeWordsAreTrue` needs no bound.

**Part 4** draws the conclusion: what is proved of `Worktree` holds of the run. The theorems of
`Worktree_proofs` are instantiated under the refinement mapping (`Proved`), and `XenoRun`'s instance of `Worktree` is
shown to be the one they are about. `RunsShipWhatWasReviewed` is the end-to-end statement: through every re-plan,
return and rollback of the ladder, the approved branch is the root and the tree Cerberus read, which the last passing
gates saw. `RunsKeepCheckpoints` carries the other three over.

**`Worktree_proofs`** proves every property of `worktree` and its types, for all files, contents,
ignore rules and bounds. The invariant `Safe` says that the branch is straight and never holds an ignored file
(`Branch`), which rung each node is at (`NodeRung`), that a clean node finds the last commit (`Fresh`), that index and
`reviewed` agree from the review on and with what the gates saw (`Seen`), and which of the current task's
test edits are still listed (`Reported`): without the last, "until it re-plans" could not be
carried through a rollback.

**`WarmPool_proofs`** is about what a run takes hold of and lets go of. Part 1 proves, for any number of workers, pool size and set of failing commands,
`PoolIsRefilled` (the open pool keeps its size) and `ContainersLiveOnce`: the threads and queues
implement `ContainerLife`. The failing commands include removals whose error escapes `_destroy` (`Faults`): in a worker, the
replacement is never made and its loss is counted; in the shutdown, the drain ends there. The invariant `Pool` says who may hold a container at which label (`Roles`), what each place's
containers have been through (`Kept`), that no container is in two places (`Separate`), that none is
in no place (`Owned`), that unused numbers name nothing (`Unnumbered`) and in which order the
shutdown empties the pool (`Shutdown`). "Nothing is left over" is the mapping of the last step: once the shutdown returned,
`Owned` leaves no living container anywhere; if it raised, what is left is fresh and in the queue.

Part 2 proves the three properties of `lifecycle` and the types. `NothingIsStranded`, `RunEndIsLast` and `ExitZeroIsEarned`
speak of the end of the process only; the invariant `Process` says what has to hold at every phase and every callback before it:
the stack is the registered callbacks up to the phase's depth (`StackInOrder`), whatever is open is released by
a callback still on the stack or was left by its own, which raised (`HeldIsRegistered`; the pool's shutdown is one that may), no end is logged while the
callback that logs it is on the stack and nothing is logged after it (`LogEnds`), and a verdict and the absence of an error are
what leads past the stack (`VerdictIsReached`). The model's only constant is the name of *nothing yet* and the run
is exhaustive, so the proof adds no instance; it adds the reason, callback by callback.

**`PromptCache_proofs`** proves all of `prompts` for any trees and any number of prompts: `Current` (nothing is
written between an answer and its correction; the held hash is the tree's unless dirty or rolled
back) and `Keyed` (a role's counter is the sum of its builders' histories, and discovery's builder
is done before Argus's first prompt, so that the shared counter separates them).

**`Toolchain_proofs`** proves all of `toolchain` for any processes, manifests, commands and proposals:
`Validated` (every cached entry was validated too, since a hit is not checked again), `Fitting` (an
image is stored under the Python manifests it was installed from) and `Judged` (a verdict's run keeps its toolchain).
That fail-fast stops at a first failing command is `FirstExists`, from the well-foundedness of the naturals.

**`SumTheorems`** is what the next two need of the community modules' `SumFunction`: the sum over a finite
set exists, does not depend on the order the elements are picked in, and grows by what is added
(`SumOfAny`, `SumOfSums`, `SumOfUpdated`, `SumOfLonger`, `SumIsWithin`). The library defines the
sum by a recursion over subsets and states induction with an operator parameter, which the provers cannot
instantiate; here induction is over a *set* of good cases instead: if some subset were bad, a smallest one
would be, by the well-foundedness of the strict subset order (`SetInduction`; `Counting` for numbers).

**`Router_proofs`** proves every property of `routing` and the router's types. An invariant that ties every
recorded call to an entry of an accepted chain (`Walk`) gives `FallbackNeverDowngrades`. `DefectsEndTheRun`
follows from where the walk stops: only a configuration defect, a provider without a client, the budget or an answer
of the wrong shape ends a run there. `Books`
gives `TheBooksAgree`, `EveryFlagshipTokenCounts` and `TaskCostsAddUp` for any number of calls: it
adds to the properties the variables' types, the chains (a billed tier is a function
of the model only while the configuration is the one loaded) and `Probed` (who passed the
probe is an aggregator). One lemma (`AttemptsCharge`) says of every step what it enters in the ledger and
charges the state, another (`ChargesKeepBooks`) that such a step keeps the sums equal; the flagship sum
moves because a model's tokens move exactly when a flagship chain serves it.
`CacheRateWasMeasured` adds `AttributionAddsUp`, a theorem on the pure function: for any usage and any layers, every
cacheable token counts once and hits are at most what was reported. `UsageAddsUp` says that a normalised usage never
reports more cached than prompt tokens, for any counts that are natural numbers.
`FrugalSpendIsBounded` has a hypothesis: if no cache multiplier exceeds 1 and
no answer exceeds the projection, spend and tokens never pass their ceilings, for every
price list. It is needed: a prompt billed as a cache write
(1.25 times the input rate) passes the ceiling, see below.

**`Answers_proofs`** proves every property of `answers` for any set of answers a node's model may give - tags in any
order and number, texts of any length and alphabet - any failures of Talos, any lengths of the worktree's path and of
the paths in it, and any limits on rejections and checkpoints.
The invariant has four parts, which TLC checked first:

- `Held`: every text in plan, handles and checkpoints is within its limit, and narrow while all
  answers were plain. This bounds the sums: by `SumIsWithin`, a list of as many entries as fit at their longest
  fits, so that an assignment that raises has more, or an entry that is not plain (`HandlesThatFit`,
  `CheckpointsThatFit`, `TestsThatFit`, `ReportsThatFit`). How many that is follows from the constants
  (`LONGEST_HANDLE` and its like).
- `Flow`: a node that works on a task has one; Odysseus either keeps the completed tasks or has none.
  Without it a plan could be replaced by one shorter than the cursor.
- `Exchanged`: a second attempt follows one unusable answer without a refusal in it. `written` is what
  the act has put on disk, blocks before an escaping one included, so the proof goes through each parser: one that
  returns files saw a file block and no refusal tag, and none of the files is a test if the writer is Chiron
  (`WrittenIsMeant`, `FilesArePaths`); one that calls an answer malformed saw no refusal (`MalformedIsNoRefusal`).
- `Raised`: a value that did not fit is recorded only when the run raised.

What a parser picks out of an answer is proved of the recursive function itself (`PickedAreThere`), by `Counting`.

**Only model-checked:** liveness (`Termination`, `AcquiresEnd`, `ShutdownEnds` and the contract's end), which is
out of the prover's reach as is `ENABLED`. Of `Termination`, what is left to TLC is the fairness argument: that no
run is infinite is proved.

## Where documentation and code differ

Two runs check one statement of a comment each and end in a counterexample;
`PROJECT.json` quotes the statement.

| Run | Statement | What happens |
| --- | --- | --- |
| `unreviewed` | absence of notes is the UNREVIEWED signal (`graph/cerberus.py:142`) | notes of an earlier rejection remain |
| `long_tasks` | a task's text is truncated rather than raising (`prompt/prompts.py:354`, of the parser of plans with the same limit) | Cerberus's objections over 2000 characters raise out of the review |

The models show further differences that have no run of their own. All of them are
behaviours the actions allow, so the properties above hold in their presence.

| Statement | What the code does | In the model |
| --- | --- | --- |
| NONE is for an L0 retry or the first evaluation of a task, MODEL_AUTHORED for an L1/L2/L3 attempt (`core/breakers.py:60`) | a task's first write counts as the model's (`graph/build.py:287`); no streak moves, as CB-4 has no earlier signature of the task to compare | `Daedalus`; `InterventionIsHonest` states the code's rule |
| a client raises `ProviderError` on failure (`router/providers/base.py:110`) | JSON of another shape raises `AttributeError`, `KeyError` or `TypeError`, which neither the walk nor a node catches: the run ends, the next entry is not tried | `Router`'s *misshapen* answers; allowed by name in `OnlyDefectsEndTheRun` |
| every node's failure routes to Cerberus (`graph/build.py:14`) | the budget pre-check, a provider's refusal, a field over 4 KB and container errors leave the graph | steps to `raised` in `XenoGraph` and `Answers` |
| infrastructure failures get one L0 retry (`graph/build.py:355`) | only while L0 is current and its attempt unspent (`build.py:360`) | `AdvanceLadder` |
| an upward fallback must be declared (`README.md:254`, `core/config.py:64`) | the loader never reads `escalation` (`config.py:218`) | `Router`'s accepted configurations |
| the pre-call projection is pessimistic (`router/router.py:329`) | a prompt written to a cache costs 1.25 times the input rate (`pricing.py:25`) | `Router`'s `WriteRate`, outside `FrugalUsages` |
| the probe corrects the multipliers (`router/pricing.py:20`) | `cache_multipliers` never reads `cache_capable` | `Router`'s prices |
| the probe measures a provider's caching (`router/probe.py`) | one representative model per provider, without cache markers, never the OpenAI family; its calls are in no book | `Router`'s probe |
| M1.4's cache rate and `cache_stats` are the same figures | the state counts all answered calls, the ledger only those of capable providers | `CacheRateIsMeasured` and `BooksAgree` say each |
| a test file a task touched is reported (`core/state.py:218`) | each Daedalus call forgets what the call before it touched (`graph/daedalus.py:117`); after L4 the edits of L3 stay unlisted | the clause *until a run re-plans* |
| the discovered install is what the gates use (`README.md:287`) | the image's tag covers two manifests and not the command (`sandbox/pool.py:319`) | the clause *Python manifests* |
| fields of the state are small (`core/state.py:26`) | `context_handles` holds absolute paths and is never reset; `touched_test_files` and `eval_report` grow by a path for each test file; a fourteenth checkpoint with full ASCII messages (a fourth of other text) does not fit; plans have no cap | `HandlesFit`, `TestsFit`, `EvalFits`, `CheckpointsFit` |
| a commit message has 2000 characters (`core/state.py:244`) | from 683 non-ASCII characters on it exceeds 4 KB; objections over about 4 KB raise instead of halting | `CommitMessageFits`, `HaltFits` |
| an objection refuses the task | so does an objection tag inside a file's content | `Has`, over the whole answer |
| L3 discards everything (`core/vcs.py:85`) | `clean -fd` keeps ignored files | `ResetHard` |
| an approved run is squashed, exit 0 (`README.md:193`) | git refuses an empty commit (`core/vcs.py:155`) | `Squash` fails on an unchanged tree |
| CB-5 catches a model that goes back and forth | A, B, C, B passes when the diffs differ, and an unchanged block or another order changes the hash | `DiffOf` keeps what decides |
| shutdown destroys every container, pooled or in flight (`sandbox/pool.py:171`) | not one whose start failed (`pool.py:216`); and an error that is not Docker's escapes `_destroy` (`pool.py:233`) and the drain loop, and the rest of the queue stays | a life that is *lost*; one *fresh* at the end |
| anything not caught would disappear without a log line, so everything is (`sandbox/pool.py:188`) | `_destroy` is called before the `try` (`pool.py:184`): an error that escapes it shrinks the pool unlogged | `Retire` with an error of `Faults` |
| a failed call is entered in the ledger (`router/router.py:253`) | an answer of the wrong shape was paid for and is in neither book, the run ends before either | `Providers`' *misshapen* bodies |
| no stale key is handed out (`prompt/keys.py:11`) | rollback does not mark the keyring (`graph/checkpoints.py:76`) | `PromptCache`'s rollback |
| one builder per node per run (`prompt/assembly.py:160`) | discovery and Argus each have one for the researcher role (`adapters/discovery.py:229`) | two histories, one turn counter |
| a corrupt cache file is a miss (`adapters/discovery.py:107`) | JSON that is no object, or no UTF-8, raises (`discovery.py:117`) | the *alien* cache file |
| no command is named for an infrastructure failure (`graph/gates.py:56`) | it is (`gates.py:81`) | `RunGates` |
| every run writes `cost.json` (`README.md:206`) | not one that raises after paid calls (`cli.py:516`) | `RunLifecycle`'s raising phases |
| RUN_END describes a run that is over (`cli.py:161`) | it is logged before the human gate and the squash | the stack unwinds before `Finalize` |

Statuses 402 and 413 count as configuration defects and end the run, as the predicate on
the status has it (`router/providers/base.py:206`).

## What is not modelled

- The text of prompts and the delimiting of untrusted text (`prompt/delimit.py`), the secret
  scanner, log formatting, the normalisation inside `failure_signature`: their
  outcomes are choices of the environment.
- Of the providers, the HTTP client, the layout of messages and the health checks; negative token counts (a count that is no number
  is a *misshapen* body). The Anthropic family has no client in the code.
- Of a text, everything but length and alphabet; of a path, everything but its length, which is that of ASCII. The five bytes an ellipsis of `_truncate` takes
  beyond its character are in `HANDLE_BYTES`, for every handle.
- Container options (`sandbox/profile.py`) and `mount_ignore`: constants and a filter; the filter's result is `UngatedPaths`.
- CB-2's clock and CB-3's poll may find them due at any time. A deleted line that begins with `--`, which CB-6 does not count.
- The state's single handles (plan, map, diff, report, notes) and its numbers and names, whose size is constant, and
  the halt reason a failure becomes, which fits.
- Pushing the branch and opening the pull request; commands other than `xeno run`.
- Crash recovery: a killed run is never resumed by the code. Kills are modelled where something persists: the
  discovery cache and the run's files.
- What a provider bills for an answer that never arrived: both books are a lower bound of the invoice.

## Plan

Done, in order: graph and breakers with their contract; router; pool; worktree; prompt cache; toolchain;
lifecycle; providers and probe; answers and the field limit; the composition of graph and worktree; the life of a
container as the pool's abstract specification; proofs of graph, contract, worktree, composition, pool, prompt cache,
toolchain and the router's rules; the theory of sums, and with it the router's books and the answers' limits; the
proof that every run is finite, of the lifecycle, and the transfer of the worktree's theorems to whole runs.

Left, by what it would add:

1. `Answers` composed with `XenoGraph`, so that the raises have the ladder's exact budgets; today it leaves them open.
2. `PromptCache` composed with `XenoRun`, so that its rollbacks are the worktree's.
3. The secret scan of outbound prompts as a step of the router's walk, once something other than an error depends on it.
