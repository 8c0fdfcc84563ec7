-------------------------------- MODULE Router --------------------------------
(***************************************************************************)
(* Model routing and the run's two books.  Router.complete (router.py)     *)
(* walks the fallback chain of the calling node's tier; every attempt goes *)
(* to the CostLedger (core/ledger.py) and every answer to AgentState too,  *)
(* whose figures the pre-call budget check (CB-3) reads.                   *)
(*                                                                         *)
(* At startup the caching of every aggregator in use is probed (probe.py), *)
(* and only calls of a provider found capable count towards M1.4.  What an *)
(* HTTP response comes to is Providers'.                                   *)
(*                                                                         *)
(* The configuration is any that the loader (core/config.py) accepts: it   *)
(* is chosen in Init and frozen.  A call is identified by the tier its     *)
(* node declares.  Money is counted in twentieths of the input rate's      *)
(* unit, in which the cache multipliers 1.25, 0.50 and 0.10 are whole.     *)
(***************************************************************************)
EXTENDS Providers, SequencesExt

CONSTANTS
  Models,          \* provider/model references
  Endpoints,       \* config.providers
  ProviderOf,      \* the provider that serves a model
  Family,          \* a provider's family
  Unpriced,        \* those without a configured price
  InRate, OutRate, \* price of an input and of an output token
  WriteRate, ReadRate,  \* cache multipliers, in twentieths
  AllowUnpriced,   \* allow_unpriced_models
  Chains,          \* the fallback chains a configuration may use
  Estimate,        \* approximate input tokens of the assembled prompt
  MaxTokens,       \* the node's max_tokens
  Responses,       \* what may come back for a request
  Layers,          \* sizes of the prompt's cacheable layers, in tokens
  MaxUsd,          \* limits.max_usd_per_run, in the same unit
  TierCap,         \* limits.max_tokens_per_tier
  MaxCalls,        \* bound on the attempts of one run
  MaxTasks,        \* bound on its completed tasks
  None

Tiers == {"light", "medium", "flagship"}
TierRank == [light |-> 0, medium |-> 1, flagship |-> 2]

Entry == [model : Models, escalation : BOOLEAN]
ASSUME RouterAssumption ==
  /\ IsFiniteSet(Models)
  /\ Unpriced \subseteq Models
  /\ ProviderOf \in [Models -> Endpoints]
  /\ Family \in [Endpoints -> Families]
  /\ {InRate, OutRate, WriteRate, ReadRate} \subseteq [Models -> Nat]
  /\ AllowUnpriced \in BOOLEAN
  /\ Chains \subseteq Seq(Entry)
  /\ Estimate \in Nat /\ MaxTokens \in Nat
  /\ Responses \subseteq Response
  /\ Layers \in Seq(Nat)
  /\ MaxUsd \in Nat
  /\ TierCap \in [Tiers -> Nat]
  /\ None \notin Nat
  /\ None \notin BOOLEAN

VARIABLES
  chains,               \* config.tiers, frozen
  pending,              \* providers still to be probed
  capable,              \* provider.cache_capable: unknown, TRUE or FALSE
  phase,                \* "idle", "walking" a chain, or "raised"
  declared,             \* the tier of the calling node
  index,                \* position in its chain, from 1
  received,             \* the body of the walk's, or the probe's, last response
  calls,                \* ledger.calls
  completed_tasks_usd,  \* ledger.completed_tasks_usd
  usd_at_last_task,     \* ledger._usd_at_last_task
  usd_spent,            \* state.usd_spent
  tokens_spent,         \* state.tokens_spent, by billed tier
  tokens_by_model,      \* state.tokens_by_model
  cache_stats           \* state.cache_stats, by the calling node's tier

taskVars  == <<completed_tasks_usd, usd_at_last_task>>
stateVars == <<usd_spent, tokens_spent, tokens_by_model, cache_stats>>
probeVars == <<pending, capable>>
vars == <<chains, probeVars, phase, declared, index, received, calls, taskVars,
          stateVars>>

-----------------------------------------------------------------------------
(* Configurations the loader accepts.                                      *)

Serves(config, tier, model) ==
  \E i \in 1..Len(config[tier]) : config[tier][i].model = model

\* A downgrade by two tiers, flagship to light, goes unseen.
Mutant_Downgrades(config, tier) ==
  {i \in 2..Len(config[tier]) :
     \E other \in Tiers :
       /\ TierRank[other] = TierRank[tier] - 1
       /\ Serves(config, other, config[tier][i].model)}

\* The fallbacks, not the chain's head, that a weaker tier serves as well.
Downgrades(config, tier) ==
  {i \in 2..Len(config[tier]) :
     \E other \in Tiers :
       /\ TierRank[other] < TierRank[tier]
       /\ Serves(config, other, config[tier][i].model)}

Local == {model \in Models : Family[ProviderOf[model]] = "ollama"}

Priced(config) ==
  AllowUnpriced \/ \A model \in Unpriced \ Local, tier \in Tiers :
                     ~Serves(config, tier, model)

LoadedConfigs ==
  {config \in [Tiers -> Chains \ {<<>>}] :
     Priced(config) /\ \A tier \in Tiers : Downgrades(config, tier) = {}}

\* The aggregators some tier uses; of each, one model is asked.
ProbeTargets(config) ==
  {ProviderOf[model] : model \in
     {model \in Models : Family[ProviderOf[model]] = "aggregator"
                         /\ \E tier \in Tiers : Serves(config, tier, model)}}

-----------------------------------------------------------------------------
(* Prices, budgets and the books.                                          *)

\* The tier a model was first seen in, in the order the chains are read.
Mutant_BilledTier(model) ==
  IF Serves(chains, "light", model) THEN "light"
  ELSE IF Serves(chains, "medium", model) THEN "medium" ELSE "flagship"

\* The highest tier that serves the model, whichever node asked for it.
BilledTier(model) ==
  IF Serves(chains, "flagship", model) THEN "flagship"
  ELSE IF Serves(chains, "medium", model) THEN "medium" ELSE "light"

Price(usage, model) ==
  IF model \in Local THEN 0
  ELSE IF model \in Unpriced THEN None
  ELSE InRate[model] * (20 * (usage.input - usage.read - usage.write)
                        + WriteRate[model] * usage.write
                        + ReadRate[model] * usage.read)
       + 20 * OutRate[model] * usage.output

OrZero(usd) == IF usd = None THEN 0 ELSE usd
TotalTokens(usage) == usage.input + usage.output

Projected == [input |-> Estimate, output |-> MaxTokens, read |-> 0, write |-> 0]
NoUsage == [input |-> 0, output |-> 0, read |-> 0, write |-> 0]

Model == chains[declared][index].model

\* Only a chain's head is checked: a fallback is called unseen.
Mutant_WouldBreach ==
  /\ index = 1
  /\ \/ usd_spent + OrZero(Price(Projected, Model)) > MaxUsd
     \/ tokens_spent[BilledTier(Model)] + TotalTokens(Projected)
          > TierCap[BilledTier(Model)]

WouldBreach ==
  \/ usd_spent + OrZero(Price(Projected, Model)) > MaxUsd
  \/ tokens_spent[BilledTier(Model)] + TotalTokens(Projected)
       > TierCap[BilledTier(Model)]

Escalated ==
  index > 1 /\ TierRank[BilledTier(Model)] > TierRank[declared]

FamilyOf(model) == Family[ProviderOf[model]]

\* `status` stands for the error text; by_breakpoint follows from `usage`.
Record(usage, usd, ok, status) ==
  [declared |-> declared, billed |-> BilledTier(Model), model |-> Model,
   position |-> index, escalation |-> Escalated, usage |-> usage, usd |-> usd,
   capable |-> (capable[ProviderOf[Model]] = TRUE), ok |-> ok, status |-> status]

LedgerUsd == SumFunction([i \in DOMAIN calls |-> OrZero(calls[i].usd)])

\* The answer is charged to the tier the node declared.
Mutant_ApplyToState(usage, usd) ==
  /\ tokens_spent' = [tokens_spent EXCEPT ![declared] = @ + TotalTokens(usage)]
  /\ tokens_by_model' = [tokens_by_model EXCEPT ![Model] = @ + TotalTokens(usage)]
  /\ usd_spent' = usd_spent + OrZero(usd)
  /\ cache_stats' =
       [cache_stats EXCEPT ![declared] = PlusStats(@, Attribution(usage, Layers))]

ApplyToState(usage, usd) ==
  /\ tokens_spent' =
       [tokens_spent EXCEPT ![BilledTier(Model)] = @ + TotalTokens(usage)]
  /\ tokens_by_model' = [tokens_by_model EXCEPT ![Model] = @ + TotalTokens(usage)]
  /\ usd_spent' = usd_spent + OrZero(usd)
  /\ cache_stats' =
       [cache_stats EXCEPT ![declared] = PlusStats(@, Attribution(usage, Layers))]

\* M1.4, from the ledger: only calls whose provider passed the probe count.
Measured == {i \in DOMAIN calls : calls[i].ok /\ calls[i].capable}

HitTokens ==
  SumFunction([i \in Measured |-> Attribution(calls[i].usage, Layers).hit])

Eligible ==
  SumFunction([i \in Measured |-> EligibleTokens(Attribution(calls[i].usage, Layers))])

-----------------------------------------------------------------------------
\* The same prefix is sent twice; neither call is entered in the books.
Probe(name, first, second) ==
  /\ phase = "idle"
  /\ name \in pending
  /\ ~Crashes(first)
  /\ Answered(Family[name], first) => ~Crashes(second)
  /\ pending' = pending \ {name}
  /\ capable' = [capable EXCEPT ![name] =
       /\ Answered(Family[name], first)
       /\ Answered(Family[name], second)
       /\ ParseUsage(Family[name], second).read > 0]
  /\ received' = IF Answered(Family[name], first) THEN second.body ELSE first.body
  /\ UNCHANGED <<chains, phase, declared, index, calls, taskVars, stateVars>>

\* probe_provider expects ProviderError alone: the run ends before its graph.
ProbeCrashes(name, first, second) ==
  /\ phase = "idle"
  /\ name \in pending
  /\ Crashes(first) \/ (Answered(Family[name], first) /\ Crashes(second))
  /\ phase' = "raised"
  /\ received' = "misshapen"
  /\ UNCHANGED <<chains, probeVars, declared, index, calls, taskVars, stateVars>>

Call(tier) ==
  /\ phase = "idle"
  /\ pending = {}
  /\ Len(calls) < MaxCalls
  /\ phase' = "walking"
  /\ declared' = tier
  /\ index' = 1
  /\ received' = None
  /\ UNCHANGED <<chains, probeVars, calls, taskVars, stateVars>>

\* UnsupportedProviderError: a client is built when the walk first needs it.
EntryUnsupported ==
  /\ phase = "walking"
  /\ FamilyOf(Model) \notin Wired
  /\ phase' = "raised"
  /\ UNCHANGED <<chains, probeVars, declared, index, received, calls, taskVars,
                 stateVars>>

\* BudgetExceededError: raised before the entry is called.
PrecheckRaises ==
  /\ phase = "walking"
  /\ FamilyOf(Model) \in Wired
  /\ WouldBreach
  /\ phase' = "raised"
  /\ UNCHANGED <<chains, probeVars, declared, index, received, calls, taskVars,
                 stateVars>>

\* The entry has a client and the budget allows the call.
Sent(response) ==
  /\ phase = "walking"
  /\ FamilyOf(Model) \in Wired
  /\ ~WouldBreach
  /\ received' = response.body
  /\ UNCHANGED <<chains, probeVars, declared, taskVars>>

\* The next entry is tried, or the chain is out: ChainExhaustedError, after
\* which the calling node decides.
EntryFails(response) ==
  /\ Sent(response)
  /\ Retryable(FamilyOf(Model), response)
  /\ calls' = Append(calls, Record(NoUsage, 0, FALSE, response.status))
  /\ IF index < Len(chains[declared])
     THEN index' = index + 1 /\ UNCHANGED phase
     ELSE phase' = "idle" /\ UNCHANGED index
  /\ UNCHANGED stateVars

\* An authentication failure or a malformed request: the error leaves the run.
EntryRefuses(response) ==
  /\ Sent(response)
  /\ Refused(response)
  /\ calls' = Append(calls, Record(NoUsage, 0, FALSE, response.status))
  /\ phase' = "raised"
  /\ UNCHANGED <<index, stateVars>>

\* The answer is paid for, read halfway and entered in neither book.
EntryCrashes(response) ==
  /\ Sent(response)
  /\ Crashes(response)
  /\ phase' = "raised"
  /\ UNCHANGED <<index, calls, stateVars>>

EntryAnswers(response) ==
  /\ Sent(response)
  /\ Answered(FamilyOf(Model), response)
  /\ LET usage == ParseUsage(FamilyOf(Model), response)
         usd == Price(usage, Model)
     IN  /\ calls' = Append(calls, Record(usage, usd, TRUE, response.status))
         /\ ApplyToState(usage, usd)
  /\ phase' = "idle"
  /\ UNCHANGED index

\* The window of the completed task is closed but not moved on.
Mutant_CompleteTask ==
  /\ phase = "idle"
  /\ pending = {}
  /\ Len(completed_tasks_usd) < MaxTasks
  /\ completed_tasks_usd' =
       Append(completed_tasks_usd, LedgerUsd - usd_at_last_task)
  /\ UNCHANGED <<usd_at_last_task, chains, probeVars, phase, declared, index,
                 received, calls, stateVars>>

CompleteTask ==
  /\ phase = "idle"
  /\ pending = {}
  /\ Len(completed_tasks_usd) < MaxTasks
  /\ completed_tasks_usd' =
       Append(completed_tasks_usd, LedgerUsd - usd_at_last_task)
  /\ usd_at_last_task' = LedgerUsd
  /\ UNCHANGED <<chains, probeVars, phase, declared, index, received, calls,
                 stateVars>>

\* The run is over: the graph makes no further call, or the error left it.
Stopped ==
  /\ phase = "raised" \/ (phase = "idle" /\ Len(calls) >= MaxCalls)
  /\ UNCHANGED vars

\* The probe runs unless caching or probing is turned off.
Init ==
  /\ chains \in LoadedConfigs
  /\ pending \in {{}, ProbeTargets(chains)}
  /\ capable = [name \in Endpoints |-> None]
  /\ phase = "idle"
  /\ declared = "light"
  /\ index = 1
  /\ received = None
  /\ calls = <<>>
  /\ completed_tasks_usd = <<>>
  /\ usd_at_last_task = 0
  /\ usd_spent = 0
  /\ tokens_spent = [tier \in Tiers |-> 0]
  /\ tokens_by_model = [model \in Models |-> 0]
  /\ cache_stats = [tier \in Tiers |-> NoStats]

Next ==
  \/ \E name \in pending, first, second \in Responses :
       Probe(name, first, second) \/ ProbeCrashes(name, first, second)
  \/ \E tier \in Tiers : Call(tier)
  \/ EntryUnsupported
  \/ PrecheckRaises
  \/ \E response \in Responses :
       \/ EntryFails(response) \/ EntryRefuses(response)
       \/ EntryCrashes(response) \/ EntryAnswers(response)
  \/ CompleteTask
  \/ Stopped

Spec == Init /\ [][Next]_vars
=============================================================================
