---------------------------- MODULE Router_proofs ----------------------------
(***************************************************************************)
(* Proofs about Router: for every configuration the loader accepts, every  *)
(* price and every number of calls, no call falls back downwards, spend    *)
(* stays within its ceilings when no answer exceeds its projection, the    *)
(* ledger and the run's state agree on every figure, and the cache rate    *)
(* counts what was measured.                                               *)
(***************************************************************************)
EXTENDS RouterProperties, SumTheorems

Calls == [declared : Tiers, billed : Tiers, model : Models,
          position : Nat, escalation : BOOLEAN, usage : Usage,
          usd : Nat \cup {None}, capable : BOOLEAN, ok : BOOLEAN, status : Nat]

(* Usage.__post_init__ never raises: whatever a provider reports, the      *)
(* cached tokens are part of the input, which is what was reported.        *)
THEOREM UsageAddsUp ==
  ASSUME NEW family \in Families, NEW response \in Response
  PROVE  /\ ParseUsage(family, response) \in Usage
         /\ ParseUsage(family, response).read + ParseUsage(family, response).write
              <= ParseUsage(family, response).input
         /\ ParseUsage(family, response).input = response.prompt
         /\ ParseUsage(family, response).output = response.completion
<1>1. /\ response.prompt \in Nat /\ response.completion \in Nat
      /\ response.cached \in Nat /\ response.written \in Nat
  BY DEF Response
<1>2. CASE family = "ollama"
  BY <1>1, <1>2 DEF ParseUsage, ParseOllamaUsage, Usage
<1>3. CASE family # "ollama"
  <2> DEFINE read == Smaller(response.cached, response.prompt)
             write == Smaller(response.written, response.prompt - read)
  <2>1. read \in Nat /\ read <= response.prompt
    BY <1>1 DEF Smaller
  <2>2. response.prompt - read \in Nat
    BY <1>1, <2>1
  <2>3. write \in Nat /\ write <= response.prompt - read
    BY <1>1, <2>2 DEF Smaller
  <2>4. ParseUsage(family, response) =
          [input |-> response.prompt, output |-> response.completion,
           read |-> read, write |-> write]
    BY <1>3 DEF ParseUsage, ParseOpenAIUsage
  <2> HIDE DEF read, write
  <2> QED BY <1>1, <2>1, <2>3, <2>4 DEF Usage
<1> QED BY <1>2, <1>3

(* A failed call is entered with no usage at all.                          *)
LEMMA NoUsageTyped == NoUsage \in Usage
BY DEF NoUsage, Usage

(* The family of the entry a walk stands at.                               *)
LEMMA FamilyTyped ==
  ASSUME NEW model \in Models
  PROVE  FamilyOf(model) \in Families
BY RouterAssumption DEF FamilyOf

(* Every recorded attempt was made at a position of its own tier's chain.  *)
CallsFollowChains ==
  \A i \in 1..Len(calls) :
    /\ calls[i].position \in 1..Len(chains[calls[i].declared])
    /\ calls[i].model = chains[calls[i].declared][calls[i].position].model

(* A walk is always at a position of its declared tier's chain.            *)
Walk ==
  /\ chains \in LoadedConfigs
  /\ declared \in Tiers
  /\ index \in 1..Len(chains[declared])
  /\ calls \in Seq(Calls)
  /\ CallsFollowChains

(* The tiers of an accepted configuration have non-empty chains of entries *)
(* and no fallback a weaker tier serves.                                   *)
LEMMA LoadedChains ==
  ASSUME NEW config \in LoadedConfigs
  PROVE  /\ \A tier \in Tiers : config[tier] \in Seq(Entry) /\ Len(config[tier]) >= 1
         /\ \A tier \in Tiers, other \in Tiers :
              TierRank[other] < TierRank[tier] =>
                \A i \in 2..Len(config[tier]) :
                  ~Serves(config, other, config[tier][i].model)
<1>1. /\ config \in [Tiers -> Chains \ {<<>>}]
      /\ \A tier \in Tiers : Downgrades(config, tier) = {}
  BY DEF LoadedConfigs
<1>2. ASSUME NEW tier \in Tiers
      PROVE  config[tier] \in Seq(Entry) /\ Len(config[tier]) >= 1
  <2>1. config[tier] \in Chains /\ config[tier] # <<>>
    BY <1>1
  <2>2. config[tier] \in Seq(Entry)
    BY <2>1, RouterAssumption
  <2> QED BY <2>1, <2>2
<1>3. ASSUME NEW tier \in Tiers, NEW i \in 2..Len(config[tier]), NEW other \in Tiers,
             TierRank[other] < TierRank[tier]
      PROVE  ~Serves(config, other, config[tier][i].model)
  BY <1>1, <1>3 DEF Downgrades
<1> QED BY <1>2, <1>3

(* The entry the walk stands at is an entry of a known model.              *)
LEMMA CurrentEntry ==
  ASSUME Walk
  PROVE  Model \in Models /\ BilledTier(Model) \in Tiers
<1>1. chains[declared] \in Seq(Entry)
  BY LoadedChains DEF Walk
<1>2. chains[declared][index] \in Entry
  BY <1>1 DEF Walk
<1> QED BY <1>2 DEF Model, Entry, BilledTier, Tiers

(* What an attempt appends to the ledger keeps the walk's invariant.       *)
LEMMA RecordKeepsWalk ==
  ASSUME Walk,
         NEW usage \in Usage, NEW usd \in Nat \cup {None}, NEW ok \in BOOLEAN,
         NEW status \in Nat,
         calls' = Append(calls, Record(usage, usd, ok, status)), chains' = chains
  PROVE  calls' \in Seq(Calls) /\ CallsFollowChains'
<1> DEFINE entry == Record(usage, usd, ok, status)
<1>1. Escalated \in BOOLEAN
  BY DEF Escalated
<1>2. index \in Nat
  <2>1. Len(chains[declared]) \in Nat
    BY LoadedChains DEF Walk
  <2> QED BY <2>1 DEF Walk
<1>3. entry \in Calls
  BY <1>1, <1>2, CurrentEntry DEF Record, Walk, Calls
<1>4. /\ entry.position = index
      /\ entry.declared = declared
      /\ entry.model = Model
  BY DEF Record
<1> HIDE DEF entry
<1>5. calls \in Seq(Calls) /\ calls' = Append(calls, entry)
  BY DEF Walk, entry
<1>6. calls' \in Seq(Calls) /\ Len(calls') = Len(calls) + 1 /\ calls'[Len(calls) + 1] = entry
      /\ \A i \in 1..Len(calls) : calls'[i] = calls[i]
  BY ONLY <1>3, <1>5
<1>7. ASSUME NEW i \in 1..Len(calls')
      PROVE  /\ calls'[i].position \in 1..Len(chains'[calls'[i].declared])
             /\ calls'[i].model = chains'[calls'[i].declared][calls'[i].position].model
  <2>1. CASE i \in 1..Len(calls)
    BY <2>1, <1>6 DEF Walk, CallsFollowChains
  <2>2. CASE i = Len(calls) + 1
    BY <2>2, <1>4, <1>6 DEF Walk, Model
  <2>3. Len(calls) \in Nat
    BY ONLY <1>5
  <2> QED BY <2>1, <2>2, <2>3, <1>6
<1> QED BY <1>6, <1>7 DEF CallsFollowChains

(* Prices are natural numbers, or unknown.                                 *)
LEMMA PriceTyped ==
  ASSUME NEW usage \in Usage, usage.read + usage.write <= usage.input, NEW model \in Models
  PROVE  Price(usage, model) \in Nat \cup {None}
<1>1. /\ InRate[model] \in Nat /\ OutRate[model] \in Nat
      /\ WriteRate[model] \in Nat /\ ReadRate[model] \in Nat
  BY RouterAssumption
<1> DEFINE fresh == usage.input - usage.read - usage.write
<1>2. fresh \in Nat /\ usage.read \in Nat /\ usage.write \in Nat /\ usage.output \in Nat
  BY DEF Usage
<1>3. ASSUME NEW a \in Nat, NEW b \in Nat PROVE a * b \in Nat
  OBVIOUS
<1>4. WriteRate[model] * usage.write \in Nat /\ ReadRate[model] * usage.read \in Nat
  BY <1>1, <1>2, <1>3
<1>5. 20 * fresh + WriteRate[model] * usage.write + ReadRate[model] * usage.read \in Nat
  BY <1>2, <1>4
<1>6. /\ InRate[model] * (20 * fresh + WriteRate[model] * usage.write
                          + ReadRate[model] * usage.read) \in Nat
      /\ 20 * OutRate[model] \in Nat
      /\ (20 * OutRate[model]) * usage.output \in Nat
  BY <1>1, <1>2, <1>3, <1>5
<1> QED BY <1>6 DEF Price

-----------------------------------------------------------------------------
(* The walk's invariant and the two theorems that need no budget.          *)

(* Every step of the router keeps the walk inside its chain.               *)
LEMMA WalkStep ==
  ASSUME Walk, [Next]_vars
  PROVE  Walk'
<1>0. \A tier \in Tiers : Len(chains[tier]) \in Nat /\ Len(chains[tier]) >= 1
  BY LoadedChains DEF Walk
<1>1. ASSUME NEW tier \in Tiers, Call(tier)
      PROVE  Walk'
  BY <1>0, <1>1 DEF Call, Walk, CallsFollowChains
<1>6. ASSUME NEW name \in pending, NEW first \in Responses, NEW second \in Responses,
             Probe(name, first, second) \/ ProbeCrashes(name, first, second)
      PROVE  Walk'
  BY <1>6 DEF Probe, ProbeCrashes, Walk, CallsFollowChains
<1>7. \A response \in Responses : response \in Response /\ response.status \in Nat
  BY RouterAssumption DEF Response
<1>2. CASE EntryUnsupported \/ PrecheckRaises \/ CompleteTask \/ Stopped
           \/ UNCHANGED vars
  BY <1>2 DEF EntryUnsupported, PrecheckRaises, CompleteTask, Stopped, vars, Walk,
              CallsFollowChains
<1>8. ASSUME NEW response \in Responses, EntryCrashes(response)
      PROVE  Walk'
  BY <1>8 DEF EntryCrashes, Sent, Walk, CallsFollowChains
<1>3. ASSUME NEW response \in Responses, EntryFails(response)
      PROVE  Walk'
  <2>1. calls' \in Seq(Calls) /\ CallsFollowChains'
    <3>1. calls' = Append(calls, Record(NoUsage, 0, FALSE, response.status)) /\ chains' = chains
      BY <1>3 DEF EntryFails, Sent
    <3> QED BY <1>7, <3>1, NoUsageTyped, RecordKeepsWalk
  <2>2. index' \in 1..Len(chains[declared])
    BY <1>0, <1>3 DEF EntryFails, Sent, Walk
  <2> QED BY <1>3, <2>1, <2>2 DEF EntryFails, Sent, Walk
<1>4. ASSUME NEW response \in Responses, EntryRefuses(response)
      PROVE  Walk'
  <2>1. calls' = Append(calls, Record(NoUsage, 0, FALSE, response.status)) /\ chains' = chains
    BY <1>4 DEF EntryRefuses, Sent
  <2>2. calls' \in Seq(Calls) /\ CallsFollowChains'
    BY <1>7, <2>1, NoUsageTyped, RecordKeepsWalk
  <2> QED BY <1>4, <2>2 DEF EntryRefuses, Sent, Walk
<1>5. ASSUME NEW response \in Responses, EntryAnswers(response)
      PROVE  Walk'
  <2> DEFINE usage == ParseUsage(FamilyOf(Model), response)
  <2>1. usage \in Usage /\ usage.read + usage.write <= usage.input
    BY <1>7, CurrentEntry, FamilyTyped, UsageAddsUp
  <2>2. /\ calls' = Append(calls, Record(usage, Price(usage, Model), TRUE, response.status))
        /\ chains' = chains
    BY <1>5 DEF EntryAnswers, Sent
  <2> HIDE DEF usage
  <2>3. Price(usage, Model) \in Nat \cup {None}
    BY <2>1, CurrentEntry, PriceTyped
  <2>4. calls' \in Seq(Calls) /\ CallsFollowChains'
    BY <1>7, <2>1, <2>2, <2>3, RecordKeepsWalk
  <2> QED BY <1>5, <2>4 DEF EntryAnswers, Sent, Walk
<1> QED BY <1>1, <1>2, <1>3, <1>4, <1>5, <1>6, <1>8 DEF Next

(* Every run of the router keeps its walks inside the chains.              *)
THEOREM WalkInvariant == Spec => []Walk
<1>1. Init => Walk
  <2> SUFFICES ASSUME Init PROVE Walk
    OBVIOUS
  <2>1. "light" \in Tiers
    BY DEF Tiers
  <2>2. Len(chains["light"]) \in Nat /\ Len(chains["light"]) >= 1
    BY <2>1, LoadedChains DEF Init
  <2>3. calls \in Seq(Calls) /\ Len(calls) = 0
    BY DEF Init
  <2> QED BY <2>1, <2>2, <2>3 DEF Init, Walk, CallsFollowChains
<1>2. Walk /\ [Next]_vars => Walk'
  BY WalkStep
<1> QED BY <1>1, <1>2, PTL DEF Spec

(* Downward fallback is forbidden: for every accepted configuration, no    *)
(* call of a run falls back to a model a weaker tier serves.               *)
THEOREM FallbackNeverDowngrades == Spec => []NoDownwardFallback
<1>1. Walk => NoDownwardFallback
  <2> SUFFICES ASSUME Walk, NEW i \in DOMAIN calls, calls[i].position > 1,
                      NEW tier \in Tiers,
                      TierRank[tier] < TierRank[calls[i].declared]
               PROVE  ~Serves(chains, tier, calls[i].model)
    BY DEF NoDownwardFallback
  <2>1. i \in 1..Len(calls) /\ calls[i] \in Calls
    BY DEF Walk
  <2>2. calls[i].declared \in Tiers /\ calls[i].position \in Nat
    BY <2>1 DEF Calls
  <2>3. /\ calls[i].position \in 1..Len(chains[calls[i].declared])
        /\ calls[i].model = chains[calls[i].declared][calls[i].position].model
    BY <2>1 DEF Walk, CallsFollowChains
  <2>4. Len(chains[calls[i].declared]) \in Nat
    BY <2>2, LoadedChains DEF Walk
  <2>5. calls[i].position \in 2..Len(chains[calls[i].declared])
    BY <2>2, <2>3, <2>4
  <2>6. \A j \in 2..Len(chains[calls[i].declared]) :
          ~Serves(chains, tier, chains[calls[i].declared][j].model)
    BY <2>2, LoadedChains DEF Walk
  <2> QED BY <2>3, <2>5, <2>6
<1> QED BY <1>1, WalkInvariant, PTL

(* No response is both worth another provider and a reason to stop.        *)
LEMMA RetriedOrRefused ==
  ASSUME NEW family, NEW response \in Response, Retryable(family, response)
  PROVE  ~Refused(response)
<1>1. response.status \in Nat
  BY DEF Response
<1>2. \/ response.status = 0 \/ RetryableStatus(response.status)
      \/ response.status \in 1..399
  BY DEF Retryable
<1>3. CASE response.status = 0 \/ response.status \in 1..399
  BY <1>1, <1>3 DEF Refused
<1>4. CASE RetryableStatus(response.status)
  BY <1>4 DEF Refused
<1> QED BY <1>2, <1>3, <1>4

(* Every step keeps it: a defect is entered only by the step that ends the *)
(* run, and after that step nothing is entered.                            *)
LEMMA DefectStep ==
  ASSUME Walk, OnlyDefectsEndTheRun, [Next]_vars
  PROVE  OnlyDefectsEndTheRun'
<1>1. calls \in Seq(Calls) /\ Len(calls) \in Nat
  BY DEF Walk
<1>2. ASSUME phase # "raised"
      PROVE  \A i \in 1..Len(calls) : calls[i].status \notin ConfigDefects
  BY <1>1, <1>2 DEF OnlyDefectsEndTheRun
<1>3. ASSUME UNCHANGED calls, phase # "raised", phase' # "raised"
      PROVE  OnlyDefectsEndTheRun'
  BY <1>1, <1>2, <1>3 DEF OnlyDefectsEndTheRun
<1>4. ASSUME NEW tier \in Tiers, Call(tier)
      PROVE  OnlyDefectsEndTheRun'
  BY <1>3, <1>4 DEF Call
<1>5. CASE CompleteTask
  BY <1>3, <1>5 DEF CompleteTask
<1>6. CASE Stopped \/ UNCHANGED vars
  <2>1. UNCHANGED <<calls, phase, chains, declared, index, received, usd_spent,
                    tokens_spent>>
    BY <1>6 DEF Stopped, vars, stateVars
  <2> QED BY <2>1 DEF OnlyDefectsEndTheRun, WouldBreach, Unsupported, FamilyOf, Model,
        Price, BilledTier, Serves, Last
<1>7. ASSUME NEW name \in pending, NEW first \in Responses, NEW second \in Responses,
             Probe(name, first, second) \/ ProbeCrashes(name, first, second)
      PROVE  OnlyDefectsEndTheRun'
  <2>1. CASE Probe(name, first, second)
    BY <1>3, <2>1 DEF Probe
  <2>2. CASE ProbeCrashes(name, first, second)
    BY <1>1, <1>2, <2>2 DEF ProbeCrashes, OnlyDefectsEndTheRun
  <2> QED BY <1>7, <2>1, <2>2
<1>11. CASE EntryUnsupported
  <2>1. /\ UNCHANGED <<calls, chains, declared, index>> /\ phase = "walking"
        /\ FamilyOf(Model) \notin Wired
    BY <1>11 DEF EntryUnsupported
  <2>2. Unsupported'
    BY <2>1 DEF Unsupported, FamilyOf, Model
  <2> QED BY <1>1, <1>2, <2>1, <2>2 DEF OnlyDefectsEndTheRun
<1>12. ASSUME NEW response \in Responses, EntryCrashes(response)
       PROVE  OnlyDefectsEndTheRun'
  <2>1. phase = "walking" /\ UNCHANGED calls /\ received' = "misshapen"
    BY <1>12 DEF EntryCrashes, Sent, Crashes
  <2> QED BY <1>1, <1>2, <2>1 DEF OnlyDefectsEndTheRun
<1>8. CASE PrecheckRaises
  <2>1. /\ UNCHANGED <<calls, chains, declared, index, usd_spent, tokens_spent>>
        /\ phase = "walking" /\ WouldBreach
    BY <1>8 DEF PrecheckRaises, stateVars
  <2>2. WouldBreach'
    BY <2>1 DEF WouldBreach, Model, Price, BilledTier, Serves
  <2> QED BY <1>1, <1>2, <2>1, <2>2 DEF OnlyDefectsEndTheRun
<1>9. ASSUME NEW response \in Responses, EntryFails(response) \/ EntryAnswers(response)
      PROVE  OnlyDefectsEndTheRun'
  <2>0. response \in Response
    BY RouterAssumption
  <2>1. response.status \in Nat /\ ~Refused(response)
    <3>1. response.status \in Nat
      BY <2>0 DEF Response
    <3>2. CASE EntryFails(response)
      <4>1. Retryable(FamilyOf(Model), response)
        BY <3>2 DEF EntryFails
      <4> QED BY <2>0, <3>1, <4>1, RetriedOrRefused
    <3>3. CASE EntryAnswers(response)
      BY <3>1, <3>3 DEF EntryAnswers, Answered
    <3> QED BY <1>9, <3>2, <3>3
  <2>2. response.status \notin ConfigDefects
    BY <2>1 DEF Refused, RetryableStatus, ConfigDefects
  <2>3. PICK entry : calls' = Append(calls, entry) /\ entry.status = response.status
    BY <1>9 DEF EntryFails, EntryAnswers, Sent, Record
  <2>4. phase # "raised" /\ phase' # "raised"
    BY <1>9 DEF EntryFails, EntryAnswers, Sent
  <2>5. /\ DOMAIN calls' = 1..Len(calls) + 1 /\ calls'[Len(calls) + 1] = entry
        /\ \A i \in 1..Len(calls) : calls'[i] = calls[i]
    BY <1>1, <2>3
  <2>6. \A i \in DOMAIN calls' : calls'[i].status \notin ConfigDefects
    BY <1>1, <1>2, <2>2, <2>3, <2>4, <2>5
  <2> QED BY <2>4, <2>6 DEF OnlyDefectsEndTheRun
<1>10. ASSUME NEW response \in Responses, EntryRefuses(response)
       PROVE  OnlyDefectsEndTheRun'
  <2>1. response.status \in Nat /\ Refused(response)
    BY <1>10, RouterAssumption DEF Response, EntryRefuses
  <2>2. response.status \in ConfigDefects
    BY <2>1 DEF Refused, RetryableStatus, ConfigDefects
  <2>3. PICK entry : calls' = Append(calls, entry) /\ entry.status = response.status
    BY <1>10 DEF EntryRefuses, Sent, Record
  <2>4. phase = "walking" /\ phase' = "raised"
    BY <1>10 DEF EntryRefuses, Sent
  <2>5. /\ DOMAIN calls' = 1..Len(calls) + 1 /\ Len(calls') = Len(calls) + 1
        /\ calls'[Len(calls) + 1] = entry
        /\ \A i \in 1..Len(calls) : calls'[i] = calls[i]
    BY <1>1, <2>3
  <2>6. \A i \in DOMAIN calls' :
          calls'[i].status \in ConfigDefects => i = Len(calls')
    BY <1>1, <1>2, <2>4, <2>5
  <2>7. Last(calls').status \in ConfigDefects
    BY <2>2, <2>3, <2>5 DEF Last
  <2> QED BY <2>4, <2>6, <2>7 DEF OnlyDefectsEndTheRun
<1> QED BY <1>4, <1>5, <1>6, <1>7, <1>8, <1>9, <1>10, <1>11, <1>12 DEF Next

(* For every configuration and everything a provider may send, at the      *)
(* probe too: a walk stops at a configuration defect, and nothing but a    *)
(* defect, a provider without a client, the budget or an object of the     *)
(* wrong shape ends the run.                                               *)
THEOREM DefectsEndTheRun == Spec => []OnlyDefectsEndTheRun
<1>1. Init => OnlyDefectsEndTheRun
  BY DEF Init, OnlyDefectsEndTheRun
<1>2. Walk /\ OnlyDefectsEndTheRun /\ [Next]_vars => OnlyDefectsEndTheRun'
  BY DefectStep
<1> QED BY <1>1, <1>2, WalkInvariant, PTL DEF Spec

-----------------------------------------------------------------------------
(* The ceiling.                                                            *)

(* No answer is longer than the projection, and no cache multiplier above  *)
(* the input rate: what the pre-call check takes for granted.              *)
Frugal ==
  /\ \A response \in Responses :
       response.prompt <= Estimate /\ response.completion <= MaxTokens
  /\ \A model \in Models : WriteRate[model] <= 20 /\ ReadRate[model] <= 20

Spending ==
  /\ usd_spent \in Nat
  /\ tokens_spent \in [Tiers -> Nat]
  /\ SpendWithinLimits

(* Multiplication by a natural number is monotonic.                        *)
LEMMA TimesMonotonic ==
  ASSUME NEW a \in Nat, NEW b \in Nat, NEW rate \in Nat, a <= b
  PROVE  rate * a <= rate * b /\ rate * a \in Nat /\ rate * b \in Nat
<1>1. PICK d \in Nat : b = a + d
  <2>1. b - a \in Nat /\ b = a + (b - a)
    OBVIOUS
  <2> QED BY <2>1
<1>2. rate * b = rate * a + rate * d
  BY <1>1
<1>3. rate * d \in Nat /\ rate * a \in Nat
  OBVIOUS
<1> QED BY <1>2, <1>3

(* A frugal answer costs no more than the pre-call projection, in money    *)
(* and in tokens (Router._precheck_budget against pricing.price_call).     *)
LEMMA FrugalAnswer ==
  ASSUME Frugal, NEW response \in Responses, NEW model \in Models,
         NEW usage, usage = ParseUsage(FamilyOf(model), response)
  PROVE  /\ OrZero(Price(usage, model)) \in Nat
         /\ OrZero(Price(usage, model)) <= OrZero(Price(Projected, model))
         /\ TotalTokens(usage) \in Nat
         /\ TotalTokens(usage) <= TotalTokens(Projected)
<1>1. /\ InRate[model] \in Nat /\ OutRate[model] \in Nat
      /\ WriteRate[model] \in Nat /\ ReadRate[model] \in Nat
      /\ WriteRate[model] <= 20 /\ ReadRate[model] <= 20
  BY RouterAssumption DEF Frugal
<1>2. /\ usage \in Usage /\ usage.read + usage.write <= usage.input
      /\ usage.input <= Estimate /\ usage.output <= MaxTokens
      /\ Estimate \in Nat /\ MaxTokens \in Nat
  <2>1. response \in Response
    BY RouterAssumption
  <2>2. /\ usage \in Usage /\ usage.read + usage.write <= usage.input
        /\ usage.input = response.prompt /\ usage.output = response.completion
    BY <2>1, FamilyTyped, UsageAddsUp
  <2> QED BY <2>2, RouterAssumption DEF Frugal
<1>3. /\ usage.input \in Nat /\ usage.output \in Nat
      /\ usage.read \in Nat /\ usage.write \in Nat
  BY <1>2 DEF Usage
<1>4. /\ Projected \in Usage
      /\ Projected.input = Estimate /\ Projected.output = MaxTokens
      /\ Projected.read = 0 /\ Projected.write = 0
  BY <1>2 DEF Projected, Usage
<1>5. TotalTokens(usage) \in Nat /\ TotalTokens(usage) <= TotalTokens(Projected)
  BY <1>2, <1>3, <1>4 DEF TotalTokens
<1> DEFINE fresh == usage.input - usage.read - usage.write
           weight == 20 * fresh + WriteRate[model] * usage.write
                     + ReadRate[model] * usage.read
<1>6. weight \in Nat /\ weight <= 20 * Estimate
  <2>1. WriteRate[model] * usage.write \in Nat /\ ReadRate[model] * usage.read \in Nat
    BY <1>1, <1>3, TimesMonotonic
  <2>2. usage.write * WriteRate[model] <= usage.write * 20
    BY <1>1, <1>3, TimesMonotonic
  <2>3. usage.read * ReadRate[model] <= usage.read * 20
    BY <1>1, <1>3, TimesMonotonic
  <2>4. /\ usage.write * WriteRate[model] = WriteRate[model] * usage.write
        /\ usage.read * ReadRate[model] = ReadRate[model] * usage.read
    BY <1>1, <1>3
  <2>5. fresh \in Nat
    BY <1>2, <1>3
  <2>6. weight <= 20 * fresh + 20 * usage.write + 20 * usage.read
    BY <1>3, <2>1, <2>2, <2>3, <2>4, <2>5
  <2> QED BY <1>2, <1>3, <2>1, <2>5, <2>6
<1> HIDE DEF weight
<1>7. /\ InRate[model] * weight <= InRate[model] * (20 * Estimate)
      /\ InRate[model] * weight \in Nat
      /\ InRate[model] * (20 * Estimate) \in Nat
  BY <1>1, <1>2, <1>6, TimesMonotonic
<1>8. /\ (20 * OutRate[model]) * usage.output <= (20 * OutRate[model]) * MaxTokens
      /\ (20 * OutRate[model]) * usage.output \in Nat
      /\ (20 * OutRate[model]) * MaxTokens \in Nat
  BY <1>1, <1>2, <1>3, TimesMonotonic
<1>9. model \notin Local \cup Unpriced =>
        Price(usage, model) = InRate[model] * weight + (20 * OutRate[model]) * usage.output
  BY DEF Price, weight
<1>10. model \notin Local \cup Unpriced =>
         Price(Projected, model) = InRate[model] * (20 * Estimate)
                                   + (20 * OutRate[model]) * MaxTokens
  <2>1. 20 * (Estimate - 0 - 0) + WriteRate[model] * 0 + ReadRate[model] * 0
          = 20 * Estimate
    BY <1>1, <1>2
  <2> QED BY <1>4, <2>1 DEF Price
<1>11. None \notin Nat
  BY RouterAssumption
<1>12. CASE model \in Local \cup Unpriced
  BY <1>5, <1>11, <1>12 DEF Price, OrZero
<1>13. CASE model \notin Local \cup Unpriced
  <2> DEFINE paid == Price(usage, model)
             projected == Price(Projected, model)
  <2>1. paid \in Nat /\ projected \in Nat /\ paid <= projected
    BY <1>7, <1>8, <1>9, <1>10, <1>13
  <2> QED BY <1>5, <1>11, <2>1 DEF OrZero
<1> QED BY <1>12, <1>13

(* Every step keeps spend and tokens within their ceilings, if answers are *)
(* frugal: an entry is only called when its projection still fits.         *)
LEMMA SpendingStep ==
  ASSUME Frugal, Walk, Spending, [Next]_vars
  PROVE  Spending'
<1>1. ASSUME NEW tier \in Tiers, Call(tier)
      PROVE  Spending'
  BY <1>1 DEF Call, stateVars, Spending, SpendWithinLimits
<1>2. CASE EntryUnsupported \/ PrecheckRaises \/ CompleteTask \/ Stopped
           \/ UNCHANGED vars
  BY <1>2 DEF EntryUnsupported, PrecheckRaises, CompleteTask, Stopped, vars, stateVars,
     Spending, SpendWithinLimits
<1>4. ASSUME NEW response \in Responses,
             EntryFails(response) \/ EntryRefuses(response) \/ EntryCrashes(response)
      PROVE  Spending'
  BY <1>4 DEF EntryFails, EntryRefuses, EntryCrashes, stateVars, Spending, SpendWithinLimits
<1>5. ASSUME NEW name \in pending, NEW first \in Responses, NEW second \in Responses,
             Probe(name, first, second) \/ ProbeCrashes(name, first, second)
      PROVE  Spending'
  BY <1>5 DEF Probe, ProbeCrashes, stateVars, Spending, SpendWithinLimits
<1>3. ASSUME NEW response \in Responses, EntryAnswers(response)
      PROVE  Spending'
  <2> DEFINE billed == BilledTier(Model)
             usage == ParseUsage(FamilyOf(Model), response)
             paid == OrZero(Price(usage, Model))
             ceiling == OrZero(Price(Projected, Model))
  <2>1. Model \in Models /\ billed \in Tiers
    BY CurrentEntry
  <2>2. /\ paid \in Nat /\ paid <= ceiling
        /\ TotalTokens(usage) \in Nat
        /\ TotalTokens(usage) <= TotalTokens(Projected)
    BY <2>1, FrugalAnswer
  <2>3. /\ ~(usd_spent + ceiling > MaxUsd)
        /\ ~(tokens_spent[billed] + TotalTokens(Projected) > TierCap[billed])
    BY <1>3 DEF EntryAnswers, Sent, WouldBreach
  <2>4. /\ usd_spent' = usd_spent + paid
        /\ tokens_spent' = [tokens_spent EXCEPT ![billed] = @ + TotalTokens(usage)]
    BY <1>3 DEF EntryAnswers, ApplyToState
  <2> HIDE DEF billed, usage, paid, ceiling
  <2>5. /\ usd_spent \in Nat /\ tokens_spent \in [Tiers -> Nat]
        /\ \A tier \in Tiers : tokens_spent[tier] <= TierCap[tier]
        /\ MaxUsd \in Nat /\ TierCap \in [Tiers -> Nat]
    BY RouterAssumption DEF Spending, SpendWithinLimits
  <2>6. ceiling \in Nat /\ TotalTokens(Projected) \in Nat
    <3>1. Estimate \in Nat /\ MaxTokens \in Nat
      BY RouterAssumption
    <3>2. Projected \in Usage /\ Projected.read + Projected.write <= Projected.input
      BY <3>1 DEF Projected, Usage
    <3>3. Price(Projected, Model) \in Nat \cup {None}
      BY <2>1, <3>2, PriceTyped
    <3> QED BY <3>1, <3>3 DEF ceiling, OrZero, TotalTokens, Projected
  <2>7. usd_spent' \in Nat /\ usd_spent' <= MaxUsd
    BY <2>2, <2>3, <2>4, <2>5, <2>6
  <2>8. tokens_spent' \in [Tiers -> Nat]
    BY <2>1, <2>2, <2>4, <2>5
  <2>9. ASSUME NEW tier \in Tiers PROVE tokens_spent'[tier] <= TierCap[tier]
    <3>1. CASE tier = billed
      <4>1. tokens_spent'[tier] = tokens_spent[billed] + TotalTokens(usage)
        BY <2>4, <2>5, <3>1
      <4>2. tokens_spent[billed] \in Nat /\ TierCap[billed] \in Nat
        BY <2>1, <2>5
      <4> QED BY <2>2, <2>3, <2>6, <3>1, <4>1, <4>2
    <3>2. CASE tier # billed
      BY <2>4, <2>5, <3>2
    <3> QED BY <3>1, <3>2
  <2> QED BY <2>7, <2>8, <2>9 DEF Spending, SpendWithinLimits
<1> QED BY <1>1, <1>2, <1>3, <1>4, <1>5 DEF Next

(* CB-3's pre-call check is enough: for every configuration, price and     *)
(* length of run, spend and each tier's tokens stay within their ceilings, *)
(* as long as answers are frugal.                                          *)
THEOREM FrugalSpendIsBounded == Frugal /\ Spec => []SpendWithinLimits
<1> SUFFICES ASSUME Frugal PROVE Spec => []SpendWithinLimits
  OBVIOUS
<1>1. Init => Spending
  BY RouterAssumption DEF Init, Spending, SpendWithinLimits
<1>2. Walk /\ Spending /\ [Next]_vars => Spending'
  BY SpendingStep
<1>3. Spending => SpendWithinLimits
  BY DEF Spending
<1> QED BY <1>1, <1>2, <1>3, WalkInvariant, PTL DEF Spec
-----------------------------------------------------------------------------
(* The split of cached tokens over a prompt's layers.                      *)

(* A layer takes what room it has while tokens are left.                   *)
LEMMA FillWithin ==
  ASSUME NEW amount \in Nat, NEW rooms \in Seq(Nat)
  PROVE  /\ Fill(amount, rooms) \in [1..Len(rooms) -> Nat]
         /\ \A i \in 1..Len(rooms) : Fill(amount, rooms)[i] <= rooms[i]
         /\ Total(Fill(amount, rooms)) <= amount
<1> DEFINE n == Len(rooms)
           fill == Fill(amount, rooms)
           upto(k) == SumFunctionOnSet(rooms, 1..k)
           filled(k) == SumFunctionOnSet(fill, 1..k)
<1>1. n \in Nat /\ rooms \in [1..n -> Nat]
  OBVIOUS
<1>2. ASSUME NEW k \in 0..n
      PROVE  Total(SubSeq(rooms, 1, k)) = upto(k) /\ upto(k) \in Nat
  <2>1. /\ DOMAIN SubSeq(rooms, 1, k) = 1..k
        /\ \A i \in 1..k : SubSeq(rooms, 1, k)[i] = rooms[i]
    BY <1>1
  <2>2. IsFiniteSet(1..k)
    BY <1>1, FS_Interval
  <2>3. \A i \in 1..k : rooms[i] \in Nat
    BY <1>1
  <2> QED BY <2>1, <2>2, <2>3, SumOfSame, SumIsNat DEF Total, SumFunction
<1>3. ASSUME NEW i \in 1..n
      PROVE  fill[i] = IF amount - upto(i - 1) <= 0 THEN 0
                       ELSE Smaller(rooms[i], amount - upto(i - 1))
  <2>1. i - 1 \in 0..n
    BY <1>1
  <2> HIDE DEF upto
  <2> QED BY <1>1, <1>2, <2>1 DEF Fill
<1> HIDE DEF fill
<1>4. ASSUME NEW i \in 1..n
      PROVE  fill[i] \in Nat /\ fill[i] <= rooms[i]
  <2>1. i - 1 \in 0..n /\ rooms[i] \in Nat
    BY <1>1
  <2>2. upto(i - 1) \in Nat
    BY <1>2, <2>1
  <2> HIDE DEF upto
  <2> QED BY <1>3, <2>1, <2>2 DEF Smaller
<1>5. DOMAIN fill = 1..n /\ fill = [i \in 1..n |-> fill[i]]
  BY <1>1 DEF Fill, fill
<1>6. fill \in [1..n -> Nat]
  BY <1>4, <1>5
<1> DEFINE good == {k \in 0..n : filled(k) = Smaller(upto(k), amount)}
<1>7. 0 \in good
  <2>1. 1..0 = {}
    OBVIOUS
  <2> QED BY <1>1, <2>1, SumOfNothing DEF Smaller
<1>8. ASSUME NEW k \in 0..n - 1, k \in good
      PROVE  k + 1 \in good
  <2>1. k \in 0..n /\ k + 1 \in 1..n /\ (k + 1) - 1 = k /\ k + 1 \in 0..n
    BY <1>1
  <2>2. k + 1 \in 1..k + 1 /\ (1..k + 1) \ {k + 1} = 1..k
    BY <2>1
  <2>3. \A i \in 1..k + 1 : rooms[i] \in Nat /\ fill[i] \in Nat
    BY <1>1, <1>4, <2>1
  <2>4. /\ upto(k + 1) = rooms[k + 1] + upto(k)
        /\ filled(k + 1) = fill[k + 1] + filled(k)
    <3>1. IsFiniteSet(1..k + 1)
      BY <2>1, FS_Interval
    <3> DEFINE last == k + 1
               all == 1..last
    <3>2. last \in all
      BY <2>2
    <3>3. all \ {last} = 1..k
      BY <2>2
    <3>4. \A i \in all : rooms[i] \in Nat
      BY <2>3
    <3>5. \A i \in all : fill[i] \in Nat
      BY <2>3
    <3>6. IsFiniteSet(all)
      BY <3>1
    <3> HIDE DEF last, all, fill
    <3>7. SumFunctionOnSet(rooms, all) =
            rooms[last] + SumFunctionOnSet(rooms, all \ {last})
      BY <3>2, <3>4, <3>6, SumOfAny
    <3>8. SumFunctionOnSet(fill, all) =
            fill[last] + SumFunctionOnSet(fill, all \ {last})
      BY <3>2, <3>5, <3>6, SumOfAny
    <3> QED BY <3>3, <3>7, <3>8 DEF last, all
  <2>5. upto(k) \in Nat /\ rooms[k + 1] \in Nat
    BY <1>1, <1>2, <2>1
  <2>6. fill[k + 1] = IF amount - upto(k) <= 0 THEN 0
                      ELSE Smaller(rooms[k + 1], amount - upto(k))
    BY <1>3, <2>1
  <2>7. filled(k) = Smaller(upto(k), amount)
    BY <1>8
  <2> HIDE DEF upto, filled
  <2>8. filled(k + 1) = Smaller(upto(k + 1), amount)
    BY <2>4, <2>5, <2>6, <2>7 DEF Smaller
  <2> QED BY <2>1, <2>8
<1>9. n \in good
  <2> HIDE DEF good
  <2> QED BY <1>1, <1>7, <1>8, Counting
<1>10. Total(fill) = filled(n) /\ upto(n) \in Nat
  BY <1>1, <1>2, <1>5 DEF Total, SumFunction
<1> HIDE DEF upto, filled
<1>11. Total(fill) <= amount
  BY <1>9, <1>10 DEF Smaller
<1> QED BY <1>4, <1>6, <1>11 DEF fill

(* attribute_cache_to_breakpoints: no more hits than the provider reported *)
(* as cached, and every cacheable token once, as hit, write or miss.       *)
THEOREM AttributionAddsUp ==
  ASSUME NEW usage \in Usage, NEW layers \in Seq(Nat)
  PROVE  LET stats == Attribution(usage, layers)
         IN  /\ stats \in [hit : Nat, write : Nat, miss : Nat]
             /\ stats.hit <= usage.read
             /\ stats.write <= usage.write
             /\ EligibleTokens(stats) = Total(layers)
<1> DEFINE n == Len(layers)
           hit == Fill(usage.read, layers)
           left == [i \in DOMAIN layers |-> layers[i] - hit[i]]
           write == Fill(usage.write, left)
           miss == [i \in DOMAIN layers |-> left[i] - write[i]]
           stats == Attribution(usage, layers)
<1>1. usage.read \in Nat /\ usage.write \in Nat
  BY DEF Usage
<1>2. n \in Nat /\ layers \in [1..n -> Nat] /\ DOMAIN layers = 1..n
  OBVIOUS
<1>3. /\ hit \in [1..n -> Nat] /\ \A i \in 1..n : hit[i] <= layers[i]
      /\ Total(hit) <= usage.read
  BY <1>1, FillWithin
<1> HIDE DEF hit
<1>4. left \in Seq(Nat) /\ Len(left) = n /\ left \in [1..n -> Nat]
  <2>1. left \in [1..n -> Nat]
    BY <1>2, <1>3
  <2>2. n \in Nat
    BY <1>2
  <2> HIDE DEF left, n
  <2>3. left \in Seq(Nat)
    BY <2>1, <2>2
  <2>4. DOMAIN left = 1..n
    BY <2>1
  <2> QED BY <2>1, <2>2, <2>3, <2>4
<1>5. /\ write \in [1..n -> Nat] /\ \A i \in 1..n : write[i] <= left[i]
      /\ Total(write) <= usage.write
  <2> HIDE DEF left
  <2> QED BY <1>1, <1>4, FillWithin
<1> HIDE DEF write
<1>6. miss \in [1..n -> Nat]
  <2> HIDE DEF left
  <2> QED BY <1>2, <1>4, <1>5
<1>7. /\ stats.hit = SumFunctionOnSet(hit, 1..n)
      /\ stats.write = SumFunctionOnSet(write, 1..n)
      /\ stats.miss = SumFunctionOnSet(miss, 1..n)
      /\ stats = [hit |-> stats.hit, write |-> stats.write, miss |-> stats.miss]
      /\ Total(layers) = SumFunctionOnSet(layers, 1..n)
      /\ Total(hit) = stats.hit /\ Total(write) = stats.write
  <2>1. stats = [hit |-> Total(hit), write |-> Total(write), miss |-> Total(miss)]
    BY DEF Attribution, hit, write
  <2>2. DOMAIN hit = 1..n /\ DOMAIN write = 1..n /\ DOMAIN miss = 1..n
    BY <1>2, <1>3, <1>5
  <2> HIDE DEF stats, miss
  <2> QED BY <1>2, <2>1, <2>2 DEF Total, SumFunction
<1>8. IsFiniteSet(1..n)
  BY <1>2, FS_Interval
<1>9. /\ SumFunctionOnSet(hit, 1..n) \in Nat
      /\ SumFunctionOnSet(write, 1..n) \in Nat
      /\ SumFunctionOnSet(miss, 1..n) \in Nat
  <2> HIDE DEF miss
  <2> QED BY <1>3, <1>5, <1>6, <1>8, SumIsNat
<1>10. SumFunctionOnSet(left, 1..n) =
         SumFunctionOnSet(write, 1..n) + SumFunctionOnSet(miss, 1..n)
  <2>1. \A i \in 1..n : /\ write[i] \in Nat /\ miss[i] \in Nat
                        /\ left[i] = write[i] + miss[i]
    <3> TAKE i \in 1..n
    <3>1. left[i] \in Nat /\ miss[i] = left[i] - write[i]
      BY <1>2, <1>4
    <3> HIDE DEF left, miss
    <3>2. write[i] \in Nat /\ miss[i] \in Nat
      BY <1>5, <1>6
    <3> QED BY <3>1, <3>2
  <2> HIDE DEF left, miss
  <2> QED BY <1>8, <2>1, SumOfSums
<1>11. SumFunctionOnSet(layers, 1..n) =
         SumFunctionOnSet(hit, 1..n) + SumFunctionOnSet(left, 1..n)
  <2>1. \A i \in 1..n : /\ hit[i] \in Nat /\ left[i] \in Nat
                        /\ layers[i] = hit[i] + left[i]
    <3> TAKE i \in 1..n
    <3>1. left[i] = layers[i] - hit[i]
      BY <1>2
    <3>2. layers[i] \in Nat
      BY <1>2
    <3>3. hit[i] \in Nat
      BY <1>3
    <3> HIDE DEF left, n
    <3>4. left[i] \in Nat
      BY <1>4
    <3> QED BY <3>1, <3>2, <3>3, <3>4
  <2> HIDE DEF left
  <2> QED BY <1>8, <2>1, SumOfSums
<1> HIDE DEF stats, left, miss
<1>12. /\ stats.hit + stats.write + stats.miss = Total(layers)
       /\ stats.hit <= usage.read /\ stats.write <= usage.write
       /\ stats \in [hit : Nat, write : Nat, miss : Nat]
  BY <1>3, <1>5, <1>7, <1>9, <1>10, <1>11
<1> QED BY <1>12 DEF EligibleTokens, stats

-----------------------------------------------------------------------------
(* The ledger's figures, as functions of its entries.                      *)

UsdOf(entries) == [i \in DOMAIN entries |-> OrZero(entries[i].usd)]

BilledTo(tier, entries) ==
  [i \in DOMAIN entries |->
     IF entries[i].billed = tier THEN TotalTokens(entries[i].usage) ELSE 0]

AnsweredBy(model, entries) ==
  [i \in DOMAIN entries |->
     IF entries[i].model = model THEN TotalTokens(entries[i].usage) ELSE 0]

HitsOf(tier, entries) ==
  [i \in DOMAIN entries |->
     IF entries[i].ok /\ entries[i].declared = tier
     THEN Attribution(entries[i].usage, Layers).hit ELSE 0]

\* What an entry adds is a natural number.
LEMMA EntryTyped ==
  ASSUME NEW entry \in Calls
  PROVE  /\ OrZero(entry.usd) \in Nat
         /\ TotalTokens(entry.usage) \in Nat
         /\ Attribution(entry.usage, Layers).hit \in Nat
<1>1. entry.usage \in Usage /\ entry.usd \in Nat \cup {None}
  BY DEF Calls
<1>2. OrZero(entry.usd) \in Nat
  BY <1>1 DEF OrZero
<1>3. TotalTokens(entry.usage) \in Nat
  BY <1>1 DEF TotalTokens, Usage
<1>4. Attribution(entry.usage, Layers).hit \in Nat
  BY <1>1, RouterAssumption, AttributionAddsUp
<1> QED BY <1>2, <1>3, <1>4

\* So is every figure of a ledger.
LEMMA FiguresTyped ==
  ASSUME NEW entries \in Seq(Calls)
  PROVE  /\ UsdOf(entries) \in [1..Len(entries) -> Nat]
         /\ \A tier : BilledTo(tier, entries) \in [1..Len(entries) -> Nat]
         /\ \A model : AnsweredBy(model, entries) \in [1..Len(entries) -> Nat]
         /\ \A tier : HitsOf(tier, entries) \in [1..Len(entries) -> Nat]
<1>1. DOMAIN entries = 1..Len(entries) /\ \A i \in 1..Len(entries) : entries[i] \in Calls
  OBVIOUS
<1>2. \A i \in 1..Len(entries) :
        /\ OrZero(entries[i].usd) \in Nat
        /\ TotalTokens(entries[i].usage) \in Nat
        /\ Attribution(entries[i].usage, Layers).hit \in Nat
  BY <1>1, EntryTyped
<1> QED BY <1>1, <1>2 DEF UsdOf, BilledTo, AnsweredBy, HitsOf

\* One more entry adds its own figures.
LEMMA FiguresGrow ==
  ASSUME NEW entries \in Seq(Calls), NEW entry \in Calls
  PROVE  LET longer == Append(entries, entry)
         IN  /\ SumFunction(UsdOf(longer)) =
                  SumFunction(UsdOf(entries)) + OrZero(entry.usd)
             /\ \A tier : SumFunction(BilledTo(tier, longer)) =
                  SumFunction(BilledTo(tier, entries)) +
                    (IF entry.billed = tier THEN TotalTokens(entry.usage) ELSE 0)
             /\ \A model : SumFunction(AnsweredBy(model, longer)) =
                  SumFunction(AnsweredBy(model, entries)) +
                    (IF entry.model = model THEN TotalTokens(entry.usage) ELSE 0)
             /\ \A tier : SumFunction(HitsOf(tier, longer)) =
                  SumFunction(HitsOf(tier, entries)) +
                    (IF entry.ok /\ entry.declared = tier
                     THEN Attribution(entry.usage, Layers).hit ELSE 0)
<1> DEFINE longer == Append(entries, entry)
           n == Len(entries)
<1>1. /\ n \in Nat /\ longer \in Seq(Calls) /\ Len(longer) = n + 1
      /\ longer[n + 1] = entry /\ \A i \in 1..n : longer[i] = entries[i]
      /\ DOMAIN longer = 1..n + 1 /\ DOMAIN entries = 1..n
  OBVIOUS
<1> HIDE DEF longer, n
<1>2. SumFunction(UsdOf(longer)) = SumFunction(UsdOf(entries)) + OrZero(entry.usd)
  <2>1. UsdOf(entries) \in [1..n -> Nat] /\ UsdOf(longer) \in [1..n + 1 -> Nat]
    BY <1>1, FiguresTyped DEF n
  <2>2. /\ \A i \in 1..n : UsdOf(longer)[i] = UsdOf(entries)[i]
        /\ UsdOf(longer)[n + 1] = OrZero(entry.usd)
    BY <1>1 DEF UsdOf
  <2> QED BY <1>1, <2>1, <2>2, SumOfLonger
<1>3. ASSUME NEW tier
      PROVE  SumFunction(BilledTo(tier, longer)) =
               SumFunction(BilledTo(tier, entries)) +
                 (IF entry.billed = tier THEN TotalTokens(entry.usage) ELSE 0)
  <2>1. /\ BilledTo(tier, entries) \in [1..n -> Nat]
        /\ BilledTo(tier, longer) \in [1..n + 1 -> Nat]
    BY <1>1, FiguresTyped DEF n
  <2>2. /\ \A i \in 1..n : BilledTo(tier, longer)[i] = BilledTo(tier, entries)[i]
        /\ BilledTo(tier, longer)[n + 1] =
             IF entry.billed = tier THEN TotalTokens(entry.usage) ELSE 0
    BY <1>1 DEF BilledTo
  <2> QED BY <1>1, <2>1, <2>2, SumOfLonger
<1>4. ASSUME NEW model
      PROVE  SumFunction(AnsweredBy(model, longer)) =
               SumFunction(AnsweredBy(model, entries)) +
                 (IF entry.model = model THEN TotalTokens(entry.usage) ELSE 0)
  <2>1. /\ AnsweredBy(model, entries) \in [1..n -> Nat]
        /\ AnsweredBy(model, longer) \in [1..n + 1 -> Nat]
    BY <1>1, FiguresTyped DEF n
  <2>2. /\ \A i \in 1..n : AnsweredBy(model, longer)[i] = AnsweredBy(model, entries)[i]
        /\ AnsweredBy(model, longer)[n + 1] =
             IF entry.model = model THEN TotalTokens(entry.usage) ELSE 0
    BY <1>1 DEF AnsweredBy
  <2> QED BY <1>1, <2>1, <2>2, SumOfLonger
<1>5. ASSUME NEW tier
      PROVE  SumFunction(HitsOf(tier, longer)) =
               SumFunction(HitsOf(tier, entries)) +
                 (IF entry.ok /\ entry.declared = tier
                  THEN Attribution(entry.usage, Layers).hit ELSE 0)
  <2>1. /\ HitsOf(tier, entries) \in [1..n -> Nat]
        /\ HitsOf(tier, longer) \in [1..n + 1 -> Nat]
    BY <1>1, FiguresTyped DEF n
  <2>2. /\ \A i \in 1..n : HitsOf(tier, longer)[i] = HitsOf(tier, entries)[i]
        /\ HitsOf(tier, longer)[n + 1] =
             IF entry.ok /\ entry.declared = tier
             THEN Attribution(entry.usage, Layers).hit ELSE 0
    BY <1>1 DEF HitsOf
  <2> QED BY <1>1, <2>1, <2>2, SumOfLonger
<1> QED BY <1>2, <1>3, <1>4, <1>5 DEF longer

-----------------------------------------------------------------------------
(* The two books.                                                          *)

\* Who passed the probe is an aggregator, and so is who is entered as such.
Probed ==
  /\ \A name \in pending : Family[name] = "aggregator"
  /\ \A name \in Endpoints : capable[name] = TRUE => Family[name] = "aggregator"
  /\ \A i \in 1..Len(calls) :
       calls[i].capable => FamilyOf(calls[i].model) = "aggregator"

Books ==
  /\ TypeOK /\ Walk /\ Probed
  /\ BooksAgree /\ FlagshipIsCounted /\ CostsAttributedOnce

\* One count of several goes up.
LEMMA AddedAt ==
  ASSUME NEW D, NEW f \in [D -> Nat], NEW e \in D, NEW more \in Nat, NEW g,
         g = [f EXCEPT ![e] = @ + more]
  PROVE  /\ g \in [D -> Nat]
         /\ \A x \in D : g[x] = f[x] + (IF e = x THEN more ELSE 0)
OBVIOUS

\* What an attempt enters in the ledger, and what it charges the run for it.
Charges(entry) ==
  /\ calls' = Append(calls, entry)
  /\ usd_spent' = usd_spent + OrZero(entry.usd)
  /\ tokens_spent' =
       [tokens_spent EXCEPT ![entry.billed] = @ + TotalTokens(entry.usage)]
  /\ tokens_by_model' =
       [tokens_by_model EXCEPT ![entry.model] = @ + TotalTokens(entry.usage)]
  /\ cache_stats' =
       [cache_stats EXCEPT ![entry.declared] =
          PlusStats(@, IF entry.ok THEN Attribution(entry.usage, Layers) ELSE NoStats)]
  /\ entry.billed = BilledTier(entry.model)
  /\ entry.capable => FamilyOf(entry.model) = "aggregator"
  /\ UNCHANGED <<chains, probeVars, taskVars>>

\* The ledger, by BooksAgree, in the terms above.
LEMMA BooksAre ==
  /\ LedgerUsd = SumFunction(UsdOf(calls))
  /\ BooksAgree <=>
       /\ usd_spent = SumFunction(UsdOf(calls))
       /\ \A tier \in Tiers :
            tokens_spent[tier] = SumFunction(BilledTo(tier, calls))
       /\ \A model \in Models :
            tokens_by_model[model] = SumFunction(AnsweredBy(model, calls))
       /\ \A tier \in Tiers :
            cache_stats[tier].hit = SumFunction(HitsOf(tier, calls))
BY DEF BooksAgree, LedgerUsd, UsdOf, BilledTo, AnsweredBy, HitsOf

\* The same of the next state.
LEMMA BooksWillBe ==
  /\ LedgerUsd' = SumFunction(UsdOf(calls'))
  /\ BooksAgree' <=>
       /\ usd_spent' = SumFunction(UsdOf(calls'))
       /\ \A tier \in Tiers :
            tokens_spent'[tier] = SumFunction(BilledTo(tier, calls'))
       /\ \A model \in Models :
            tokens_by_model'[model] = SumFunction(AnsweredBy(model, calls'))
       /\ \A tier \in Tiers :
            cache_stats'[tier].hit = SumFunction(HitsOf(tier, calls'))
BY DEF BooksAgree, LedgerUsd, UsdOf, BilledTo, AnsweredBy, HitsOf

\* An entry names the tier that is billed for its model.
LEMMA RecordTyped ==
  ASSUME Books, NEW usage \in Usage, NEW usd \in Nat \cup {None}, NEW ok \in BOOLEAN,
         NEW status \in Nat
  PROVE  LET entry == Record(usage, usd, ok, status)
         IN  /\ entry \in Calls
             /\ entry.billed = BilledTier(entry.model)
             /\ entry.capable => FamilyOf(entry.model) = "aggregator"
             /\ entry.billed \in Tiers /\ entry.model \in Models
             /\ entry.declared \in Tiers
<1>1. Model \in Models /\ BilledTier(Model) \in Tiers /\ declared \in Tiers
  BY CurrentEntry DEF Books, Walk
<1>2. index \in Nat /\ Escalated \in BOOLEAN
  <2>1. Len(chains[declared]) \in Nat
    BY LoadedChains DEF Books, Walk
  <2> QED BY <2>1 DEF Books, Walk, Escalated
<1>3. capable[ProviderOf[Model]] = TRUE => FamilyOf(Model) = "aggregator"
  BY <1>1, RouterAssumption DEF Books, Probed, FamilyOf
<1> QED BY <1>1, <1>2, <1>3 DEF Record, Calls

\* Every attempt charges for what it enters; a failed one for nothing.
LEMMA AttemptsCharge ==
  ASSUME Books, NEW response \in Responses,
         EntryFails(response) \/ EntryRefuses(response) \/ EntryAnswers(response)
  PROVE  \E entry \in Calls : Charges(entry)
<1>1. Model \in Models /\ BilledTier(Model) \in Tiers /\ declared \in Tiers
  BY CurrentEntry DEF Books, Walk
<1>3. response \in Response /\ response.status \in Nat
  BY RouterAssumption DEF Response
<1>6. CASE EntryFails(response) \/ EntryRefuses(response)
  <2> DEFINE entry == Record(NoUsage, 0, FALSE, response.status)
  <2>1. calls' = Append(calls, entry) /\ UNCHANGED <<chains, probeVars, taskVars, stateVars>>
    BY <1>6 DEF EntryFails, EntryRefuses, Sent
  <2>2. /\ entry \in Calls
        /\ entry.billed = BilledTier(entry.model)
        /\ entry.capable => FamilyOf(entry.model) = "aggregator"
        /\ entry.billed \in Tiers /\ entry.model \in Models /\ entry.declared \in Tiers
    BY <1>3, RecordTyped, NoUsageTyped
  <2>6. entry.usd = 0 /\ entry.usage = NoUsage /\ entry.ok = FALSE
    BY DEF Record
  <2> HIDE DEF entry
  <2>3. OrZero(entry.usd) = 0 /\ TotalTokens(entry.usage) = 0
    BY <2>6 DEF OrZero, TotalTokens, NoUsage
  <2>4. /\ usd_spent' = usd_spent + 0
        /\ tokens_spent' = [tokens_spent EXCEPT ![entry.billed] = @ + 0]
        /\ tokens_by_model' = [tokens_by_model EXCEPT ![entry.model] = @ + 0]
    <3>1. /\ usd_spent \in Nat /\ tokens_spent \in [Tiers -> Nat]
          /\ tokens_by_model \in [Models -> Nat]
          /\ UNCHANGED <<usd_spent, tokens_spent, tokens_by_model>>
      BY <2>1 DEF Books, TypeOK, stateVars
    <3> QED BY <2>2, <3>1
  <2>5. cache_stats' = [cache_stats EXCEPT ![entry.declared] = PlusStats(@, NoStats)]
    <3>1. cache_stats \in [Tiers -> [hit : Nat, write : Nat, miss : Nat]]
          /\ cache_stats' = cache_stats
      BY <2>1 DEF Books, TypeOK, stateVars
    <3>2. \A stats \in [hit : Nat, write : Nat, miss : Nat] :
            PlusStats(stats, NoStats) = stats
      BY DEF PlusStats, NoStats
    <3> QED BY <2>2, <3>1, <3>2
  <2> QED BY <2>1, <2>2, <2>3, <2>4, <2>5, <2>6 DEF Charges
<1>7. CASE EntryAnswers(response)
  <2> DEFINE usage == ParseUsage(FamilyOf(Model), response)
             usd == Price(usage, Model)
             entry == Record(usage, usd, TRUE, response.status)
  <2>1. /\ calls' = Append(calls, entry) /\ ApplyToState(usage, usd)
        /\ UNCHANGED <<chains, probeVars, taskVars>>
    BY <1>7 DEF EntryAnswers, Sent
  <2>2. usage \in Usage /\ usage.read + usage.write <= usage.input
    BY <1>1, <1>3, FamilyTyped, UsageAddsUp
  <2> HIDE DEF usage
  <2>3. usd \in Nat \cup {None}
    BY <1>1, <2>2, PriceTyped
  <2> HIDE DEF usd
  <2>4. /\ entry \in Calls
        /\ entry.billed = BilledTier(entry.model)
        /\ entry.capable => FamilyOf(entry.model) = "aggregator"
    BY <1>3, <2>2, <2>3, RecordTyped
  <2>5. /\ entry.usd = usd /\ entry.usage = usage /\ entry.ok = TRUE
        /\ entry.billed = BilledTier(Model) /\ entry.model = Model
        /\ entry.declared = declared
    BY DEF Record
  <2> HIDE DEF entry
  <2> QED BY <2>1, <2>4, <2>5 DEF ApplyToState, Charges
<1> QED BY <1>6, <1>7

\* A charged entry keeps the two books together.
LEMMA ChargesKeepBooks ==
  ASSUME Books, NEW entry \in Calls, Charges(entry)
  PROVE  /\ BooksAgree' /\ FlagshipIsCounted' /\ CostsAttributedOnce'
         /\ usd_spent' \in Nat /\ tokens_spent' \in [Tiers -> Nat]
         /\ tokens_by_model' \in [Models -> Nat]
         /\ cache_stats' \in [Tiers -> [hit : Nat, write : Nat, miss : Nat]]
<1> DEFINE tokens == TotalTokens(entry.usage)
           usd == OrZero(entry.usd)
           stats == IF entry.ok THEN Attribution(entry.usage, Layers) ELSE NoStats
<1>1. /\ calls \in Seq(Calls) /\ usd_spent \in Nat
      /\ tokens_spent \in [Tiers -> Nat] /\ tokens_by_model \in [Models -> Nat]
      /\ cache_stats \in [Tiers -> [hit : Nat, write : Nat, miss : Nat]]
  BY DEF Books, TypeOK, Walk
<1>2. /\ tokens \in Nat /\ usd \in Nat
      /\ entry.billed \in Tiers /\ entry.declared \in Tiers /\ entry.model \in Models
      /\ entry.ok \in BOOLEAN /\ entry.usage \in Usage
  BY EntryTyped DEF Calls
<1>3. /\ stats \in [hit : Nat, write : Nat, miss : Nat]
      /\ stats.hit = IF entry.ok THEN Attribution(entry.usage, Layers).hit ELSE 0
  <2>1. Attribution(entry.usage, Layers) \in [hit : Nat, write : Nat, miss : Nat]
    BY <1>2, RouterAssumption, AttributionAddsUp
  <2>2. NoStats \in [hit : Nat, write : Nat, miss : Nat] /\ NoStats.hit = 0
    BY DEF NoStats
  <2> QED BY <2>1, <2>2
<1>4. /\ usd_spent' = usd_spent + usd
      /\ tokens_spent' = [tokens_spent EXCEPT ![entry.billed] = @ + tokens]
      /\ tokens_by_model' = [tokens_by_model EXCEPT ![entry.model] = @ + tokens]
      /\ cache_stats' = [cache_stats EXCEPT ![entry.declared] = PlusStats(@, stats)]
      /\ calls' = Append(calls, entry) /\ chains' = chains
      /\ UNCHANGED <<completed_tasks_usd, usd_at_last_task>>
      /\ entry.billed = BilledTier(entry.model)
  BY DEF Charges, taskVars
<1>5. /\ SumFunction(UsdOf(calls')) = SumFunction(UsdOf(calls)) + usd
      /\ \A tier : SumFunction(BilledTo(tier, calls')) =
           SumFunction(BilledTo(tier, calls)) + (IF entry.billed = tier THEN tokens ELSE 0)
      /\ \A model : SumFunction(AnsweredBy(model, calls')) =
           SumFunction(AnsweredBy(model, calls)) + (IF entry.model = model THEN tokens ELSE 0)
      /\ \A tier : SumFunction(HitsOf(tier, calls')) =
           SumFunction(HitsOf(tier, calls)) +
             (IF entry.declared = tier THEN stats.hit ELSE 0)
  <2>1. \A tier : (IF entry.ok /\ entry.declared = tier
                   THEN Attribution(entry.usage, Layers).hit ELSE 0)
                  = (IF entry.declared = tier THEN stats.hit ELSE 0)
    BY <1>2, <1>3
  <2>2. calls' = Append(calls, entry)
    BY <1>4
  <2>3. SumFunction(UsdOf(calls')) = SumFunction(UsdOf(calls)) + usd
    BY <1>1, <2>2, FiguresGrow
  <2>4. \A tier : SumFunction(BilledTo(tier, calls')) =
          SumFunction(BilledTo(tier, calls)) + (IF entry.billed = tier THEN tokens ELSE 0)
    BY <1>1, <2>2, FiguresGrow
  <2>5. \A model : SumFunction(AnsweredBy(model, calls')) =
          SumFunction(AnsweredBy(model, calls)) + (IF entry.model = model THEN tokens ELSE 0)
    BY <1>1, <2>2, FiguresGrow
  <2>6. \A tier : SumFunction(HitsOf(tier, calls')) =
          SumFunction(HitsOf(tier, calls)) +
            (IF entry.ok /\ entry.declared = tier
             THEN Attribution(entry.usage, Layers).hit ELSE 0)
    BY <1>1, <2>2, FiguresGrow
  <2> HIDE DEF stats, tokens, usd
  <2>7. \A tier : SumFunction(HitsOf(tier, calls')) =
          SumFunction(HitsOf(tier, calls)) + (IF entry.declared = tier THEN stats.hit ELSE 0)
    BY <2>1, <2>6
  <2> QED BY <2>3, <2>4, <2>5, <2>7
<1> HIDE DEF tokens, usd, stats
<1>6. /\ usd_spent' \in Nat /\ tokens_spent' \in [Tiers -> Nat]
      /\ tokens_by_model' \in [Models -> Nat]
  <2>1. usd_spent' \in Nat
    BY <1>1, <1>2, <1>4
  <2>2. /\ entry.billed \in Tiers /\ tokens_spent \in [Tiers -> Nat] /\ tokens \in Nat
        /\ entry.model \in Models /\ tokens_by_model \in [Models -> Nat]
    BY <1>1, <1>2
  <2>3. /\ tokens_spent' = [tokens_spent EXCEPT ![entry.billed] = @ + tokens]
        /\ tokens_by_model' = [tokens_by_model EXCEPT ![entry.model] = @ + tokens]
    BY <1>4
  <2>4. tokens_spent' \in [Tiers -> Nat]
    BY <2>2, <2>3, AddedAt
  <2>5. tokens_by_model' \in [Models -> Nat]
    BY <2>2, <2>3, AddedAt
  <2> QED BY <2>1, <2>4, <2>5
<1>7. /\ cache_stats' \in [Tiers -> [hit : Nat, write : Nat, miss : Nat]]
      /\ \A tier \in Tiers : cache_stats'[tier].hit =
           cache_stats[tier].hit + (IF entry.declared = tier THEN stats.hit ELSE 0)
  <2>1. \A old \in [hit : Nat, write : Nat, miss : Nat] :
          /\ PlusStats(old, stats) \in [hit : Nat, write : Nat, miss : Nat]
          /\ PlusStats(old, stats).hit = old.hit + stats.hit
    BY <1>3 DEF PlusStats
  <2>2. \A tier \in Tiers : cache_stats[tier].hit \in Nat
    BY <1>1
  <2> DEFINE figures == [hit : Nat, write : Nat, miss : Nat]
             now == PlusStats(cache_stats[entry.declared], stats)
  <2>3. now \in figures /\ now.hit = cache_stats[entry.declared].hit + stats.hit
    BY <1>1, <1>2, <2>1
  <2>4. cache_stats \in [Tiers -> figures] /\ entry.declared \in Tiers
    BY <1>1, <1>2
  <2>5. cache_stats' = [cache_stats EXCEPT ![entry.declared] = now]
    BY <1>4
  <2> HIDE DEF figures, now
  <2>6. cache_stats' \in [Tiers -> figures]
    BY <2>3, <2>4, <2>5
  <2>7. \A tier \in Tiers :
          cache_stats'[tier] = IF entry.declared = tier THEN now ELSE cache_stats[tier]
    BY <2>4, <2>5
  <2>8. \A tier \in Tiers : cache_stats'[tier].hit =
          cache_stats[tier].hit + (IF entry.declared = tier THEN stats.hit ELSE 0)
    BY <2>2, <2>3, <2>7
  <2> QED BY <2>6, <2>8 DEF figures
<1>8. BooksAgree'
  <2>1. /\ usd_spent = SumFunction(UsdOf(calls))
        /\ \A tier \in Tiers : tokens_spent[tier] = SumFunction(BilledTo(tier, calls))
        /\ \A model \in Models :
             tokens_by_model[model] = SumFunction(AnsweredBy(model, calls))
        /\ \A tier \in Tiers : cache_stats[tier].hit = SumFunction(HitsOf(tier, calls))
    BY BooksAre DEF Books
  <2>2. \A tier \in Tiers : tokens_spent'[tier] =
          tokens_spent[tier] + (IF entry.billed = tier THEN tokens ELSE 0)
    <3>1. /\ entry.billed \in Tiers /\ tokens_spent \in [Tiers -> Nat] /\ tokens \in Nat
          /\ tokens_spent' = [tokens_spent EXCEPT ![entry.billed] = @ + tokens]
      BY <1>1, <1>2, <1>4
    <3> QED BY <3>1, AddedAt
  <2>3. \A model \in Models : tokens_by_model'[model] =
          tokens_by_model[model] + (IF entry.model = model THEN tokens ELSE 0)
    <3>1. /\ entry.model \in Models /\ tokens_by_model \in [Models -> Nat] /\ tokens \in Nat
          /\ tokens_by_model' = [tokens_by_model EXCEPT ![entry.model] = @ + tokens]
      BY <1>1, <1>2, <1>4
    <3> QED BY <3>1, AddedAt
  <2>4. /\ usd_spent' = SumFunction(UsdOf(calls'))
        /\ \A tier \in Tiers : tokens_spent'[tier] = SumFunction(BilledTo(tier, calls'))
        /\ \A model \in Models :
             tokens_by_model'[model] = SumFunction(AnsweredBy(model, calls'))
        /\ \A tier \in Tiers :
             cache_stats'[tier].hit = SumFunction(HitsOf(tier, calls'))
    BY <1>4, <1>5, <1>7, <2>1, <2>2, <2>3
  <2> QED BY <2>4, BooksWillBe
<1>9. FlagshipIsCounted'
  <2> DEFINE served == {model \in Models : Serves(chains, "flagship", model)}
  <2>1. IsFiniteSet(served)
    BY RouterAssumption, FS_Subset
  <2>2. entry.model \in served <=> entry.billed = "flagship"
    BY <1>2, <1>4 DEF BilledTier
  <2> HIDE DEF served
  <2>3. SumFunctionOnSet(tokens_by_model', served) =
          SumFunctionOnSet(tokens_by_model, served)
            + (IF entry.model \in served THEN tokens ELSE 0)
    <3>1. served \in SUBSET Models
      BY DEF served
    <3>2. tokens_by_model \in [Models -> Nat] /\ entry.model \in Models /\ tokens \in Nat
      BY <1>1, <1>2
    <3>3. tokens_by_model' = [tokens_by_model EXCEPT ![entry.model] = @ + tokens]
      BY <1>4
    <3>4. \A model \in Models : /\ tokens_by_model[model] \in Nat
                                /\ tokens_by_model'[model] = tokens_by_model[model]
                                     + (IF model = entry.model THEN tokens ELSE 0)
      BY <3>2, <3>3
    <3>5. \A model \in served : /\ tokens_by_model[model] \in Nat
                                /\ tokens_by_model'[model] = tokens_by_model[model]
                                     + (IF model = entry.model THEN tokens ELSE 0)
      BY <3>1, <3>4
    <3> DEFINE before == tokens_by_model
               after == tokens_by_model'
               model == entry.model
    <3>6. model \in Models /\ tokens \in Nat
      BY <3>2
    <3>7. \A x \in served : /\ before[x] \in Nat
                            /\ after[x] = before[x] + (IF x = model THEN tokens ELSE 0)
      BY <3>5
    <3> HIDE DEF before, after, model, tokens
    <3>8. SumFunctionOnSet(after, served) =
            SumFunctionOnSet(before, served) + (IF model \in served THEN tokens ELSE 0)
      BY <2>1, <3>1, <3>6, <3>7, SumOfUpdated
    <3> QED BY <3>8 DEF before, after, model
  <2>4. "flagship" \in Tiers
    BY DEF Tiers
  <2>5. tokens_spent'["flagship"] =
          tokens_spent["flagship"] + (IF entry.billed = "flagship" THEN tokens ELSE 0)
    <3>1. /\ entry.billed \in Tiers /\ tokens_spent \in [Tiers -> Nat] /\ tokens \in Nat
          /\ tokens_spent' = [tokens_spent EXCEPT ![entry.billed] = @ + tokens]
      BY <1>1, <1>2, <1>4
    <3> QED BY <2>4, <3>1, AddedAt
  <2>6. tokens_spent["flagship"] = SumFunctionOnSet(tokens_by_model, served)
    BY DEF Books, FlagshipIsCounted, served
  <2>7. tokens_spent'["flagship"] = SumFunctionOnSet(tokens_by_model', served)
    BY <2>2, <2>3, <2>5, <2>6
  <2> QED BY <1>4, <2>7 DEF FlagshipIsCounted, served, Serves
<1>10. CostsAttributedOnce'
  <2>1. LedgerUsd' = LedgerUsd + usd
    BY <1>5, BooksAre, BooksWillBe
  <2>2. LedgerUsd = usd_spent
    BY BooksAre DEF Books
  <2>3. usd_at_last_task \in Nat
    BY DEF Books, TypeOK
  <2> QED BY <1>1, <1>2, <1>4, <2>1, <2>2, <2>3 DEF Books, CostsAttributedOnce
<1> QED BY <1>6, <1>7, <1>8, <1>9, <1>10

\* Nothing is entered before the first call.
LEMMA BooksInit == Init => Books
<1> SUFFICES ASSUME Init PROVE Books
  OBVIOUS
<1>1. "light" \in Tiers /\ "flagship" \in Tiers
  BY DEF Tiers
<1>2. Len(chains["light"]) \in Nat /\ Len(chains["light"]) >= 1
  BY <1>1, LoadedChains DEF Init
<1>3. calls = <<>> /\ calls \in Seq(Calls) /\ Len(calls) = 0 /\ DOMAIN calls = 1..0
  BY DEF Init
<1>4. Walk
  BY <1>1, <1>2, <1>3 DEF Init, Walk, CallsFollowChains
<1>5. NoStats \in [hit : Nat, write : Nat, miss : Nat] /\ NoStats.hit = 0
  BY DEF NoStats
<1>6. \A name \in ProbeTargets(chains) : name \in Endpoints /\ Family[name] = "aggregator"
  BY RouterAssumption DEF ProbeTargets
<1>7. Probed
  <2>1. None # TRUE
    BY RouterAssumption
  <2>2. \A name \in Endpoints : capable[name] # TRUE
    <3>1. \A name \in Endpoints : capable[name] = None
      BY DEF Init
    <3> QED BY <2>1, <3>1, Zenon
  <2>3. \A name \in pending : Family[name] = "aggregator"
    BY <1>6 DEF Init
  <2>4. \A i \in 1..Len(calls) : FALSE
    BY <1>3
  <2> QED BY <2>2, <2>3, <2>4 DEF Probed
<1>8. TypeOK
  <2>1. /\ pending \subseteq Endpoints
        /\ capable \in [Endpoints -> BOOLEAN \cup {None}]
    BY <1>6 DEF Init
  <2>2. cache_stats \in [Tiers -> [hit : Nat, write : Nat, miss : Nat]]
    BY <1>5 DEF Init
  <2>3. completed_tasks_usd \in Seq(Nat)
    BY DEF Init
  <2> QED BY <1>1, <1>2, <1>3, <2>1, <2>2, <2>3 DEF Init, TypeOK, Calls
<1>9. 1..0 = {}
  OBVIOUS
<1>10. /\ SumFunction(UsdOf(calls)) = 0
       /\ \A tier : SumFunction(BilledTo(tier, calls)) = 0
       /\ \A model : SumFunction(AnsweredBy(model, calls)) = 0
       /\ \A tier : SumFunction(HitsOf(tier, calls)) = 0
  <2>1. \A f : DOMAIN f = 1..0 => SumFunction(f) = 0
    BY <1>9, SumOfNothing DEF SumFunction
  <2>2. /\ DOMAIN UsdOf(calls) = 1..0
        /\ \A tier : DOMAIN BilledTo(tier, calls) = 1..0
        /\ \A model : DOMAIN AnsweredBy(model, calls) = 1..0
        /\ \A tier : DOMAIN HitsOf(tier, calls) = 1..0
    BY <1>3 DEF UsdOf, BilledTo, AnsweredBy, HitsOf
  <2> QED BY <2>1, <2>2
<1>11. BooksAgree
  BY <1>5, <1>10, BooksAre DEF Init
<1>12. FlagshipIsCounted
  <2> DEFINE served == {model \in Models : Serves(chains, "flagship", model)}
  <2>1. IsFiniteSet(served)
    BY RouterAssumption, FS_Subset
  <2>2. \A model \in served : tokens_by_model[model] = 0
    BY DEF Init
  <2> HIDE DEF served
  <2>3. SumFunctionOnSet(tokens_by_model, served) = Cardinality(served) * 0
    BY <2>1, <2>2, SumOfConstant
  <2>4. SumFunctionOnSet(tokens_by_model, served) = 0
    BY <2>1, <2>3, FS_CardinalityType
  <2> QED BY <1>1, <2>4 DEF Init, FlagshipIsCounted, served
<1>13. CostsAttributedOnce
  <2>1. completed_tasks_usd = <<>> /\ DOMAIN completed_tasks_usd = 1..0
    BY DEF Init
  <2>2. SumFunction(completed_tasks_usd) = 0
    BY <1>9, <2>1, SumOfNothing DEF SumFunction
  <2>3. LedgerUsd = 0
    BY <1>10, BooksAre
  <2> QED BY <2>2, <2>3 DEF Init, CostsAttributedOnce
<1> QED BY <1>4, <1>7, <1>8, <1>11, <1>12, <1>13 DEF Books

\* A step that neither enters nor charges leaves the books as they are.
LEMMA BooksStay ==
  ASSUME Books, UNCHANGED <<chains, calls, taskVars, stateVars>>
  PROVE  BooksAgree' /\ FlagshipIsCounted' /\ CostsAttributedOnce'
<1>1. UNCHANGED <<chains, calls, completed_tasks_usd, usd_at_last_task, usd_spent,
                  tokens_spent, tokens_by_model, cache_stats>>
  BY DEF taskVars, stateVars
<1>2. BooksAgree'
  <2>1. calls' = calls /\ usd_spent' = usd_spent /\ tokens_spent' = tokens_spent
        /\ tokens_by_model' = tokens_by_model /\ cache_stats' = cache_stats
    BY <1>1
  <2> QED BY <2>1, BooksAre, BooksWillBe DEF Books
<1>3. FlagshipIsCounted'
  BY <1>1 DEF Books, FlagshipIsCounted, Serves
<1>4. CostsAttributedOnce'
  <2>1. LedgerUsd' = LedgerUsd
    BY <1>1, BooksAre, BooksWillBe
  <2> QED BY <1>1, <2>1 DEF Books, CostsAttributedOnce
<1> QED BY <1>2, <1>3, <1>4

\* A completed task takes what was spent since the last one, and no more.
LEMMA CompletedTasksAddUp ==
  ASSUME Books, CompleteTask
  PROVE  /\ completed_tasks_usd' \in Seq(Nat) /\ usd_at_last_task' \in Nat
         /\ BooksAgree' /\ FlagshipIsCounted' /\ CostsAttributedOnce'
<1> DEFINE cost == LedgerUsd - usd_at_last_task
           n == Len(completed_tasks_usd)
<1>1. /\ completed_tasks_usd \in Seq(Nat) /\ usd_at_last_task \in Nat /\ usd_spent \in Nat
      /\ LedgerUsd = usd_spent
      /\ usd_at_last_task <= LedgerUsd
      /\ SumFunction(completed_tasks_usd) = usd_at_last_task
  BY BooksAre DEF Books, TypeOK, CostsAttributedOnce
<1>2. /\ completed_tasks_usd' = Append(completed_tasks_usd, cost)
      /\ usd_at_last_task' = LedgerUsd
      /\ UNCHANGED <<chains, calls, usd_spent, tokens_spent, tokens_by_model, cache_stats>>
  BY DEF CompleteTask, stateVars
<1>3. cost \in Nat /\ LedgerUsd \in Nat
  BY <1>1
<1>4. /\ completed_tasks_usd' \in Seq(Nat)
      /\ n \in Nat
      /\ completed_tasks_usd \in [1..n -> Nat]
      /\ completed_tasks_usd' \in [1..n + 1 -> Nat]
      /\ \A i \in 1..n : completed_tasks_usd'[i] = completed_tasks_usd[i]
      /\ completed_tasks_usd'[n + 1] = cost
  <2> HIDE DEF cost
  <2>1. n \in Nat /\ completed_tasks_usd \in [1..n -> Nat]
    BY <1>1
  <2>2. completed_tasks_usd' \in Seq(Nat) /\ Len(completed_tasks_usd') = n + 1
    BY <1>1, <1>2, <1>3
  <2>3. completed_tasks_usd' \in [1..n + 1 -> Nat]
    BY <2>2
  <2> QED BY <1>1, <1>2, <1>3, <2>1, <2>2, <2>3
<1>5. SumFunction(completed_tasks_usd') = SumFunction(completed_tasks_usd) + cost
  <2> HIDE DEF cost, n
  <2> QED BY <1>4, SumOfLonger
<1>6. LedgerUsd' = LedgerUsd
  BY <1>2, BooksAre, BooksWillBe
<1>7. CostsAttributedOnce'
  BY <1>1, <1>2, <1>3, <1>5, <1>6 DEF CostsAttributedOnce
<1>8. BooksAgree'
  <2>1. calls' = calls /\ usd_spent' = usd_spent /\ tokens_spent' = tokens_spent
        /\ tokens_by_model' = tokens_by_model /\ cache_stats' = cache_stats
    BY <1>2
  <2> QED BY <2>1, BooksAre, BooksWillBe DEF Books
<1>9. FlagshipIsCounted'
  BY <1>2 DEF Books, FlagshipIsCounted, Serves
<1> QED BY <1>2, <1>3, <1>4, <1>7, <1>8, <1>9

\* Every step keeps the books together.
LEMMA BooksStep ==
  ASSUME Books, [Next]_vars
  PROVE  Books'
<1>1. Walk'
  BY WalkStep DEF Books
<1>2. /\ calls' \in Seq(Calls) /\ chains' \in LoadedConfigs /\ declared' \in Tiers
      /\ index' \in 1..Len(chains'[declared'])
  BY <1>1 DEF Walk
<1>3. phase' \in {"idle", "walking", "raised"}
  <2>1. CASE \E name \in pending, first, second \in Responses :
               Probe(name, first, second) \/ ProbeCrashes(name, first, second)
    BY <2>1 DEF Probe, ProbeCrashes, Books, TypeOK
  <2>2. CASE \E response \in Responses :
               \/ EntryFails(response) \/ EntryRefuses(response)
               \/ EntryCrashes(response) \/ EntryAnswers(response)
    BY <2>2 DEF EntryFails, EntryRefuses, EntryCrashes, EntryAnswers, Sent, Books, TypeOK
  <2> QED BY <2>1, <2>2 DEF Next, Call, EntryUnsupported, PrecheckRaises, CompleteTask,
        Stopped, vars, Books, TypeOK
<1>12. received' \in Bodies \cup {None}
  <2>1. \A response \in Responses : response.body \in Bodies
    BY RouterAssumption DEF Response
  <2>2. CASE \E name \in pending, first, second \in Responses :
               Probe(name, first, second) \/ ProbeCrashes(name, first, second)
    BY <2>1, <2>2 DEF Probe, ProbeCrashes, Bodies
  <2>3. CASE \E response \in Responses :
               \/ EntryFails(response) \/ EntryRefuses(response)
               \/ EntryCrashes(response) \/ EntryAnswers(response)
    BY <2>1, <2>3 DEF EntryFails, EntryRefuses, EntryCrashes, EntryAnswers, Sent
  <2> QED BY <2>2, <2>3 DEF Next, Call, EntryUnsupported, PrecheckRaises, CompleteTask,
        Stopped, vars, Books, TypeOK
<1>4. ASSUME pending' \subseteq pending, capable' \in [Endpoints -> BOOLEAN \cup {None}],
             completed_tasks_usd' \in Seq(Nat), usd_at_last_task' \in Nat,
             usd_spent' \in Nat, tokens_spent' \in [Tiers -> Nat],
             tokens_by_model' \in [Models -> Nat],
             cache_stats' \in [Tiers -> [hit : Nat, write : Nat, miss : Nat]]
      PROVE  TypeOK'
  <2>1. pending' \subseteq Endpoints
    BY <1>4 DEF Books, TypeOK
  <2> QED BY <1>2, <1>3, <1>4, <1>12, <2>1 DEF TypeOK, Calls
<1>5. /\ capable \in [Endpoints -> BOOLEAN \cup {None}]
      /\ completed_tasks_usd \in Seq(Nat) /\ usd_at_last_task \in Nat
      /\ usd_spent \in Nat /\ tokens_spent \in [Tiers -> Nat]
      /\ tokens_by_model \in [Models -> Nat]
      /\ cache_stats \in [Tiers -> [hit : Nat, write : Nat, miss : Nat]]
      /\ calls \in Seq(Calls)
  BY DEF Books, TypeOK, Walk
<1>6. ASSUME UNCHANGED <<chains, calls, probeVars, taskVars, stateVars>>
      PROVE  Books'
  <2>1. BooksAgree' /\ FlagshipIsCounted' /\ CostsAttributedOnce'
    BY <1>6, BooksStay
  <2>2. TypeOK'
    BY <1>4, <1>5, <1>6 DEF probeVars, taskVars, stateVars
  <2>3. Probed'
    BY <1>6 DEF Books, Probed, probeVars
  <2> QED BY <1>1, <2>1, <2>2, <2>3 DEF Books
<1>7. ASSUME NEW tier \in Tiers, Call(tier)
      PROVE  Books'
  BY <1>6, <1>7 DEF Call
<1>8. CASE EntryUnsupported \/ PrecheckRaises \/ Stopped \/ UNCHANGED vars
  BY <1>6, <1>8 DEF EntryUnsupported, PrecheckRaises, Stopped, vars
<1>13. ASSUME NEW response \in Responses, EntryCrashes(response)
       PROVE  Books'
  BY <1>6, <1>13 DEF EntryCrashes, Sent
<1>14. ASSUME NEW name \in pending, NEW first \in Responses, NEW second \in Responses,
              ProbeCrashes(name, first, second)
       PROVE  Books'
  BY <1>6, <1>14 DEF ProbeCrashes
<1>9. ASSUME NEW name \in pending, NEW first \in Responses, NEW second \in Responses,
             Probe(name, first, second)
      PROVE  Books'
  <2>1. BooksAgree' /\ FlagshipIsCounted' /\ CostsAttributedOnce'
    BY <1>9, BooksStay DEF Probe
  <2> DEFINE found == /\ Answered(Family[name], first)
                      /\ Answered(Family[name], second)
                      /\ ParseUsage(Family[name], second).read > 0
  <2>2. /\ capable' = [capable EXCEPT ![name] = found]
        /\ pending' = pending \ {name} /\ calls' = calls
        /\ UNCHANGED <<taskVars, stateVars>>
    BY <1>9 DEF Probe
  <2>3. found \in BOOLEAN
    OBVIOUS
  <2> HIDE DEF found
  <2>4. capable' \in [Endpoints -> BOOLEAN \cup {None}]
    BY <1>5, <2>2, <2>3
  <2>5. TypeOK'
    BY <1>4, <1>5, <2>2, <2>4 DEF taskVars, stateVars
  <2>6. Probed'
    <3>1. Family[name] = "aggregator"
      BY DEF Books, Probed
    <3>2. \A other \in Endpoints : other # name => capable'[other] = capable[other]
      BY <1>5, <2>2
    <3>3. \A other \in Endpoints : capable'[other] = TRUE => Family[other] = "aggregator"
      BY <3>1, <3>2 DEF Books, Probed
    <3> QED BY <2>2, <3>3 DEF Books, Probed
  <2> QED BY <1>1, <2>1, <2>5, <2>6 DEF Books
<1>10. CASE CompleteTask
  <2>1. UNCHANGED <<chains, calls, probeVars, stateVars>>
    BY <1>10 DEF CompleteTask
  <2>2. /\ completed_tasks_usd' \in Seq(Nat) /\ usd_at_last_task' \in Nat
        /\ BooksAgree' /\ FlagshipIsCounted' /\ CostsAttributedOnce'
    BY <1>10, CompletedTasksAddUp
  <2>3. TypeOK'
    BY <1>4, <1>5, <2>1, <2>2 DEF probeVars, stateVars
  <2>4. Probed'
    BY <2>1 DEF Books, Probed, probeVars
  <2> QED BY <1>1, <2>2, <2>3, <2>4 DEF Books
<1>11. ASSUME NEW response \in Responses,
              EntryFails(response) \/ EntryRefuses(response) \/ EntryAnswers(response)
       PROVE  Books'
  <2>1. PICK entry \in Calls : Charges(entry)
    BY <1>11, AttemptsCharge
  <2>2. /\ BooksAgree' /\ FlagshipIsCounted' /\ CostsAttributedOnce'
        /\ usd_spent' \in Nat /\ tokens_spent' \in [Tiers -> Nat]
        /\ tokens_by_model' \in [Models -> Nat]
        /\ cache_stats' \in [Tiers -> [hit : Nat, write : Nat, miss : Nat]]
    BY <2>1, ChargesKeepBooks
  <2>3. /\ calls' = Append(calls, entry)
        /\ entry.capable => FamilyOf(entry.model) = "aggregator"
        /\ UNCHANGED <<pending, capable, completed_tasks_usd, usd_at_last_task>>
    BY <2>1 DEF Charges, probeVars, taskVars
  <2>4. TypeOK'
    BY <1>4, <1>5, <2>2, <2>3
  <2>5. Probed'
    <3>1. \A i \in 1..Len(calls') :
            calls'[i].capable => FamilyOf(calls'[i].model) = "aggregator"
      <4>1. /\ Len(calls') = Len(calls) + 1 /\ Len(calls) \in Nat
            /\ \A i \in 1..Len(calls) : calls'[i] = calls[i]
            /\ calls'[Len(calls) + 1] = entry
        BY <1>5, <2>3
      <4>2. \A i \in 1..Len(calls) :
              calls[i].capable => FamilyOf(calls[i].model) = "aggregator"
        BY DEF Books, Probed
      <4> QED BY <2>3, <4>1, <4>2
    <3> QED BY <2>3, <3>1 DEF Books, Probed, FamilyOf
  <2> QED BY <1>1, <2>2, <2>4, <2>5 DEF Books
<1> QED BY <1>7, <1>8, <1>9, <1>10, <1>11, <1>13, <1>14 DEF Next

\* On every step of every run.
LEMMA BooksInvariant == Spec => []Books
BY BooksInit, BooksStep, PTL DEF Spec

(* Every figure of the router stays in its range.                          *)
THEOREM RouterTypes == Spec => []TypeOK
<1>1. Books => TypeOK
  BY DEF Books
<1> QED BY <1>1, BooksInvariant, PTL

(* CostLedger.record and _apply_to_state: what the run's state enforces is *)
(* what the ledger reports, after any number of calls, fallbacks and       *)
(* failures.                                                               *)
THEOREM TheBooksAgree == Spec => []BooksAgree
<1>1. Books => BooksAgree
  BY DEF Books
<1> QED BY <1>1, BooksInvariant, PTL

(* M1.1: what is billed to flagship is exactly what the flagship chain's   *)
(* models served, whichever tier asked for them.                           *)
THEOREM EveryFlagshipTokenCounts == Spec => []FlagshipIsCounted
<1>1. Books => FlagshipIsCounted
  BY DEF Books
<1> QED BY <1>1, BooksInvariant, PTL

(* M1.3, complete_task: the costs of completed tasks add up to what was    *)
(* spent until the last of them, no call's price twice.                    *)
THEOREM TaskCostsAddUp == Spec => []CostsAttributedOnce
<1>1. Books => CostsAttributedOnce
  BY DEF Books
<1> QED BY <1>1, BooksInvariant, PTL

(* M1.4: the cache rate counts no more hits than providers that passed the *)
(* probe reported as cached, over every cacheable token of their calls.    *)
THEOREM CacheRateWasMeasured == Spec => []CacheRateIsMeasured
<1>1. Books => CacheRateIsMeasured
  <2> SUFFICES ASSUME Books PROVE CacheRateIsMeasured
    OBVIOUS
  <2> DEFINE hits == [i \in Measured |-> Attribution(calls[i].usage, Layers).hit]
             reads == [i \in Measured |-> calls[i].usage.read]
             eligible ==
               [i \in Measured |-> EligibleTokens(Attribution(calls[i].usage, Layers))]
  <2>1. /\ calls \in Seq(Calls) /\ Len(calls) \in Nat /\ DOMAIN calls = 1..Len(calls)
    BY DEF Books, Walk
  <2>2. IsFiniteSet(Measured)
    <3>1. IsFiniteSet(1..Len(calls))
      BY <2>1, FS_Interval
    <3> QED BY <2>1, <3>1, FS_Subset DEF Measured
  <2>3. \A i \in Measured : /\ i \in 1..Len(calls)
                            /\ calls[i].capable
                            /\ calls[i].usage \in Usage
    <3> TAKE i \in Measured
    <3>1. i \in DOMAIN calls /\ calls[i].capable
      BY DEF Measured
    <3>2. i \in 1..Len(calls) /\ calls[i] \in Calls
      BY <2>1, <3>1
    <3> QED BY <3>1, <3>2 DEF Calls
  <2>4. \A i \in Measured : FamilyOf(calls[i].model) = "aggregator"
    BY <2>3 DEF Books, Probed
  <2>5. Layers \in Seq(Nat)
    BY RouterAssumption
  <2>6. \A i \in Measured :
          /\ Attribution(calls[i].usage, Layers).hit \in Nat
          /\ calls[i].usage.read \in Nat
          /\ Attribution(calls[i].usage, Layers).hit <= calls[i].usage.read
          /\ EligibleTokens(Attribution(calls[i].usage, Layers)) = Total(Layers)
    <3>1. \A usage \in Usage :
            /\ Attribution(usage, Layers).hit \in Nat
            /\ usage.read \in Nat
            /\ Attribution(usage, Layers).hit <= usage.read
            /\ EligibleTokens(Attribution(usage, Layers)) = Total(Layers)
      <4> TAKE usage \in Usage
      <4>1. usage.read \in Nat
        BY DEF Usage
      <4> QED BY <2>5, <4>1, AttributionAddsUp
    <3> QED BY <2>3, <3>1
  <2>7. HitTokens <= SumFunction(reads)
    <3>1. \A i \in Measured : hits[i] \in Nat /\ reads[i] \in Nat /\ hits[i] <= reads[i]
      BY <2>6
    <3>2. DOMAIN hits = Measured /\ DOMAIN reads = Measured
      OBVIOUS
    <3>3. HitTokens = SumFunctionOnSet(hits, Measured)
      BY <3>2 DEF HitTokens, SumFunction
    <3>4. SumFunction(reads) = SumFunctionOnSet(reads, Measured)
      BY <3>2 DEF SumFunction
    <3> HIDE DEF hits, reads
    <3> QED BY <2>2, <3>1, <3>3, <3>4, SumIsMonotonic
  <2>8. Eligible = Cardinality(Measured) * Total(Layers)
    <3>1. Total(Layers) \in Nat
      <4>1. DOMAIN Layers = 1..Len(Layers) /\ \A i \in 1..Len(Layers) : Layers[i] \in Nat
        BY <2>5
      <4>2. IsFiniteSet(1..Len(Layers))
        BY <2>5, FS_Interval
      <4> QED BY <4>1, <4>2, SumIsNat DEF Total, SumFunction
    <3>2. \A i \in Measured : eligible[i] = Total(Layers)
      BY <2>6
    <3>3. Eligible = SumFunctionOnSet(eligible, Measured)
      BY DEF Eligible, SumFunction
    <3> HIDE DEF eligible
    <3> QED BY <2>2, <3>1, <3>2, <3>3, SumOfConstant
  <2> QED BY <2>4, <2>7, <2>8 DEF CacheRateIsMeasured
<1> QED BY <1>1, BooksInvariant, PTL
=============================================================================
