--------------------------- MODULE RouterProperties ---------------------------
(***************************************************************************)
(* What routing promises: one set of books, the ceiling of CB-3, no answer *)
(* that hides which tier of model gave it, and a cache rate that was       *)
(* measured.                                                               *)
(***************************************************************************)
EXTENDS Router, FiniteSets

(* Every figure stays in the range the code gives it.                      *)
TypeOK ==
  /\ chains \in LoadedConfigs
  /\ pending \subseteq Endpoints
  /\ capable \in [Endpoints -> BOOLEAN \cup {None}]
  /\ phase \in {"idle", "walking", "raised"}
  /\ declared \in Tiers
  /\ index \in 1..Len(chains[declared])
  /\ received \in Bodies \cup {None}
  /\ calls \in Seq([declared : Tiers, billed : Tiers, model : Models,
                    position : Nat, escalation : BOOLEAN,
                    usage : Usage, usd : Nat \cup {None},
                    capable : BOOLEAN, ok : BOOLEAN, status : Nat])
  /\ completed_tasks_usd \in Seq(Nat)
  /\ usd_at_last_task \in Nat
  /\ usd_spent \in Nat
  /\ tokens_spent \in [Tiers -> Nat]
  /\ tokens_by_model \in [Models -> Nat]
  /\ cache_stats \in [Tiers -> [hit : Nat, write : Nat, miss : Nat]]

(* The figures CB-3 enforces in the run's state are those cost.json will   *)
(* report: the ledger's, by amount, by billed tier and by model; and its   *)
(* cache statistics add up to those of the answered calls.                 *)
BooksAgree ==
  /\ usd_spent = LedgerUsd
  /\ \A tier \in Tiers : tokens_spent[tier] =
       SumFunction([i \in DOMAIN calls |->
         IF calls[i].billed = tier THEN TotalTokens(calls[i].usage) ELSE 0])
  /\ \A model \in Models : tokens_by_model[model] =
       SumFunction([i \in DOMAIN calls |->
         IF calls[i].model = model THEN TotalTokens(calls[i].usage) ELSE 0])
  /\ \A tier \in Tiers : cache_stats[tier].hit =
       SumFunction([i \in DOMAIN calls |->
         IF calls[i].ok /\ calls[i].declared = tier
         THEN Attribution(calls[i].usage, Layers).hit ELSE 0])

(* M1.1: every token a flagship-chain model served counts as flagship, no  *)
(* matter which tier asked for it (_index_billed_tiers).                   *)
FlagshipIsCounted ==
  tokens_spent["flagship"] =
    SumFunctionOnSet(tokens_by_model,
                     {model \in Models : Serves(chains, "flagship", model)})

(* Downward fallback never happens: no call falls back to a model that a   *)
(* tier weaker than the node's own serves.                                 *)
NoDownwardFallback ==
  \A i \in DOMAIN calls : calls[i].position > 1 =>
    \A tier \in Tiers : TierRank[tier] < TierRank[calls[i].declared] =>
      ~Serves(chains, tier, calls[i].model)

(* CB-3's pre-call check: spend and each tier's tokens stay within their   *)
(* ceilings through every fallback, provided no answer costs more than     *)
(* the projection assumed.                                                 *)
SpendWithinLimits ==
  /\ usd_spent <= MaxUsd
  /\ \A tier \in Tiers : tokens_spent[tier] <= TierCap[tier]

(* M1.3: what is attributed to completed tasks is what was spent up to the *)
(* last of them, each call's price once (complete_task).                   *)
CostsAttributedOnce ==
  /\ SumFunction(completed_tasks_usd) = usd_at_last_task
  /\ usd_at_last_task <= LedgerUsd

(* M1.4 is never better than what providers reported: the tokens it counts *)
(* as hits were reported as cached by a provider that passed the probe -   *)
(* an aggregator, never a local model - and every cacheable token of a     *)
(* measured call counts once, as hit, write or miss.                       *)
CacheRateIsMeasured ==
  /\ \A i \in Measured : FamilyOf(calls[i].model) = "aggregator"
  /\ HitTokens <= SumFunction([i \in Measured |-> calls[i].usage.read])
  /\ Eligible = Cardinality(Measured) * Total(Layers)

\* Authentication, a malformed request: "the real problem is the config".
ConfigDefects == (400..499) \ {408, 409, 429}

\* A tier names a provider whose family has no client.
Unsupported == FamilyOf(Model) \notin Wired

(* ProviderError.retryable: the walk stops at a configuration defect, so   *)
(* that no other provider is billed for it; and the run ends with an error *)
(* only by such a defect, a provider without a client, the budget, or an   *)
(* object of the wrong shape - a timeout, a rate limit, a server error, an *)
(* error object, other JSON or no JSON never ends it.                      *)
OnlyDefectsEndTheRun ==
  /\ \A i \in DOMAIN calls : calls[i].status \in ConfigDefects =>
       i = Len(calls) /\ phase = "raised"
  /\ phase = "raised" =>
       \/ WouldBreach \/ Unsupported
       \/ received = "misshapen"
       \/ Last(calls).status \in ConfigDefects
=============================================================================
