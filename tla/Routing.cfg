SPECIFICATION Spec
CONSTANTS
  None = None
  Models <- TestModels
  Endpoints = {"daemon", "api", "broker", "vendor"}
  ProviderOf <- TestProviderOf
  Family <- TestFamily
  Unpriced = {"local"}
  InRate <- TestInRate
  OutRate <- TestOutRate
  WriteRate <- TestWriteRate
  ReadRate <- TestReadRate
  AllowUnpriced = FALSE
  Chains <- PlainChains
  Estimate = 2
  MaxTokens = 1
  Responses <- TestResponses
  Layers <- TestLayers
  MaxUsd = 190
  TierCap <- TightCap
  MaxCalls = 2
  MaxTasks = 2
INVARIANTS
  NoDownwardFallback
  FlagshipIsCounted
  BooksAgree
  SpendWithinLimits
  CostsAttributedOnce
  CacheRateIsMeasured
  OnlyDefectsEndTheRun
