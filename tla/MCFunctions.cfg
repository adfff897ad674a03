\* Each function over its own small inputs.
SPECIFICATION Spec
CONSTANTS
  Mechanism = {"scripted", "keyword"}
  MaxClaims = 3
  Samples <- AllSamples
  MaxWrappers = 3
  MinScore = 50
  MinChunks = 2
  TopK = 2
  ProvenanceRequired = TRUE
  PermittedSource = {"corpus"}
  Source = {"corpus"}
  MaxItems = 4
  Ids = {1, 2, 3}
  Scores = {30, 50}
  Symbol = {"a"}
  Star = "*"
  Role = {"engineer", "auditor"}
  NoRole = "none"
  MaxLength = 2
  MaxGrants = 3
  Word <- MCWord
  Significant <- MCSignificant
  PartOf <- MCPartOf
  MaxSentences = 2
  MaxPassages = 2
  Environment = {"production", "staging", "development", "test"}
  PermittedEnvironment = {"production"}
  Label = {"production", "test", "observed", "synthetic", "unknown"}
  MinimumSample = 3
  Traffic <- MixedTraffic
  MaxEvents = 5
  Category = {"supported", "refused"}
  MinimumRate <- Rates
  BatchSize = {1, 9999}
  MaxBatches = 3
INVARIANTS
  DecidesAsTheContractRanks
  ClaimOrderIsIrrelevant
  InjectedFaultsRefuse
  WindowIsOrderFree
  GateOpensOnBestScore
  KeywordGroundsOnEvidence
  MedianTakesItsRank
  PerfectGateIsExact
PROPERTIES
  MoreClaimsNeverGround
  InsertionMovesItsRoleOnly
  TestTrafficMovesNothing
  GateMovesTheRightWay
CHECK_DEADLOCK FALSE
