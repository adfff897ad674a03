\* Two requests, each retried once if its call raised.
SPECIFICATION GovernedSpec
CONSTANTS
  MinScore = 35
  MinChunks = 1
  TopK = 2
  ProvenanceRequired = TRUE
  PermittedSource = {"governed_corpus"}
  Source = {"governed_corpus"}
  Mechanism <- MCMechanism
  Request = {r1, r2}
  Ask <- MCAsk
  Response <- MCResponse
  FailureCode = {"verifier_timeout", "no_verifier_available"}
  VerifierName = "resilient(primary)"
  MaxAttempts = 2
  MaxResets = 1
  Candidate <- TwoMechanisms
  Capacity = 2
  MinObservations = 1
  ThresholdNum = 1
  ThresholdDen = 2
  MaxHealthEvents = 4
  MaxHealthResets = 1
INVARIANTS
  FaultsAreRefusals
PROPERTIES
  OutageRefuses
  CallersAreUnaware
CHECK_DEADLOCK FALSE
