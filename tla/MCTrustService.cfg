SPECIFICATION Spec
CONSTANTS
  MinScore = 35
  MinChunks = 1
  TopK = 2
  ProvenanceRequired = TRUE
  PermittedSource = {"governed_corpus", "governed_record"}
  Source = {"governed_corpus", "governed_record", "open_web"}
  Mechanism <- MCMechanism
  Request = {r1, r2}
  Ask <- MCAsk
  Response <- MCResponse
  FailureCode = {"no_verifier_available", "uncontrolled"}
  VerifierName = "scripted"
  MaxAttempts = 2
  MaxResets = 1
INVARIANTS
  TypeOK
  GeneratorRunsForGovernableOnly
  AnsweredIffRecorded
  GroundedWasVerified
  ResultsAreFaithful
  TelemetryAccountsForRecords
PROPERTIES
  StoresAreAppendOnly
  KeepsThePromise
CHECK_DEADLOCK FALSE
