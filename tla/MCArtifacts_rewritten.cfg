\* What amendments/service.py says of the version an amendment amends.
SPECIFICATION ArtifactSpec
CONSTANTS
  Key = {"v1.0", "v1.1"}
  Status = {"draft", "ratified"}
  Rule = {"ET-VER-004", "ET-VER-005"}
  ReasonCode = {"unsupported_claim", "no_supported_claims"}
  Text = {"original", "edited"}
  AmendmentId = {"v1.0-A1"}
  InitialContracts <- MCContracts
  InitialAmendments <- MCAmendments
  InitialCodes <- MCCodes
  InitialTests = {"ET-VER-004", "ET-VER-005"}
  MaxEdits = 2
INVARIANTS
  PriorVersionsAreUnmodified
CHECK_DEADLOCK FALSE
