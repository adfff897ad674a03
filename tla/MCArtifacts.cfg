\* Up to three edits, any number of processes.
SPECIFICATION ArtifactSpec
CONSTANTS
  Key = {"v1.0", "v1.1"}
  Status = {"draft", "ratified"}
  Rule = {"ET-VER-004", "ET-VER-005"}
  ReasonCode = {"unsupported_claim", "no_supported_claims"}
  Text = {"original", "edited"}
  AmendmentId = {"v1.0-A1"}
  InitialContracts <- MCContracts
  InitialAmendments <- MCAmendments
  InitialCodes <- MCCodes
  InitialTests = {"ET-VER-004", "ET-VER-005"}
  MaxEdits = 3
INVARIANTS
  AmendmentsHaveABase
  ReadableUnlessRewritten
  ReasonCodesKeepTheirRules
PROPERTIES
  ContentIsFixedWhileAlive
CHECK_DEADLOCK FALSE
