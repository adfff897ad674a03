\* The machine is the only writer of the log, the contract is the shipped one.
SPECIFICATION CorrectionSpec
CONSTANTS
  Decision = {d1, d2, d3}
  Principal = {jordan}
  System = {scheduler}
  InitialState = "PROPOSED"
  TerminalState <- ShippedTerminal
  Rules <- ShippedRules
  MaxTxn = 4
SYMMETRY LifecycleSymmetry
VIEW CallView
INVARIANTS
  TypeOK
  BoundariesAgree
  SequencesContiguous
  HistoryIsAPath
  TerminalIsPermanent
  CorrectionsCiteTheirPast
  ChainsMoveForward
  OneCorrectionReplaces
CHECK_DEADLOCK FALSE
