\* What the reason code supersession.replaced says of every supersession.
SPECIFICATION CorrectionSpec
CONSTANTS
  Decision = {d1, d2, d3}
  Principal = {jordan}
  System = {scheduler}
  InitialState = "PROPOSED"
  TerminalState <- ShippedTerminal
  Rules <- ShippedRules
  MaxTxn = 4
INVARIANTS
  SupersededByNewerAccepted
CHECK_DEADLOCK FALSE
