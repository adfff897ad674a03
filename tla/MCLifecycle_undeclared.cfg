SPECIFICATION OpenSpec
CONSTANTS
  Decision = {d1, d2}
  Principal = {jordan}
  System = {scheduler}
  InitialState = "PROPOSED"
  TerminalState <- ShippedTerminal
  Rules <- ShippedRules
  MaxTxn = 4
INVARIANTS
  TransitionsDeclared
CHECK_DEADLOCK FALSE
