\* What the docstring of the coherence check says of a lifecycle that passes it.
SPECIFICATION Spec
CONSTANTS
  MaxRules = 3
INVARIANTS
  EveryStateIsReachable
CHECK_DEADLOCK FALSE
