\* A primary may trip without an event saying so.
SPECIFICATION Spec
CONSTANTS
  Candidate <- TwoMechanisms
  Capacity = 4
  MinObservations = 3
  ThresholdNum = 1
  ThresholdDen = 4
  MaxEvents = 4
  MaxResets = 0
INVARIANTS
  EscalationIsRecorded
