\* Any mix of answers, faults, reports of ill health and resets.
SPECIFICATION Spec
CONSTANTS
  Candidate <- TwoMechanisms
  Capacity = 4
  MinObservations = 3
  ThresholdNum = 1
  ThresholdDen = 4
  MaxEvents = 4
  MaxResets = 1
INVARIANTS
  TypeOK
  EventsAccountForFaults
  FaultyIsGivenUp
PROPERTIES
  TripIsSticky
  ServedByFirstPermitted
