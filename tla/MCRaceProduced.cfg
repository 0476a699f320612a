SPECIFICATION Spec
CONSTANT
  Suites <- EventSuites
INVARIANTS
  RaceProducedRequests
CHECK_DEADLOCK FALSE
