SPECIFICATION ValidationSpec
INVARIANTS
  AcceptanceNeedsEvidence
  StopsSurviveCascade
CHECK_DEADLOCK FALSE
