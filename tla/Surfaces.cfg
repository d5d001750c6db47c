SPECIFICATION Spec
CONSTANTS
  Learnable <- MCLearnable
  MaxLearned = 2
  Requests <- MCRequests
  Displays <- MCDisplays
INVARIANTS
  StatusFitsSeverity
  StopsAreHeld
  DecisionFollowsDisplay
