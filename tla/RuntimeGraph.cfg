SPECIFICATION Spec
CONSTANTS
  Refs <- MCRefs
  RequestIds <- MCRequestIds
  BasisRefs <- MCBasisRefs
  Contract <- MCContract
  Inputs <- MCInputs
INVARIANTS
  SuccessIsGuarded
  WorstEvidenceDecides
  InterruptNamesItsCause
PROPERTIES
  FollowsGraphContract
  EveryRunEnds
CHECK_DEADLOCK FALSE
