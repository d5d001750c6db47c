SPECIFICATION Spec
CONSTANTS
  Refs <- MCRefs
  RequestIds <- MCRequestIds
  Contract <- MCContract
  AcceptedScope = "accepted_activation_boundary"
  Invocations <- MCInvocations
  MaxRuns = 1
INVARIANTS
  TypeOK
  ExecutesOnlyAcceptedRequests
  FaultsAreNeverDowngraded
  RecordExplainsOutcome
  OutcomeAsPromised
CHECK_DEADLOCK FALSE
