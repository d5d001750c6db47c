SPECIFICATION Spec
CONSTANTS
  Works <- MCWorks
  Evidence <- MCEvidence
  MaxEvidence = 2
INVARIANTS
  ClaimableHasNothingOpen
  InterruptHoldsUntilResolved
  RecordsAgree
