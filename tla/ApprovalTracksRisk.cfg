SPECIFICATION Spec
CONSTANTS
  RequestData <- MCRequestData
  Approvable <- MCApprovable
  ApprovalForms <- MCApprovalForms
  BlastEvidence <- MCBlastEvidence
  RollbackEvidence <- MCRollbackEvidence
  ResultEdits <- MCResultEdits
INVARIANTS
  ApprovalTracksRisk
