SPECIFICATION Spec
CONSTANTS
  Basis <- MCBasis
  Learnable <- MCLearnable
  MaxLearned = 2
  Asked <- MCAsked
INVARIANTS
  AcceptedReadyIsClear
  RereadKeepsStop
  ShownStopsHalt
  EvidenceNeverLoosens
