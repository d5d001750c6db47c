SPECIFICATION Spec
CONSTANTS
  Agents = {"alice", "bob"}
  Refs <- MCRefs
  Subjects = {"code", "docs"}
  NoRef = ""
  Submissions <- MCSubmissions
  Times = {0, 1}
  Circumstances <- MCCircumstances
  SupportedSets <- MCSupportedSets
  ActionKinds <- MCActionKinds
INVARIANTS
  WorkersDoNotCollide
  VerdictsAgree
  ClosedMeansReadAndClear
  CascadesAgree
  StopsLeadToReviews
  ListsAgree
