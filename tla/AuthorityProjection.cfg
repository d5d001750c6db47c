SPECIFICATION Spec
CONSTANTS
  Paths <- MCPaths
  Contents <- MCContents
  Undecodable <- MCUndecodable
  DocumentOf <- MCDocumentOf
  MaxEdits = 3
  MaxBuilds = 2
INVARIANTS
  CommittedIsSound
PROPERTIES
  PublishesWholeBuilds
  CommitMatchesFiles
CHECK_DEADLOCK FALSE
