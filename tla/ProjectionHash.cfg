SPECIFICATION Spec
CONSTANTS
  Paths <- MCPaths
  Contents <- MCContents
  Undecodable <- MCUndecodable
  DocumentOf <- MCDocumentOf
  MaxEdits = 1
  MaxBuilds = 1
INVARIANT HashBindsFields
CHECK_DEADLOCK FALSE
