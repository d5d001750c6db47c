SPECIFICATION ParserSpec
CONSTANTS
  RawLines <- MCRawLines
  MaxLines = 4
INVARIANTS
  ParserTypeOK
  ScopesFollowIndentation
  ScopesNest
  FaultsMatchEvents
CHECK_DEADLOCK FALSE
