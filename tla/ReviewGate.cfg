SPECIFICATION FairSpec
CONSTANTS
  RuleIds <- MCRuleIds
  Handbook <- MCHandbook
  Docs <- MCDocs
  RowSets <- MCRowSets
  ProdStates <- MCProdStates
  Mappings <- MCMappings
  Audience = {"analysts"}
  Invented = "MADE-UP"
  MaxPolls = 2
  CiFloor = 2
  MaxReviews = 1
  MaxChanges = 1
  MaxFaults = 1
INVARIANTS
  BrokenIsBlocked
  OutageNeverBlocks
  VerdictIsOfTheRun
PROPERTIES
  BlameIsDeserved
  GreenIsDeserved
  ReviewEnds
CHECK_DEADLOCK FALSE
