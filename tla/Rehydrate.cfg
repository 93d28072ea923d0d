SPECIFICATION Spec
CONSTANTS
  Requests = {r1, r2}
  Identities <- MCIdentities
  Entries <- MCEntries
  Docs <- MCDocs
  Mappings <- MCMappings
  MaxChanges = 2
  MaxFaults = 1
INVARIANTS
  NothingOfProduction
  MappingHonoured
  CopiesAreRecorded
PROPERTIES
  BothSitesGuarded
SYMMETRY RequestSymmetry
CHECK_DEADLOCK FALSE
