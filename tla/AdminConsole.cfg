SPECIFICATION Spec
CONSTANTS
  People = {ana, bob}
  RuleIds <- MCRuleIds
  Handbook <- MCHandbook
  RetiredRules = {"GRANT-01"}
  Templates = {terse}
  Replicas = {a, b}
  Overrides <- MCOverrides
  TypedIds = {"EVAL-01", "GRANT-01"}
  CustomRows <- MCCustomRows
  MaxChanges = 3
  MaxFaults = 1
INVARIANTS
  AlwaysAnAdmin
  RevokedStaysOut
  EditsAreKept
  TrailIsTheHistory
SYMMETRY AdminSymmetry
CHECK_DEADLOCK FALSE
