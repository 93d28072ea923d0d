SPECIFICATION Spec
CONSTANTS
  space = space
  dash = dash
  ana = ana
  bob = bob
  App = App
  People = {ana}
  Artifacts = {space, dash}
  LevelOf <- KindLevels
  Releases <- StageReleases
  Keys <- SomeKeys
  MaxId = 2
  MaxReleases = 2
  MaxRuns = 2
  MaxFaults = 1
  MaxEdits = 1
  Backwards = TRUE
  EditsDuringRuns = FALSE
INVARIANTS
  TypeOK
  PublishedStagesHold
  SucceededIsLive
  EvidenceHonest
  TargetIsManaged
PROPERTY
  ImplementsContract
CHECK_DEADLOCK FALSE
