SPECIFICATION Spec
CONSTANTS
  space = space
  dash = dash
  ana = ana
  bob = bob
  App = App
  People = {ana, bob}
  Artifacts = {space}
  LevelOf <- KindLevels
  Releases <- AudienceReleases
  Keys <- BothKeys
  MaxId = 2
  MaxReleases = 3
  MaxRuns = 3
  MaxFaults = 1
  MaxEdits = 1
  Backwards = TRUE
  EditsDuringRuns = FALSE
INVARIANT
  AudienceConverges
PROPERTY
  UnmanagedGrantsKept
CHECK_DEADLOCK FALSE
