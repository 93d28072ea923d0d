SPECIFICATION FairSpec
CONSTANTS
  space = space
  dash = dash
  ana = ana
  bob = bob
  App = App
  People = {ana, bob}
  Artifacts = {space}
  LevelOf <- KindLevels
  Releases <- KeepingReleases
  Keys <- BothKeys
  MaxId = 3
  MaxReleases = 2
  MaxRuns = 2
  MaxFaults = 2
  MaxEdits = 1
  Backwards = FALSE
  EditsDuringRuns = TRUE
PROPERTIES
  AttemptEnds
  ReplayConverges
CHECK_DEADLOCK FALSE
