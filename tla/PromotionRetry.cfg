SPECIFICATION FairSpec
CONSTANTS
  Requesters = {r1}
  Contents = {plain, mapped}
  Mapped = {mapped}
  Slugs = {s1, s2}
  MaxRequests = 2
  MaxFaults = 1
INVARIANTS
  ResubmissionReplaces
  SlugIsPinnedInOrder
PROPERTIES
  NoEmptyPull
  OrphanIsAdopted
CHECK_DEADLOCK FALSE
