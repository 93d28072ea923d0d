SPECIFICATION Spec
CONSTANTS
  Requesters = {r1, r2}
  Contents = {plain, mapped}
  Mapped = {mapped}
  Slugs = {s1}
  MaxRequests = 3
  MaxFaults = 0
INVARIANTS
  OnePromotionPerPull
  ResubmissionReplaces
  ResubmissionIsDraft
CHECK_DEADLOCK FALSE
