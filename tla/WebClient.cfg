SPECIFICATION FairSpec
CONSTANTS
  None = None
  r1 = r1
  r2 = r2
  p1 = p1
  q1 = q1
  Resources = {r1, r2}
  Promotions = {p1, q1}
  Reviewless = {q1}
  ResourceOf <- MCResourceOf
  Runs = {1, 2}
  MaxActs = 3
  MaxFaults = 1
  MaxCalls = 2
INVARIANTS
  ShownTogether
  NothingLoadsForEver
PROPERTY
  StatusIsConfirmed
CHECK_DEADLOCK FALSE
