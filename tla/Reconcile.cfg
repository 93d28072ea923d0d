SPECIFICATION FairSpec
CONSTANTS
  Cases <- HardCases
  Viewers = {v1}
  Schedulers = {s1}
INVARIANTS
  OutcomesHappened
  MismatchIsSeen
  TrailIsOrdered
PROPERTIES
  CacheConverges
CHECK_DEADLOCK FALSE
