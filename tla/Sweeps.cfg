SPECIFICATION FairSpec
CONSTANTS
  Items = {i1, i2}
  Kinds <- MCKinds
  Forever = Forever
  Limit = 1
  MaxTime = 8
  MaxFaults = 1
INVARIANTS
  TypeOK
  RepeatedOnlyWhenLost
  ReachedInWindow
PROPERTIES
  EveryRowIsReached
CHECK_DEADLOCK FALSE
