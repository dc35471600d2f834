SPECIFICATION FairSpec
CONSTANTS
  e1 = e1
  e2 = e2
  r1 = r1
  r2 = r2
  Events = {e1, e2}
  Rules = {r1, r2}
  Setups <- MCSetups
  Always = Always
  Never = Never
  Sweep = Sweep
  DayLen = 3
  Quiet = {1}
  ActiveFor = 1
  Cap = 1
  MaxTime = 3
  MaxReplies = 1
  MaxFaults = 1
INVARIANTS
  TypeOK
  PerformedOnce
  ReentryKept
PROPERTIES
  StopsWhenReplied
  EveryWaitEnds
CHECK_DEADLOCK FALSE
