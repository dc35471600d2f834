\* No failure is needed.
SPECIFICATION LinkSpec
CONSTANTS
  l1 = l1
  l2 = l2
  d1 = d1
  d2 = d2
  Links = {l1, l2}
  Dues = {d1}
  DueOf <- BothForOne
  Owed <- OweTwo
  Advance = 1
  Sync = sync
  Desk = {clerk}
  None = None
  Batch = 2
  MaxRequests = 4
  MaxFailures = 0
INVARIANTS
  MoneyRecordedOnce
CHECK_DEADLOCK FALSE
