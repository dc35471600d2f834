\* One link of each of two businesses and a sweep that takes one: two sends and one
\* more request beside any number of sweeps, one failure.
SPECIFICATION FairLinkSpec
CONSTANTS
  l1 = l1
  l2 = l2
  d1 = d1
  d2 = d2
  Links = {l1, l2}
  Dues = {d1, d2}
  DueOf <- OneEach
  Owed <- OweOneAndTwo
  Advance = 1
  Sync = sync
  Desk = {clerk}
  None = None
  Batch = 1
  MaxRequests = 3
  MaxFailures = 1
INVARIANTS
  LinkTypeOK
  PaidLinkIsBooked
PROPERTIES
  PaymentIsNoticed
CHECK_DEADLOCK FALSE
