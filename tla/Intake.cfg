SPECIFICATION FairIntakeSpec
CONSTANTS
  d1 = d1
  d2 = d2
  a1 = a1
  a2 = a2
  b1 = b1
  a = a
  b = b
  p = p
  q = q
  NoOne = NoOne
  Deliveries = {d1, d2}
  Messages = {a1, a2, b1}
  Customers = {a, b}
  Batches <- MCBatches
  From <- MCFrom
  Rota <- MCRota
  MaxFailures = 1
  MaxTouches = 1
INVARIANTS
  IntakeTypeOK
  DoneMeansStored
PROPERTIES
  OnlyPeopleMoveAChat
  EveryDeliveryEnds
CHECK_DEADLOCK FALSE
