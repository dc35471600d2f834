\* One appointment; no failure is needed.
SPECIFICATION Spec
CONSTANTS
    Appts = {a1}
    Slots = {s1}
    Desk = {clerk}
    Hooks = {hook}
    None = None
    MaxRequests = 1
    MaxPayments = 0
    MaxFaults = 0
CHECK_DEADLOCK FALSE
PROPERTY
    ReleasedIsUnpaid
