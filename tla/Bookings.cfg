\* Two bookings over one slot and a spare one, one request and one webhook at a time
\* beside the sweep, one failure.  No symmetry, for the liveness property.
SPECIFICATION FairSpec
CONSTANTS
    Appts = {a1, a2}
    Slots = {s1, s2}
    Desk = {clerk}
    Hooks = {hook}
    None = None
    MaxRequests = 2
    MaxPayments = 2
    MaxFaults = 1
CHECK_DEADLOCK FALSE
INVARIANTS
    TypeOK
    ConfirmedMeansPaid
    OnTimeIsHonoured
PROPERTIES
    KeepsTheCalendar
    EveryHoldEnds
