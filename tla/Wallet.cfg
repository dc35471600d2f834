\* Two top-ups, so that a deadlock may be lost, a number and a call.  A top-up covers one
\* rent; a call and the rent together do not fit in it.  Time for two settlements after a
\* wallet is made, all in one month: the theorems of WalletProofs are for every number of them.
\* No symmetry, for the liveness property.
SPECIFICATION FairSpec
CONSTANTS
    Payments = {p1, p2}
    Numbers = {n1}
    Calls = {c1}
    Requests = {webhook}
    Renewals = renewals
    None = None
    Rent = 2
    Credit = 2
    Cost = 1
    Lag = 1
    MonthLength = 4
    MaxNow = 3
    MaxFaults = 1
CHECK_DEADLOCK FALSE
INVARIANTS
    TypeOK
    UsageChargedOnce
PROPERTIES
    ImplementsLedger
    CaptureIsCredited
