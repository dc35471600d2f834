\* A plan, one change of it, and debits enough for the attempts of a month and a lost run.  A
\* month and the week of retries are one unit each, so that a plan can be paused by attempts and
\* by time.
SPECIFICATION FairSpec
CONSTANTS
    Hooks = {h1}
    None = None
    Lead = 1
    Gap = 1
    Window = 1
    Month = 1
    Silence = 0
    Patience = 1
    MaxAttempts = 2
    MaxCheckouts = 2
    MaxDebits = 3
    MaxNow = 3
    MaxFaults = 1
CHECK_DEADLOCK FALSE
INVARIANTS
    TypeOK
    TriedInMonth
    OneDebitInFlight
PROPERTIES
    DebitWasAnnounced
    SilenceEnds
