\* Two people and a limit of one a day: the campaign pauses, is resumed or not, and its
\* follow-ups wait for a day of their own.  Two requests of the owner; one loss.
SPECIFICATION FairSpec
CONSTANTS
    People = {c1, c2}
    Requests = {r1, r2}
    MaxSteps = 2
    Manners <- MCManners
    DelayDays = 1
    Tier = 1
    MaxFaults = 1
CHECK_DEADLOCK FALSE
INVARIANTS
    TypeOK
    WithinTierByCalendarDay
PROPERTIES
    FollowsTheSequence
    EveryStepIsDecided
