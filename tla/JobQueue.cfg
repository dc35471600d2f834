\* Two workers, two jobs, two attempts each, under the deployment's scheduling; two
\* faults are enough for a crash, its reclaim and a fault of the second holder.  No
\* symmetry, which is unsound for liveness.
SPECIFICATION FairSpec
CONSTANTS
    Jobs = {j1, j2}
    Workers = {w1, w2}
    None = None
    MaxAttempts = 2
    StallAfter = 2
    MaxBackoff = 2
    Delays = {0, 1}
    Lag = 1
    Overruns = FALSE
    MaxFaults = 2
CHECK_DEADLOCK FALSE
INVARIANTS
    TypeOK
PROPERTIES
    EveryJobSettles
    ImplementsContract
