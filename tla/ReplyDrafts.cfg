\* Two messages and two people whose approvals may hold the lock the worker waits for; a
\* second draft that supersedes the first, or a retry; one fault, so that one lost answer,
\* crash or late exception meets every interleaving.
SPECIFICATION FairSpec
CONSTANTS
    Workers = {w1}
    People = {p1, p2}
    None = None
    Modes = {"conditional", "act"}
    MaxMessages = 2
    MaxDrafts = 2
    MaxAttempts = 2
    MaxFaults = 1
CHECK_DEADLOCK FALSE
INVARIANTS
    TypeOK
    AnsweredOnce
PROPERTY
    EveryMessageIsHandled
