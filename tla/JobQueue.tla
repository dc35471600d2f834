------------------------------ MODULE JobQueue ------------------------------
(***************************************************************************)
(* The Postgres job queue (shared/db/queue.py) and the loop every worker   *)
(* process runs over it (shared/db/worker_runner.py).                      *)
(*                                                                         *)
(* One row per job.  A worker reclaims and claims in one short transaction *)
(* and commits it, so it holds no row lock while its handler runs; only    *)
(* the columns status / locked_by / locked_at say the job is taken.  The   *)
(* handler ends the job through complete() or fail() on the object it      *)
(* loaded at claim time, and neither looks at the row again.  A handler    *)
(* that raises past them leaves the row as it is, and so does a process    *)
(* that dies.                                                              *)
(*                                                                         *)
(* Time is relative: wait[j] is run_after - now, age[j] is now - locked_at, *)
(* both saturated so that the state space is finite.  One unit is a minute *)
(* of the code.                                                            *)
(***************************************************************************)
EXTENDS Integers

CONSTANTS
    Jobs,           \* job ids
    Workers,        \* worker processes on this queue
    None,           \* no worker, no job
    MaxAttempts,    \* Job.max_attempts (5 in the code)
    StallAfter,     \* STALL_AFTER (15 minutes in the code)
    MaxBackoff,     \* the cap inside _backoff (60 minutes in the code)
    Delays,         \* the delays callers of enqueue pass as run_after
    Lag,            \* bound: how late a job can be seen to be, for ORDER BY run_after
    Overruns,       \* TRUE when a live handler may outlive StallAfter
    MaxFaults       \* bound on crashes, escaping exceptions and overruns together

ASSUME JobQueueAssumption ==
    /\ None \notin Jobs \union Workers
    /\ MaxAttempts \in Nat \ {0}
    /\ StallAfter \in Nat \ {0}
    /\ MaxBackoff \in Nat \ {0}
    /\ Delays \subseteq Nat
    /\ Lag \in Nat
    /\ Overruns \in BOOLEAN
    /\ MaxFaults \in Nat

VARIABLES
    status,         \* Job.status; "absent" before the enqueueing transaction commits
    attempts,       \* Job.attempts
    lockedBy,       \* Job.locked_by
    wait,           \* Job.run_after relative to now
    age,            \* now relative to Job.locked_at
    hand,           \* the job a worker's handler is running
    seen,           \* the attempts value in the worker's loaded Job object
    mode,           \* "up", "stopping" (SIGTERM received) or "down"
    faults          \* how many faults have happened

vars == <<status, attempts, lockedBy, wait, age, hand, seen, mode, faults>>
rows == <<status, attempts, lockedBy, wait, age>>

Statuses == {"absent", "pending", "running", "done", "failed"}
Terminal == {"done", "failed"}

TypeOK ==
    /\ status \in [Jobs -> Statuses]
    /\ attempts \in [Jobs -> Nat]
    /\ lockedBy \in [Jobs -> Workers \union {None}]
    /\ wait \in [Jobs -> Int]
    /\ age \in [Jobs -> 0 .. StallAfter + 1]
    /\ hand \in [Workers -> Jobs \union {None}]
    /\ seen \in [Workers -> Nat]
    /\ mode \in [Workers -> {"up", "stopping", "down"}]
    /\ faults \in 0 .. MaxFaults

Init ==
    /\ status = [j \in Jobs |-> "absent"]
    /\ attempts = [j \in Jobs |-> 0]
    /\ lockedBy = [j \in Jobs |-> None]
    /\ wait = [j \in Jobs |-> 0]
    /\ age = [j \in Jobs |-> 0]
    /\ hand = [w \in Workers |-> None]
    /\ seen = [w \in Workers |-> 0]
    /\ mode = [w \in Workers |-> "up"]
    /\ faults = 0

-----------------------------------------------------------------------------
\* _backoff: 1, 2, 4, 8, ... minutes, capped.
Backoff(n) ==
    LET exponential == 2 ^ (IF n > 1 THEN n - 1 ELSE 0)
    IN  IF exponential \in 1 .. MaxBackoff THEN exponential ELSE MaxBackoff

\* Mutant: only rows nobody has locked.
Mutant_StalledUnlocked(j) == status[j] = "running" /\ age[j] > StallAfter /\ lockedBy[j] = None

\* reclaim_stalled's WHERE: running, and locked before the cutoff.
Stalled(j) == status[j] = "running" /\ age[j] > StallAfter

\* The rows as reclaim_stalled leaves them: stalled jobs back to pending, due now.
\* It looks neither at attempts nor at whether the worker is really gone.
ReclaimedStatus == [j \in Jobs |-> IF Stalled(j) THEN "pending" ELSE status[j]]
ReclaimedWait == [j \in Jobs |-> IF Stalled(j) THEN 0 ELSE wait[j]]
ReclaimedLock == [j \in Jobs |-> IF Stalled(j) THEN None ELSE lockedBy[j]]

\* claim's WHERE, evaluated after the reclaim of the same transaction.
Ready(j) == ReclaimedStatus[j] = "pending" /\ ReclaimedWait[j] <= 0

\* ORDER BY run_after.
Oldest(j) == \A k \in Jobs : Ready(k) => ReclaimedWait[j] <= ReclaimedWait[k]

-----------------------------------------------------------------------------
\* enqueue(): the row appears when the caller's transaction commits.
Enqueue(j, d) ==
    /\ status[j] = "absent"
    /\ status' = [status EXCEPT ![j] = "pending"]
    /\ wait' = [wait EXCEPT ![j] = d]
    /\ UNCHANGED <<attempts, lockedBy, age, hand, seen, mode, faults>>

\* One turn of the worker loop that finds a job: reclaim_stalled, claim with
\* LIMIT 1, commit.
Claim(w) ==
    /\ mode[w] = "up"
    /\ hand[w] = None
    /\ \E j \in Jobs :
        /\ Ready(j)
        /\ Oldest(j)
        /\ status' = [ReclaimedStatus EXCEPT ![j] = "running"]
        /\ wait' = ReclaimedWait
        /\ lockedBy' = [ReclaimedLock EXCEPT ![j] = w]
        /\ age' = [age EXCEPT ![j] = 0]
        /\ attempts' = [attempts EXCEPT ![j] = @ + 1]
        /\ hand' = [hand EXCEPT ![w] = j]
        /\ seen' = [seen EXCEPT ![w] = attempts[j] + 1]
    /\ UNCHANGED <<mode, faults>>

\* reclaim_stalled_jobs, the API process's five-minute job; a worker turn that
\* finds nothing to claim leaves the same rows behind.
ReclaimStalled ==
    /\ \E j \in Jobs : Stalled(j)
    /\ status' = ReclaimedStatus
    /\ wait' = ReclaimedWait
    /\ lockedBy' = ReclaimedLock
    /\ UNCHANGED <<attempts, age, hand, seen, mode, faults>>

\* The worker is off its job; what it had loaded is gone.
LetGo(w) ==
    /\ hand' = [hand EXCEPT ![w] = None]
    /\ seen' = [seen EXCEPT ![w] = 0]

\* Mutant: complete() clears the wrong column.
Mutant_CompleteClearsStatus(w) ==
    /\ hand[w] # None
    /\ status' = [status EXCEPT ![hand[w]] = None]
    /\ LetGo(w)
    /\ UNCHANGED <<attempts, lockedBy, wait, age, mode, faults>>

\* The handler calls complete() and the loop commits: an UPDATE by primary key.
Complete(w) ==
    /\ hand[w] # None
    /\ LET j == hand[w] IN
        /\ status' = [status EXCEPT ![j] = "done"]
        /\ lockedBy' = [lockedBy EXCEPT ![j] = None]
    /\ LetGo(w)
    /\ UNCHANGED <<attempts, wait, age, mode, faults>>

\* Mutant: one attempt too many.
Mutant_ExhaustedLate(w) == seen[w] > MaxAttempts

\* job.attempts >= job.max_attempts, on the loaded object.
Exhausted(w) == seen[w] >= MaxAttempts

\* The handler calls fail(): give up or back off, decided on the loaded attempts.
Fail(w) ==
    /\ hand[w] # None
    /\ LET j == hand[w] IN
        /\ status' = [status EXCEPT ![j] = IF Exhausted(w) THEN "failed" ELSE "pending"]
        /\ wait' = [wait EXCEPT ![j] = IF Exhausted(w) THEN @ ELSE Backoff(seen[w])]
        /\ lockedBy' = [lockedBy EXCEPT ![j] = None]
    /\ LetGo(w)
    /\ UNCHANGED <<attempts, age, mode, faults>>

\* The handler, or the commit after it, raises past fail(): the loop logs, backs
\* off and goes on.  The transaction rolls back, so the row stays as claimed.
Raise(w) ==
    /\ hand[w] # None
    /\ faults < MaxFaults
    /\ faults' = faults + 1
    /\ LetGo(w)
    /\ UNCHANGED <<rows, mode>>

\* The process dies: what it had in memory is gone, the row stays as claimed.
Crash(w) ==
    /\ mode[w] # "down"
    /\ faults < MaxFaults
    /\ faults' = faults + 1
    /\ mode' = [mode EXCEPT ![w] = "down"]
    /\ LetGo(w)
    /\ UNCHANGED rows

\* SIGTERM: finish the job in hand, claim no other.
Stop(w) ==
    /\ mode[w] = "up"
    /\ faults < MaxFaults
    /\ faults' = faults + 1
    /\ mode' = [mode EXCEPT ![w] = "stopping"]
    /\ UNCHANGED <<rows, hand, seen>>

Exit(w) ==
    /\ mode[w] = "stopping"
    /\ hand[w] = None
    /\ mode' = [mode EXCEPT ![w] = "down"]
    /\ UNCHANGED <<rows, hand, seen, faults>>

\* restart: unless-stopped.
Restart(w) ==
    /\ mode[w] = "down"
    /\ mode' = [mode EXCEPT ![w] = "up"]
    /\ UNCHANGED <<rows, hand, seen, faults>>

\* A live handler has held its job for as long as STALL_AFTER allows.
AtTheLimit == \E w \in Workers : hand[w] # None /\ age[hand[w]] = StallAfter

\* A minute passes.  STALL_AFTER is "longer than the slowest job" unless Overruns.
Tick ==
    /\ \E j \in Jobs : \/ status[j] = "pending" /\ wait[j] > -Lag
                       \/ status[j] = "running" /\ age[j] <= StallAfter
    /\ AtTheLimit => Overruns /\ faults < MaxFaults
    /\ faults' = IF AtTheLimit THEN faults + 1 ELSE faults
    /\ wait' = [j \in Jobs |->
                  IF status[j] = "pending" /\ wait[j] > -Lag THEN wait[j] - 1 ELSE wait[j]]
    /\ age' = [j \in Jobs |->
                  IF status[j] = "running" /\ age[j] <= StallAfter THEN age[j] + 1 ELSE age[j]]
    /\ UNCHANGED <<status, attempts, lockedBy, hand, seen, mode>>

Next ==
    \/ \E j \in Jobs, d \in Delays : Enqueue(j, d)
    \/ \E w \in Workers :
        \/ Claim(w) \/ Complete(w) \/ Fail(w) \/ Raise(w)
        \/ Crash(w) \/ Stop(w) \/ Exit(w) \/ Restart(w)
    \/ ReclaimStalled
    \/ Tick

Spec == Init /\ [][Next]_vars

\* What the deployment schedules: every container is restarted and loops for
\* ever, every network call of a handler has a timeout so the handler ends, the
\* API's scheduler runs the reclaim, and time passes.  Enqueueing is up to the
\* callers and faults are never owed.
Fairness ==
    /\ \A w \in Workers :
        /\ WF_vars(Claim(w))
        /\ WF_vars(Complete(w) \/ Fail(w))
        /\ WF_vars(Exit(w))
        /\ WF_vars(Restart(w))
    /\ WF_vars(ReclaimStalled)
    /\ WF_vars(Tick)

FairSpec == Spec /\ Fairness

-----------------------------------------------------------------------------
(***************************************************************************)
(* Properties                                                              *)
(***************************************************************************)

\* A handler that is running is running on a row that says so: the row is marked
\* running, locked by that worker, and the attempts the handler will judge by in
\* fail() are the row's.  complete() and fail() write by primary key on the
\* strength of this alone.
HeldRowIsOurs ==
    \A w \in Workers : hand[w] # None =>
        /\ status[hand[w]] = "running"
        /\ lockedBy[hand[w]] = w
        /\ seen[w] = attempts[hand[w]]

\* No job is run by two workers at once, whatever crashes, reclaims and restarts
\* happen in between (SKIP LOCKED, the claim commit, and STALL_AFTER together).
ExclusiveExecution ==
    \A v, w \in Workers : hand[v] # None /\ hand[v] = hand[w] => v = w

\* A job is given up only after max_attempts claims; a crash or a reclaim never
\* fails it early.
GivesUpOnlyWhenExhausted ==
    \A j \in Jobs : status[j] = "failed" => attempts[j] >= MaxAttempts

\* A finished job is never claimed, retried or reclaimed again.
TerminalIsFinal ==
    [][\A j \in Jobs : status[j] \in Terminal => status'[j] = status[j]]_vars

\* Every job that was enqueued ends as done or failed; a crash strands nothing.
EveryJobSettles ==
    \A j \in Jobs : (status[j] # "absent") ~> (status[j] \in Terminal)

\* Seen without clock, locks and processes, the queue is the one of JobContract:
\* a row is handed out again only once its worker is really off it.
Contract == INSTANCE JobContract WITH state <- status, work <- hand, tries <- attempts

ImplementsContract == Contract!ContractSpec
=============================================================================
