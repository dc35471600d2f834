---------------------------- MODULE JobContract ----------------------------
(***************************************************************************)
(* What the job queue promises its callers, with no clock, no lock columns *)
(* and no processes: a job is worked on by at most one worker, it is only  *)
(* handed out again once nobody works on it, it is given up only after     *)
(* MaxAttempts hand-outs and retried only before that, and a settled job   *)
(* stays settled.  JobQueue implements it.                                 *)
(***************************************************************************)
EXTENDS Naturals

CONSTANTS Jobs, Workers, None, MaxAttempts

VARIABLES
    state,      \* what a caller can see of each job
    work,       \* the job each worker is on
    tries       \* how often each job was handed out

contractVars == <<state, work, tries>>

ContractInit ==
    /\ state = [j \in Jobs |-> "absent"]
    /\ work = [w \in Workers |-> None]
    /\ tries = [j \in Jobs |-> 0]

\* A job that was handed out and that no worker works on any more.
Orphan(j) == state[j] = "running" /\ \A w \in Workers : work[w] # j

\* The jobs after those of a set of orphans were put back.
PutBack(S) == [j \in Jobs |-> IF j \in S THEN "pending" ELSE state[j]]

Submit(j) ==
    /\ state[j] = "absent"
    /\ state' = [state EXCEPT ![j] = "pending"]
    /\ UNCHANGED <<work, tries>>

\* Some orphans are put back, and one job that then waits is handed out.
Take(w, j, S) ==
    /\ \A k \in S : Orphan(k)
    /\ work[w] = None
    /\ PutBack(S)[j] = "pending"
    /\ state' = [PutBack(S) EXCEPT ![j] = "running"]
    /\ work' = [work EXCEPT ![w] = j]
    /\ tries' = [tries EXCEPT ![j] = @ + 1]

Recover(S) ==
    /\ \A k \in S : Orphan(k)
    /\ state' = PutBack(S)
    /\ UNCHANGED <<work, tries>>

\* The worker ends its job: done, put back for another try, or given up.
End(w, outcome) ==
    /\ work[w] # None
    /\ outcome = "pending" => tries[work[w]] < MaxAttempts
    /\ outcome = "failed" => tries[work[w]] >= MaxAttempts
    /\ state' = [state EXCEPT ![work[w]] = outcome]
    /\ work' = [work EXCEPT ![w] = None]
    /\ UNCHANGED tries

Lose(w) ==
    /\ work' = [work EXCEPT ![w] = None]
    /\ UNCHANGED <<state, tries>>

ContractNext ==
    \/ \E j \in Jobs : Submit(j)
    \/ \E w \in Workers, j \in Jobs, S \in SUBSET Jobs : Take(w, j, S)
    \/ \E S \in SUBSET Jobs : Recover(S)
    \/ \E w \in Workers, outcome \in {"done", "pending", "failed"} : End(w, outcome)
    \/ \E w \in Workers : Lose(w)

ContractSpec == ContractInit /\ [][ContractNext]_contractVars
=============================================================================
