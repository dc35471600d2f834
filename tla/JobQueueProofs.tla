--------------------------- MODULE JobQueueProofs ---------------------------
(***************************************************************************)
(* Proofs about JobQueue, for any number of jobs, workers, attempts and    *)
(* faults and any STALL_AFTER.                                             *)
(*                                                                         *)
(* Two inductive invariants.  AttemptsInv holds whatever the workers do.   *)
(* ClaimInv needs STALL_AFTER to be longer than the slowest job            *)
(* (~Overruns): a held row is then never old enough to be reclaimed, so    *)
(* the row stays the holder's until the holder lets go of it.              *)
(*                                                                         *)
(* Then proofs about Intake, which puts the analysis and reply jobs on the *)
(* queue: see the section below.                                           *)
(***************************************************************************)
EXTENDS JobQueue, Intake, TLAPS

\* The variables have their types.
LEMMA TypeInit == Init => TypeOK
  BY JobQueueAssumption DEF Init, TypeOK, Statuses

LEMMA BackoffType == \A n \in Nat : Backoff(n) \in 1 .. MaxBackoff
  BY JobQueueAssumption DEF Backoff

LEMMA TypeStep == TypeOK /\ [Next]_vars => TypeOK'
<1> SUFFICES ASSUME TypeOK, [Next]_vars PROVE TypeOK'
  OBVIOUS
<1> USE JobQueueAssumption DEF TypeOK, Statuses
<1>1. ASSUME NEW j \in Jobs, NEW d \in Delays, Enqueue(j, d) PROVE TypeOK'
  BY <1>1 DEF Enqueue
<1>2. ASSUME NEW w \in Workers, Claim(w) PROVE TypeOK'
  BY <1>2 DEF Claim, ReclaimedStatus, ReclaimedWait, ReclaimedLock
<1>3. ASSUME NEW w \in Workers, Complete(w) PROVE TypeOK'
  BY <1>3 DEF Complete, LetGo
<1>4. ASSUME NEW w \in Workers, Fail(w) PROVE TypeOK'
  <2>1. Backoff(seen[w]) \in Int
    BY BackoffType
  <2>2. hand[w] \in Jobs
    BY <1>4 DEF Fail
  <2> QED BY <1>4, <2>1, <2>2 DEF Fail, LetGo
<1>5. ASSUME NEW w \in Workers, Raise(w) \/ Crash(w) PROVE TypeOK'
  BY <1>5 DEF Raise, Crash, LetGo, rows
<1>6. ASSUME NEW w \in Workers, Stop(w) \/ Exit(w) \/ Restart(w) PROVE TypeOK'
  BY <1>6 DEF Stop, Exit, Restart, rows
<1>7. CASE ReclaimStalled
  BY <1>7 DEF ReclaimStalled, ReclaimedStatus, ReclaimedWait, ReclaimedLock
<1>8. CASE Tick
  <2>1. age' \in [Jobs -> 0 .. StallAfter + 1]
    BY <1>8 DEF Tick
  <2>2. wait' \in [Jobs -> Int]
    BY <1>8 DEF Tick
  <2>3. faults' \in 0 .. MaxFaults
    BY <1>8 DEF Tick
  <2> QED BY <1>8, <2>1, <2>2, <2>3 DEF Tick
<1>9. CASE UNCHANGED vars
  BY <1>9 DEF vars
<1> QED BY <1>1, <1>2, <1>3, <1>4, <1>5, <1>6, <1>7, <1>8, <1>9 DEF Next

\* Every variable of the queue always has its type.
THEOREM TypeCorrect == Spec => []TypeOK
  BY TypeInit, TypeStep, PTL DEF Spec

-----------------------------------------------------------------------------
\* A loaded attempts value is never ahead of the row's, since attempts only grows.
AttemptsInv ==
    /\ TypeOK
    /\ GivesUpOnlyWhenExhausted
    /\ \A w \in Workers : hand[w] # None => seen[w] <= attempts[hand[w]]

LEMMA AttemptsStep == AttemptsInv /\ [Next]_vars => AttemptsInv'
<1> SUFFICES ASSUME AttemptsInv, [Next]_vars PROVE AttemptsInv'
  OBVIOUS
<1> USE JobQueueAssumption DEF AttemptsInv, TypeOK, GivesUpOnlyWhenExhausted
<1>0. TypeOK'
  BY TypeStep
<1>1. ASSUME NEW j \in Jobs, NEW d \in Delays, Enqueue(j, d) PROVE AttemptsInv'
  BY <1>0, <1>1 DEF Enqueue
<1>2. ASSUME NEW w \in Workers, Claim(w) PROVE AttemptsInv'
  <2> PICK j \in Jobs :
        /\ status' = [ReclaimedStatus EXCEPT ![j] = "running"]
        /\ attempts' = [attempts EXCEPT ![j] = @ + 1]
        /\ hand' = [hand EXCEPT ![w] = j]
        /\ seen' = [seen EXCEPT ![w] = attempts[j] + 1]
    BY <1>2 DEF Claim
  <2>1. \A k \in Jobs : status'[k] = "failed" => status[k] = "failed"
    BY DEF ReclaimedStatus, Stalled
  <2>2. \A k \in Jobs : attempts'[k] >= attempts[k]
    OBVIOUS
  <2>3. GivesUpOnlyWhenExhausted'
    BY <1>0, <2>1, <2>2
  <2>4. \A v \in Workers : hand'[v] # None => seen'[v] <= attempts'[hand'[v]]
    <3> TAKE v \in Workers
    <3> HAVE hand'[v] # None
    <3>1. CASE v = w
      BY <3>1
    <3>2. CASE v # w
      BY <3>2, <2>2
    <3> QED BY <3>1, <3>2
  <2> QED BY <1>0, <2>3, <2>4
<1>3. ASSUME NEW w \in Workers, Complete(w) PROVE AttemptsInv'
  BY <1>0, <1>3 DEF Complete, LetGo
<1>4. ASSUME NEW w \in Workers, Fail(w) PROVE AttemptsInv'
  <2>1. /\ hand[w] \in Jobs
        /\ status' = [status EXCEPT ![hand[w]] =
                        IF Exhausted(w) THEN "failed" ELSE "pending"]
        /\ attempts' = attempts
        /\ hand' = [hand EXCEPT ![w] = None]
        /\ seen' = [seen EXCEPT ![w] = 0]
    BY <1>4 DEF Fail, LetGo
  <2>2. Exhausted(w) => attempts[hand[w]] >= MaxAttempts
    BY <1>4 DEF Fail, Exhausted
  <2> QED BY <1>0, <2>1, <2>2
<1>5. ASSUME NEW w \in Workers, Raise(w) \/ Crash(w) PROVE AttemptsInv'
  BY <1>0, <1>5 DEF Raise, Crash, LetGo, rows
<1>6. ASSUME NEW w \in Workers, Stop(w) \/ Exit(w) \/ Restart(w) PROVE AttemptsInv'
  BY <1>0, <1>6 DEF Stop, Exit, Restart, rows
<1>7. CASE ReclaimStalled
  BY <1>0, <1>7 DEF ReclaimStalled, ReclaimedStatus, Stalled
<1>8. CASE Tick
  BY <1>0, <1>8 DEF Tick
<1>9. CASE UNCHANGED vars
  BY <1>0, <1>9 DEF vars
<1> QED BY <1>1, <1>2, <1>3, <1>4, <1>5, <1>6, <1>7, <1>8, <1>9 DEF Next

\* No crash, reclaim, restart or overrun makes fail() give a job up before
\* max_attempts claims of it.
THEOREM GivesUpLate == Spec => []GivesUpOnlyWhenExhausted
<1>1. Init => AttemptsInv
  BY TypeInit DEF Init, AttemptsInv, GivesUpOnlyWhenExhausted
<1>2. AttemptsInv => GivesUpOnlyWhenExhausted
  BY DEF AttemptsInv
<1> QED BY <1>1, <1>2, AttemptsStep, PTL DEF Spec

-----------------------------------------------------------------------------
\* What a claim is worth until its holder lets go of it: the row is marked, locked
\* and counted for that worker, and its lock has not outlived STALL_AFTER.
ClaimInv ==
    /\ TypeOK
    /\ HeldRowIsOurs
    /\ \A w \in Workers : hand[w] # None => age[hand[w]] <= StallAfter

LEMMA ClaimInit == Init => ClaimInv
  BY TypeInit DEF Init, ClaimInv, HeldRowIsOurs

\* No row a worker holds is stalled, so reclaim_stalled and claim pass it by.
LEMMA HeldIsNotStalled ==
  ASSUME ClaimInv, NEW w \in Workers, hand[w] # None
  PROVE  /\ hand[w] \in Jobs
         /\ ~Stalled(hand[w])
         /\ ~Ready(hand[w])
<1>1. hand[w] \in Jobs /\ status[hand[w]] = "running" /\ age[hand[w]] \in Int
      /\ age[hand[w]] <= StallAfter
  BY JobQueueAssumption DEF ClaimInv, TypeOK, HeldRowIsOurs
<1>2. ~Stalled(hand[w])
  BY <1>1, JobQueueAssumption DEF Stalled
<1>3. ReclaimedStatus[hand[w]] = "running"
  BY <1>1, <1>2 DEF ReclaimedStatus
<1> QED BY <1>1, <1>2, <1>3 DEF Ready

\* Held rows belong to one worker each: locked_by names it.
LEMMA ClaimIsExclusive == ClaimInv => ExclusiveExecution
  BY DEF ClaimInv, TypeOK, HeldRowIsOurs, ExclusiveExecution

LEMMA ClaimStep ==
  ASSUME ~Overruns, ClaimInv, [Next]_vars
  PROVE  ClaimInv'
<1> USE JobQueueAssumption DEF ClaimInv, TypeOK, HeldRowIsOurs
<1>0. TypeOK'
  BY TypeStep
<1>x. ExclusiveExecution
  BY ClaimIsExclusive
<1>1. ASSUME NEW j \in Jobs, NEW d \in Delays, Enqueue(j, d) PROVE ClaimInv'
  BY <1>0, <1>1 DEF Enqueue
<1>2. ASSUME NEW w \in Workers, Claim(w) PROVE ClaimInv'
  <2> PICK j \in Jobs :
        /\ Ready(j)
        /\ status' = [ReclaimedStatus EXCEPT ![j] = "running"]
        /\ lockedBy' = [ReclaimedLock EXCEPT ![j] = w]
        /\ age' = [age EXCEPT ![j] = 0]
        /\ attempts' = [attempts EXCEPT ![j] = @ + 1]
        /\ hand' = [hand EXCEPT ![w] = j]
        /\ seen' = [seen EXCEPT ![w] = attempts[j] + 1]
    BY <1>2 DEF Claim
  <2>1. ASSUME NEW v \in Workers, v # w, hand'[v] # None
        PROVE  /\ status'[hand'[v]] = "running"
               /\ lockedBy'[hand'[v]] = v
               /\ seen'[v] = attempts'[hand'[v]]
               /\ age'[hand'[v]] <= StallAfter
    <3>1. hand'[v] = hand[v]
      BY <2>1
    <3>2. hand[v] \in Jobs /\ ~Stalled(hand[v]) /\ ~Ready(hand[v])
      BY <2>1, <3>1, HeldIsNotStalled
    <3>3. hand[v] # j
      BY <3>2
    <3> QED BY <2>1, <3>1, <3>2, <3>3 DEF ReclaimedStatus, ReclaimedLock
  <2>2. /\ hand'[w] = j
        /\ status'[j] = "running"
        /\ lockedBy'[j] = w
        /\ seen'[w] = attempts'[j]
        /\ age'[j] <= StallAfter
    BY DEF ReclaimedStatus, ReclaimedLock
  <2> QED BY <1>0, <2>1, <2>2
<1>3. ASSUME NEW w \in Workers, Complete(w) PROVE ClaimInv'
  BY <1>0, <1>3, <1>x DEF Complete, LetGo, ExclusiveExecution
<1>4. ASSUME NEW w \in Workers, Fail(w) PROVE ClaimInv'
  BY <1>0, <1>4, <1>x DEF Fail, LetGo, ExclusiveExecution
<1>5. ASSUME NEW w \in Workers, Raise(w) \/ Crash(w) PROVE ClaimInv'
  BY <1>0, <1>5 DEF Raise, Crash, LetGo, rows
<1>6. ASSUME NEW w \in Workers, Stop(w) \/ Exit(w) \/ Restart(w) PROVE ClaimInv'
  BY <1>0, <1>6 DEF Stop, Exit, Restart, rows
<1>7. CASE ReclaimStalled
  <2>1. \A w \in Workers : hand[w] # None => hand[w] \in Jobs /\ ~Stalled(hand[w])
    BY HeldIsNotStalled
  <2> QED BY <1>0, <1>7, <2>1 DEF ReclaimStalled, ReclaimedStatus, ReclaimedLock
<1>8. CASE Tick
  <2>1. \A w \in Workers : hand[w] # None => age[hand[w]] < StallAfter
    BY <1>8 DEF Tick, AtTheLimit
  <2>2. \A w \in Workers : hand[w] # None => age'[hand[w]] <= StallAfter
    BY <1>8, <2>1 DEF Tick
  <2> QED BY <1>0, <1>8, <2>2 DEF Tick
<1>9. CASE UNCHANGED vars
  BY <1>0, <1>9 DEF vars
<1> QED BY <1>1, <1>2, <1>3, <1>4, <1>5, <1>6, <1>7, <1>8, <1>9 DEF Next

\* Where STALL_AFTER outlasts the slowest job, a handler never writes to a row that
\* is not its own: complete() and fail() need no check of their own.
THEOREM HandlersOwnTheirRows ==
  ASSUME ~Overruns
  PROVE  Spec => []HeldRowIsOurs
<1>1. ClaimInv /\ [Next]_vars => ClaimInv'
  BY ClaimStep
<1>2. ClaimInv => HeldRowIsOurs
  BY DEF ClaimInv
<1> QED BY <1>1, <1>2, ClaimInit, PTL DEF Spec

\* Where STALL_AFTER outlasts the slowest job, no job runs twice at once.
THEOREM OneWorkerPerJob ==
  ASSUME ~Overruns
  PROVE  Spec => []ExclusiveExecution
<1>1. ClaimInv /\ [Next]_vars => ClaimInv'
  BY ClaimStep
<1> QED BY <1>1, ClaimInit, ClaimIsExclusive, PTL DEF Spec

-----------------------------------------------------------------------------
LEMMA TerminalStep ==
  ASSUME ClaimInv, [Next]_vars, NEW j \in Jobs, status[j] \in Terminal
  PROVE  status'[j] = status[j]
<1> USE DEF ClaimInv, TypeOK, HeldRowIsOurs, Terminal
<1>1. ASSUME NEW k \in Jobs, NEW d \in Delays, Enqueue(k, d) PROVE status'[j] = status[j]
  BY <1>1 DEF Enqueue
<1>2. ASSUME NEW w \in Workers, Claim(w) PROVE status'[j] = status[j]
  BY <1>2 DEF Claim, Ready, ReclaimedStatus, Stalled
<1>3. ASSUME NEW w \in Workers, Complete(w) \/ Fail(w) PROVE status'[j] = status[j]
  <2>1. hand[w] \in Jobs /\ status[hand[w]] = "running"
    BY <1>3 DEF Complete, Fail
  <2> QED BY <1>3, <2>1 DEF Complete, Fail
<1>4. ASSUME NEW w \in Workers, Raise(w) \/ Crash(w) \/ Stop(w) \/ Exit(w) \/ Restart(w)
      PROVE status'[j] = status[j]
  BY <1>4 DEF Raise, Crash, Stop, Exit, Restart, rows
<1>5. CASE ReclaimStalled
  BY <1>5 DEF ReclaimStalled, ReclaimedStatus, Stalled
<1>6. CASE Tick \/ UNCHANGED vars
  BY <1>6 DEF Tick, vars
<1> QED BY <1>1, <1>2, <1>3, <1>4, <1>5, <1>6 DEF Next

\* Where STALL_AFTER outlasts the slowest job, no late complete(), fail() or reclaim
\* brings a finished job back.
THEOREM FinishedStaysFinished ==
  ASSUME ~Overruns
  PROVE  Spec => TerminalIsFinal
<1>1. ClaimInv /\ [Next]_vars => ClaimInv'
  BY ClaimStep
<1>2. ClaimInv /\ [Next]_vars
        => [\A j \in Jobs : status[j] \in Terminal => status'[j] = status[j]]_vars
  BY TerminalStep
<1> QED BY <1>1, <1>2, ClaimInit, PTL DEF Spec, TerminalIsFinal

-----------------------------------------------------------------------------
\* Each step of the queue is a step of its contract, or one the contract does not see.
LEMMA ContractStep ==
  ASSUME ClaimInv, [Next]_vars
  PROVE  [Contract!ContractNext]_(Contract!contractVars)
<1> USE JobQueueAssumption DEF ClaimInv, TypeOK, Contract!contractVars
<1> DEFINE reclaimed == {j \in Jobs : Stalled(j)}
<1>a. ReclaimedStatus = Contract!PutBack(reclaimed)
  BY DEF ReclaimedStatus, Contract!PutBack
<1>b. \A k \in reclaimed : Contract!Orphan(k)
  BY HeldIsNotStalled DEF Contract!Orphan, Stalled
<1>c. reclaimed \in SUBSET Jobs
  OBVIOUS
<1> HIDE DEF reclaimed
<1>1. ASSUME NEW j \in Jobs, NEW d \in Delays, Enqueue(j, d) PROVE Contract!ContractNext
  <2>1. Contract!Submit(j)
    BY <1>1 DEF Enqueue, Contract!Submit
  <2> QED BY <2>1 DEF Contract!ContractNext
<1>2. ASSUME NEW w \in Workers, Claim(w) PROVE Contract!ContractNext
  <2> PICK j \in Jobs :
        /\ Ready(j)
        /\ status' = [ReclaimedStatus EXCEPT ![j] = "running"]
        /\ attempts' = [attempts EXCEPT ![j] = @ + 1]
        /\ hand' = [hand EXCEPT ![w] = j]
    BY <1>2 DEF Claim
  <2>1. Contract!PutBack(reclaimed)[j] = "pending"
    BY <1>a DEF Ready
  <2>2. Contract!Take(w, j, reclaimed)
    BY <1>2, <1>a, <1>b, <2>1 DEF Claim, Contract!Take
  <2> QED BY <1>c, <2>2 DEF Contract!ContractNext
<1>3. ASSUME NEW w \in Workers, Complete(w) PROVE Contract!ContractNext
  <2>1. Contract!End(w, "done")
    BY <1>3 DEF Complete, LetGo, Contract!End
  <2> QED BY <2>1 DEF Contract!ContractNext
<1>4. ASSUME NEW w \in Workers, Fail(w) PROVE Contract!ContractNext
  <2> DEFINE outcome == IF Exhausted(w) THEN "failed" ELSE "pending"
  <2>1. hand[w] \in Jobs /\ seen[w] = attempts[hand[w]] /\ seen[w] \in Nat
    BY <1>4 DEF Fail, HeldRowIsOurs
  <2>2. /\ outcome = "pending" => attempts[hand[w]] < MaxAttempts
        /\ outcome = "failed" => attempts[hand[w]] >= MaxAttempts
    BY <2>1 DEF Exhausted
  <2>3. Contract!End(w, outcome)
    BY <1>4, <2>2 DEF Fail, LetGo, Contract!End
  <2> QED BY <2>3 DEF Contract!ContractNext
<1>5. ASSUME NEW w \in Workers, Raise(w) \/ Crash(w) PROVE Contract!ContractNext
  <2>1. Contract!Lose(w)
    BY <1>5 DEF Raise, Crash, LetGo, rows, Contract!Lose
  <2> QED BY <2>1 DEF Contract!ContractNext
<1>6. CASE ReclaimStalled
  <2>1. Contract!Recover(reclaimed)
    BY <1>6, <1>a, <1>b DEF ReclaimStalled, Contract!Recover
  <2> QED BY <1>c, <2>1 DEF Contract!ContractNext
<1>7. ASSUME NEW w \in Workers, Stop(w) \/ Exit(w) \/ Restart(w)
      PROVE UNCHANGED Contract!contractVars
  BY <1>7 DEF Stop, Exit, Restart, rows
<1>8. CASE Tick \/ UNCHANGED vars
  BY <1>8 DEF Tick, vars
<1> QED BY <1>1, <1>2, <1>3, <1>4, <1>5, <1>6, <1>7, <1>8 DEF Next

\* Where STALL_AFTER outlasts the slowest job, the queue with its clock, locks,
\* crashes and reclaims is one that hands each job to at most one worker.
THEOREM QueueImplementsContract ==
  ASSUME ~Overruns
  PROVE  Spec => ImplementsContract
<1>1. ClaimInv /\ [Next]_vars => ClaimInv'
  BY ClaimStep
<1>2. Init => Contract!ContractInit
  BY DEF Init, Contract!ContractInit
<1>3. ClaimInv /\ [Next]_vars => [Contract!ContractNext]_(Contract!contractVars)
  BY ContractStep
<1> QED BY <1>1, <1>2, <1>3, ClaimInit, PTL
        DEF Spec, ImplementsContract, Contract!ContractSpec

-----------------------------------------------------------------------------
(***************************************************************************)
(* Proofs about Intake, where the analysis and the reply jobs of the queue *)
(* come from, for any deliveries, messages, customers and team.            *)
(*                                                                         *)
(* What a task has stored, or finds stored, since its last lost race stays *)
(* stored (StoredFor).  That only people move a chat without team rules    *)
(* rests on the row lock: one task has a chat locked (HeldBy, HeldApart)   *)
(* and gives away only what it has locked and has found nobody's           *)
(* (GivenBy), which stays nobody's until the task ends.                    *)
(***************************************************************************)

Rows == [pc: PCs, at: Nat \ {0}, cut: Nat, s: Sessions]
Looping == {"lookup", "create", "store", "route"}

\* Where a task is in its delivery.
PlaceInv ==
  \A d \in Deliveries :
    /\ tx[d].pc \in {"unsent", "accepted"} => tx[d].at = 1
    /\ tx[d].pc \in Looping => tx[d].at \in DOMAIN Batch[d]

Stored(d, i) == Batch[d][i] \in stored \cup tx[d].s.rows

\* What a task has gone through since its last lost race it has stored, or finds stored.
StoredFor(d) ==
  \A i \in DOMAIN Batch[d] :
    /\ tx[d].pc \in Looping /\ tx[d].cut <= i /\ i < tx[d].at => Stored(d, i)
    /\ tx[d].pc = "route" /\ i = tx[d].at => Stored(d, i)
    /\ tx[d].pc = "commit" /\ tx[d].cut <= i => Stored(d, i)
    /\ tx[d].pc = "done" /\ tx[d].cut <= i => Batch[d][i] \in stored

StoredInv == \A d \in Deliveries : StoredFor(d)

\* A customer's row is locked by one task, which knows the customer.
HeldBy(d) ==
  /\ tx[d].s.held \subseteq known \cup tx[d].s.ids
  /\ tx[d].pc = "store" => Sender(d) \in known \cup tx[d].s.ids
  /\ tx[d].pc = "route" => Sender(d) \in tx[d].s.held

HeldApart == \A d, e \in Deliveries : d # e => tx[d].s.held \cap tx[e].s.held = {}

HeldInv == (\A d \in Deliveries : HeldBy(d)) /\ HeldApart

\* Without team rules a task gives away only chats that it has locked and that are nobody's.
GivenBy(d) ==
  \A c \in Customers : tx[d].s.new[c].owner # NoOne => c \in tx[d].s.held /\ chat[c].owner = NoOne

GivenInv == setup.sharing = "no_team" => \A d \in Deliveries : GivenBy(d)


-----------------------------------------------------------------------------
(* The operators.                                                          *)

LEMMA ConstantTypes ==
  /\ Batches \subseteq [Deliveries -> Seq(Messages)] /\ From \in [Messages -> Customers]
  /\ MaxFailures \in Nat /\ MaxTouches \in Nat /\ NoOne \notin People
  BY BatchAssumption, FromAssumption, RotaAssumption, BoundAssumption DEF People

\* Whoever is first in line is one of those asked about.
LEMMA FirstType == ASSUME NEW order, NEW S PROVE FirstOf(order, S) \in S \cup {NoOne}
<1> DEFINE first == {u \in S : \A v \in S : <<u, v>> \in order}
<1>1. first # {} => (CHOOSE u \in first : TRUE) \in first
  OBVIOUS
<1>2. FirstOf(order, S) = IF first = {} THEN NoOne ELSE CHOOSE u \in first : TRUE
  BY DEF FirstOf
<1> QED
  BY <1>1, <1>2

LEMMA BehindType ==
  ASSUME NEW order \in SUBSET (People \X People), NEW given \in SUBSET (People \X People)
  PROVE  Behind(order, given) \in SUBSET (People \X People)
  BY DEF Behind

LEMMA GiveType ==
  ASSUME NEW given \in SUBSET (People \X People), NEW u \in People
  PROVE  Give(given, u) \in SUBSET (People \X People)
  BY DEF Give

LEMMA FreshType == Fresh \in Sessions
  BY DEF Fresh, Sessions, Unread, Copies, Chats

LEMMA CopyType == ASSUME NEW r \in Chats PROVE Copy(r) \in Copies
  BY DEF Copy, Chats, Copies

LEMMA SetupTypes ==
  ASSUME setup \in Setups
  PROVE  Batch \in [Deliveries -> Seq(Messages)] /\ setup.free \subseteq People
  BY ConstantTypes DEF Setups, Batch

\* The message a task is at, and who wrote it.
LEMMA CurType ==
  ASSUME setup \in Setups, NEW d \in Deliveries, tx[d].at \in DOMAIN Batch[d]
  PROVE  Cur(d) \in Messages /\ Sender(d) \in Customers
<1>1. Batch[d] \in Seq(Messages)
  BY SetupTypes
<1>2. Cur(d) \in Messages
  BY <1>1 DEF Cur
<1> QED
  BY <1>2, ConstantTypes DEF Sender

\* Giving a chat of the session to somebody.
LEMMA GaveType ==
  ASSUME NEW s \in Sessions, NEW c \in Customers, NEW u \in People
  PROVE  [s EXCEPT !.new[c].owner = u, !.given = Give(@, u)] \in Sessions
<1>1. Give(s.given, u) \in SUBSET (People \X People)
  BY GiveType DEF Sessions
<1>2. [s.new EXCEPT ![c].owner = u] \in [Customers -> Chats]
  BY DEF Sessions, Chats
<1> QED
  BY <1>1, <1>2 DEF Sessions

LEMMA JoinedType ==
  ASSUME NEW s \in Sessions, NEW c \in Customers
  PROVE  [s EXCEPT !.new[c].team = TRUE] \in Sessions
<1>1. [s.new EXCEPT ![c].team = TRUE] \in [Customers -> Chats]
  BY Zenon DEF Sessions, Chats
<1> QED
  BY <1>1 DEF Sessions

\* What routing can make of a session: nothing, a chat in its team, a chat given to somebody,
\* or an agent's row locked.
LEMMA RoutedCases ==
  ASSUME NEW d, NEW c, setup \in Setups
  PROVE  LET s == tx[d].s
             give(u) == [s EXCEPT !.new[c].owner = u, !.given = Give(@, u)]
             joined(t) == [t EXCEPT !.new[c].team = TRUE]
         IN \/ RoutedSession(d, c) = s
            \/ RoutedSession(d, c) = joined(s) /\ setup.sharing # "no_team"
            \/ \E u \in People : RoutedSession(d, c) = joined(give(u)) /\ setup.sharing # "no_team"
            \/ \E u \in People : RoutedSession(d, c) = [give(u) EXCEPT !.picked = @ \cup {u}] /\ Seen(d, c).owner = NoOne
            \/ \E u \in People : RoutedSession(d, c) = [s EXCEPT !.picked = @ \cup {u}]
<1> DEFINE s == tx[d].s
           give(u) == [s EXCEPT !.new[c].owner = u, !.given = Give(@, u)]
           joined(t) == [t EXCEPT !.new[c].team = TRUE]
           f == FreeFor(d)
           p == PickFor(d)
<1>1. f = NoOne \/ f \in People
  BY FirstType, SetupTypes DEF FreeFor
<1>2. p = NoOne \/ p \in People
  <2>1. Unlocked(d) \subseteq People
    BY SetupTypes DEF Unlocked
  <2> QED
    BY <2>1, FirstType DEF PickFor
<1>3. setup.sharing \in {"round_robin", "queue", "no_team"}
  BY DEF Setups
<1>4. RoutedSession(d, c) =
        IF s.copy[c].owner # NoOne \/ s.copy[c].team THEN s ELSE
        CASE setup.sharing = "queue" \/ (setup.sharing = "round_robin" /\ ~AssignNow) -> joined(s)
          [] setup.sharing = "round_robin" /\ AssignNow ->
               joined(IF f = NoOne THEN s ELSE give(f))
          [] setup.sharing = "no_team" /\ (~AssignNow \/ p = NoOne) -> s
          [] OTHER -> [(IF Seen(d, c).owner = NoOne THEN give(p) ELSE s)
                       EXCEPT !.picked = @ \cup {p}]
  BY DEF RoutedSession
<1> HIDE DEF s, give, joined, f, p
<1>5. \/ RoutedSession(d, c) = s
      \/ RoutedSession(d, c) = joined(s) /\ setup.sharing # "no_team"
      \/ RoutedSession(d, c) = joined(give(f)) /\ f # NoOne /\ setup.sharing # "no_team"
      \/ RoutedSession(d, c) = [give(p) EXCEPT !.picked = @ \cup {p}] /\ p # NoOne /\ Seen(d, c).owner = NoOne
      \/ RoutedSession(d, c) = [s EXCEPT !.picked = @ \cup {p}] /\ p # NoOne
  <2>1. CASE s.copy[c].owner # NoOne \/ s.copy[c].team
    BY <1>4, <2>1
  <2>2. CASE /\ ~(s.copy[c].owner # NoOne \/ s.copy[c].team)
             /\ setup.sharing = "queue" \/ (setup.sharing = "round_robin" /\ ~AssignNow)
    BY <1>4, <2>2
  <2>3. CASE /\ ~(s.copy[c].owner # NoOne \/ s.copy[c].team)
             /\ setup.sharing = "round_robin" /\ AssignNow
    BY <1>4, <2>3
  <2>4. CASE /\ ~(s.copy[c].owner # NoOne \/ s.copy[c].team)
             /\ setup.sharing = "no_team" /\ (~AssignNow \/ p = NoOne)
    BY <1>4, <2>4
  <2>5. CASE /\ ~(s.copy[c].owner # NoOne \/ s.copy[c].team)
             /\ setup.sharing = "no_team" /\ AssignNow /\ p # NoOne
    BY <1>4, <2>5
  <2> QED
    BY <1>3, <2>1, <2>2, <2>3, <2>4, <2>5
<1> QED
  BY <1>1, <1>2, <1>5, Zenon DEF s, give, joined

LEMMA RoutedType ==
  ASSUME setup \in Setups, NEW d, tx[d].s \in Sessions, NEW c \in Customers
  PROVE  RoutedSession(d, c) \in Sessions
<1> DEFINE s == tx[d].s
           give(u) == [s EXCEPT !.new[c].owner = u, !.given = Give(@, u)]
           joined(t) == [t EXCEPT !.new[c].team = TRUE]
           pick(t, u) == [t EXCEPT !.picked = @ \cup {u}]
<1>1. s \in Sessions
  OBVIOUS
<1>2. \A u \in People : give(u) \in Sessions
  BY GaveType
<1>3. \A t \in Sessions : joined(t) \in Sessions
  BY JoinedType
<1>4. ASSUME NEW t \in Sessions, NEW u \in People
      PROVE  pick(t, u) \in Sessions
  <2>1. t.picked \cup {u} \in SUBSET People
    BY DEF Sessions
  <2>2. pick(t, u) = [t EXCEPT !.picked = t.picked \cup {u}]
    OBVIOUS
  <2> HIDE DEF pick
  <2> QED
    BY <2>1, <2>2, Zenon DEF Sessions
<1>5. \/ RoutedSession(d, c) = s
      \/ RoutedSession(d, c) = joined(s)
      \/ \E u \in People : RoutedSession(d, c) = joined(give(u))
      \/ \E u \in People : RoutedSession(d, c) = pick(give(u), u)
      \/ \E u \in People : RoutedSession(d, c) = pick(s, u)
  BY RoutedCases
<1> HIDE DEF s, give, joined, pick
<1> QED
  BY <1>1, <1>2, <1>3, <1>4, <1>5

-----------------------------------------------------------------------------
(* Types and places.                                                       *)

IntakeTypeInv == IntakeTypeOK /\ PlaceInv

LEMMA RowFields ==
  ASSUME IntakeTypeOK, NEW d \in Deliveries
  PROVE  /\ tx[d] \in Rows /\ tx[d].s \in Sessions /\ tx[d].pc \in PCs
         /\ tx[d].at \in Nat \ {0} /\ tx[d].cut \in Nat
         /\ setup \in Setups /\ Batch[d] \in Seq(Messages) /\ Len(Batch[d]) \in Nat
         /\ DOMAIN Batch[d] = 1 .. Len(Batch[d])
<1>1. tx[d] \in Rows /\ setup \in Setups
  BY DEF IntakeTypeOK, Rows
<1>2. Batch[d] \in Seq(Messages)
  BY <1>1, SetupTypes
<1> QED
  BY <1>1, <1>2 DEF Rows

LEMMA InitTypes == IntakeInit => IntakeTypeInv
<1> SUFFICES ASSUME IntakeInit PROVE IntakeTypeInv
  OBVIOUS
<1>1. tx \in [Deliveries -> Rows]
  BY FreshType DEF IntakeInit, Rows, PCs
<1>2. turn \subseteq People \X People
  BY DEF IntakeInit
<1>3. worker \in [Messages -> [pc: {"idle", "loaded", "done"}, copy: Copies]]
  BY DEF IntakeInit, Unread, Copies
<1>4. chat \in [Customers -> Chats]
  BY DEF IntakeInit, Chats
<1>5. IntakeTypeOK
  <2>1. failures \in 0 .. MaxFailures /\ touches \in 0 .. MaxTouches
    BY ConstantTypes DEF IntakeInit
  <2>2. setup \in Setups /\ known \subseteq Customers /\ stored \subseteq Messages /\ queued \subseteq Messages
    BY DEF IntakeInit
  <2> QED
    BY <1>1, <1>2, <1>3, <1>4, <2>1, <2>2 DEF IntakeTypeOK, Rows
<1>6. PlaceInv
  BY DEF IntakeInit, PlaceInv, Looping
<1> QED
  BY <1>5, <1>6 DEF IntakeTypeInv

\* The next message of a delivery, or its commit.
LEMMA AdvanceType ==
  ASSUME IntakeTypeInv, NEW d \in Deliveries, NEW t \in Rows, t.at = tx[d].at, tx[d].at \in DOMAIN Batch[d]
  PROVE  /\ Advance(d, t) \in Rows
         /\ Advance(d, t).pc \in {"lookup", "commit"}
         /\ Advance(d, t).pc = "lookup" => Advance(d, t).at \in DOMAIN Batch[d] /\ Advance(d, t).at = tx[d].at + 1
         /\ Advance(d, t).pc = "commit" => tx[d].at = Len(Batch[d])
         /\ Advance(d, t).cut = t.cut /\ Advance(d, t).s = t.s
<1>1. IntakeTypeOK
  BY DEF IntakeTypeInv
<1>2. tx[d].at \in 1 .. Len(Batch[d]) /\ Len(Batch[d]) \in Nat /\ DOMAIN Batch[d] = 1 .. Len(Batch[d])
  BY <1>1, RowFields
<1> DEFINE n == Advance(d, t)
<1>3. n = [t EXCEPT !.pc = NextOf(d), !.at = IF @ = Len(Batch[d]) THEN @ ELSE @ + 1]
  BY DEF Advance
<1>4. /\ n.pc = NextOf(d) /\ n.cut = t.cut /\ n.s = t.s
      /\ n.at = IF tx[d].at = Len(Batch[d]) THEN tx[d].at ELSE tx[d].at + 1
  BY <1>3 DEF Rows
<1>5. n.at \in Nat \ {0} /\ n.pc \in {"lookup", "commit"}
  BY <1>2, <1>4 DEF NextOf
<1>6. n \in Rows
  BY <1>3, <1>4, <1>5 DEF Rows, PCs
<1>7. n.pc = "lookup" => n.at \in DOMAIN Batch[d] /\ n.at = tx[d].at + 1
  BY <1>2, <1>4 DEF NextOf
<1>8. n.pc = "commit" => tx[d].at = Len(Batch[d])
  BY <1>4 DEF NextOf
<1> QED
  BY <1>4, <1>5, <1>6, <1>7, <1>8

\* What a task's row may become.
Fits(d, t) ==
  /\ t \in Rows
  /\ t.pc \in {"unsent", "accepted"} => t.at = 1
  /\ t.pc \in Looping => t.at \in DOMAIN Batch[d]

\* A step of one task keeps types and places when its own row fits.
LEMMA OwnRow ==
  ASSUME IntakeTypeInv, NEW d \in Deliveries, NEW t, Fits(d, t), tx' = [tx EXCEPT ![d] = t],
         UNCHANGED <<setup, worker, touches>>,
         known' \subseteq Customers, stored' \subseteq Messages, queued' \subseteq Messages,
         chat' \in [Customers -> Chats], turn' \subseteq People \X People, failures' \in 0 .. MaxFailures
  PROVE  /\ IntakeTypeInv'
         /\ tx'[d] = t
         /\ \A e \in Deliveries \ {d} : tx'[e] = tx[e]
<1>1. tx \in [Deliveries -> Rows]
  BY DEF IntakeTypeInv, IntakeTypeOK, Rows
<1>2. tx' \in [Deliveries -> Rows] /\ tx'[d] = t /\ \A e \in Deliveries \ {d} : tx'[e] = tx[e]
  BY <1>1 DEF Fits
<1>3. Batch' = Batch
  BY DEF Batch
<1>4. PlaceInv'
  BY <1>2, <1>3 DEF PlaceInv, IntakeTypeInv, Fits
<1>5. IntakeTypeOK'
  BY <1>2 DEF IntakeTypeInv, IntakeTypeOK, Rows
<1> QED
  BY <1>2, <1>4, <1>5 DEF IntakeTypeInv

LEMMA RestTypes ==
  ASSUME IntakeTypeInv
  PROVE  /\ known \subseteq Customers /\ stored \subseteq Messages /\ queued \subseteq Messages
         /\ chat \in [Customers -> Chats] /\ turn \subseteq People \X People
         /\ failures \in 0 .. MaxFailures /\ failures \in Nat /\ MaxFailures \in Nat
         /\ (failures < MaxFailures => failures + 1 \in 0 .. MaxFailures)
  BY ConstantTypes DEF IntakeTypeInv, IntakeTypeOK

LEMMA AcceptTypes ==
  ASSUME IntakeTypeInv, NEW d \in Deliveries, Accept(d)
  PROVE  IntakeTypeInv' /\ tx'[d] = [tx[d] EXCEPT !.pc = "accepted"] /\ \A e \in Deliveries \ {d} : tx'[e] = tx[e]
<1> DEFINE t == [tx[d] EXCEPT !.pc = "accepted"]
<1>1. Fits(d, t)
  BY RowFields DEF IntakeTypeInv, PlaceInv, Accept, Fits, Rows, PCs, Looping
<1>2. tx' = [tx EXCEPT ![d] = t]
  BY DEF Accept, IntakeTypeInv, IntakeTypeOK
<1> HIDE DEF t
<1>3. IntakeTypeInv' /\ tx'[d] = t /\ \A e \in Deliveries \ {d} : tx'[e] = tx[e]
  BY <1>1, <1>2, OwnRow, RestTypes DEF Accept
<1> QED
  BY <1>3 DEF t

LEMMA BeginTypes ==
  ASSUME IntakeTypeInv, NEW d \in Deliveries, Begin(d)
  PROVE  /\ IntakeTypeInv' /\ tx'[d] = [tx[d] EXCEPT !.pc = IF Batch[d] = <<>> THEN "commit" ELSE "lookup"]
         /\ \A e \in Deliveries \ {d} : tx'[e] = tx[e]
<1> DEFINE t == [tx[d] EXCEPT !.pc = IF Batch[d] = <<>> THEN "commit" ELSE "lookup"]
<1>1. Fits(d, t)
  <2>1. t \in Rows /\ t.at = tx[d].at /\ t.pc = (IF Batch[d] = <<>> THEN "commit" ELSE "lookup")
    BY RowFields DEF IntakeTypeInv, Rows, PCs
  <2>2. tx[d].at = 1
    BY DEF IntakeTypeInv, PlaceInv, Begin
  <2>3. Batch[d] # <<>> => 1 \in DOMAIN Batch[d]
    BY RowFields DEF IntakeTypeInv
  <2> HIDE DEF t
  <2> QED
    BY <2>1, <2>2, <2>3 DEF Fits, Looping
<1>2. tx' = [tx EXCEPT ![d] = t]
  BY DEF Begin, IntakeTypeInv, IntakeTypeOK
<1> HIDE DEF t
<1>3. IntakeTypeInv' /\ tx'[d] = t /\ \A e \in Deliveries \ {d} : tx'[e] = tx[e]
  BY <1>1, <1>2, OwnRow, RestTypes DEF Begin
<1> QED
  BY <1>3 DEF t

\* The row of a task that has loaded the sender of its message, if it had not.
LoadedCopy(d) ==
  LET c == Sender(d) IN
    [tx[d].s.copy EXCEPT ![c] = IF tx[d].s.copy[c].read THEN tx[d].s.copy[c] ELSE Copy(chat[c])]
Loaded(d) == [tx[d] EXCEPT !.pc = "store", !.s = [tx[d].s EXCEPT !.copy = LoadedCopy(d)]]

LEMMA LoadedType ==
  ASSUME IntakeTypeInv, NEW d \in Deliveries, tx[d].at \in DOMAIN Batch[d]
  PROVE  /\ Fits(d, Loaded(d)) /\ Loaded(d).pc = "store" /\ Loaded(d).at = tx[d].at /\ Loaded(d).cut = tx[d].cut
         /\ Loaded(d).s.rows = tx[d].s.rows /\ Loaded(d).s.held = tx[d].s.held /\ Loaded(d).s.ids = tx[d].s.ids
         /\ Loaded(d).s.new = tx[d].s.new
<1> DEFINE c == Sender(d)
           copy == LoadedCopy(d)
<1>1. c \in Customers /\ tx[d] \in Rows /\ tx[d].s \in Sessions
  BY CurType, RowFields DEF IntakeTypeInv
<1>2. chat[c] \in Chats
  BY <1>1, RestTypes
<1>3. copy \in [Customers -> Copies]
  BY <1>1, <1>2, CopyType DEF Sessions, LoadedCopy
<1>4. Loaded(d) = [tx[d] EXCEPT !.pc = "store", !.s = [tx[d].s EXCEPT !.copy = copy]]
  BY <1>1 DEF Loaded, Rows, Sessions
<1> HIDE DEF copy, c
<1>5. [tx[d].s EXCEPT !.copy = copy] \in Sessions
  BY <1>1, <1>3 DEF Sessions
<1>6. Loaded(d) \in Rows
  BY <1>1, <1>4, <1>5 DEF Rows, PCs
<1> QED
  BY <1>1, <1>4, <1>6 DEF Fits, Rows, Sessions

LEMMA LookupTypes ==
  ASSUME IntakeTypeInv, NEW d \in Deliveries, Lookup(d)
  PROVE  /\ IntakeTypeInv' /\ \A e \in Deliveries \ {d} : tx'[e] = tx[e]
         /\ tx[d].pc = "lookup" /\ tx[d].at \in DOMAIN Batch[d]
         /\ \/ Cur(d) \in stored \cup tx[d].s.rows /\ tx'[d] = Advance(d, tx[d])
            \/ Sender(d) \in known \cup tx[d].s.ids /\ tx'[d] = Loaded(d)
            \/ tx'[d] = [tx[d] EXCEPT !.pc = "create"]
<1>1. tx[d].pc = "lookup" /\ tx[d].at \in DOMAIN Batch[d]
  BY DEF IntakeTypeInv, PlaceInv, Lookup, Looping
<1>2. tx[d] \in Rows /\ tx[d].s \in Sessions /\ tx \in [Deliveries -> Rows]
  BY RowFields DEF IntakeTypeInv, IntakeTypeOK, Rows
<1>3. UNCHANGED <<setup, known, stored, queued, chat, turn, worker, failures, touches>>
  BY DEF Lookup
<1>4. CASE Cur(d) \in stored \cup tx[d].s.rows /\ tx' = [tx EXCEPT ![d] = Advance(d, @)]
  <2>1. Fits(d, Advance(d, tx[d]))
    BY <1>1, <1>2, AdvanceType DEF Fits, Looping
  <2>2. tx' = [tx EXCEPT ![d] = Advance(d, tx[d])]
    BY <1>4
  <2> QED
    BY <1>1, <1>3, <1>4, <2>1, <2>2, OwnRow, RestTypes
<1>5. CASE /\ Sender(d) \in known \cup tx[d].s.ids
           /\ tx' = [tx EXCEPT ![d].pc = "store",
                               ![d].s.copy[Sender(d)] = IF @.read THEN @ ELSE Copy(chat[Sender(d)])]
  <2>1. Fits(d, Loaded(d))
    BY <1>1, LoadedType
  <2>2. tx' = [tx EXCEPT ![d] = Loaded(d)]
    BY <1>2, <1>5 DEF Loaded, LoadedCopy, Rows, Sessions
  <2> QED
    BY <1>1, <1>3, <1>5, <2>1, <2>2, OwnRow, RestTypes
<1>6. CASE tx' = [tx EXCEPT ![d].pc = "create"]
  <2> DEFINE t == [tx[d] EXCEPT !.pc = "create"]
  <2>1. Fits(d, t)
    BY <1>1, <1>2 DEF Fits, Rows, PCs
  <2>2. tx' = [tx EXCEPT ![d] = t]
    BY <1>2, <1>6
  <2> HIDE DEF t
  <2>3. IntakeTypeInv' /\ tx'[d] = t /\ \A e \in Deliveries \ {d} : tx'[e] = tx[e]
    BY <1>3, <2>1, <2>2, OwnRow, RestTypes
  <2> QED
    BY <1>1, <2>3 DEF t
<1> QED
  BY <1>4, <1>5, <1>6 DEF Lookup


\* The session after a lost race for an identity: rolled back, the winner loaded.
Reloaded(d) ==
  [tx[d] EXCEPT !.pc = "store", !.cut = tx[d].at,
                !.s = [Fresh EXCEPT !.copy[Sender(d)] = Copy(chat[Sender(d)])]]

\* The session that has made the customer.
Made(d) ==
  LET c == Sender(d)
      s == tx[d].s
  IN [tx[d] EXCEPT !.pc = "store",
                   !.s = [s EXCEPT !.ids = s.ids \cup {c}, !.held = s.held \cup {c},
                                   !.copy = [s.copy EXCEPT ![c] = Copy(chat[c])]]]

LEMMA ReloadedType ==
  ASSUME IntakeTypeInv, NEW d \in Deliveries, tx[d].at \in DOMAIN Batch[d]
  PROVE  /\ Fits(d, Reloaded(d)) /\ Reloaded(d).pc = "store"
         /\ Reloaded(d).at = tx[d].at /\ Reloaded(d).cut = tx[d].at
         /\ Reloaded(d).s.rows = {} /\ Reloaded(d).s.held = {} /\ Reloaded(d).s.ids = {}
         /\ Reloaded(d).s.new = Fresh.new
<1> DEFINE c == Sender(d)
           s == [Fresh EXCEPT !.copy[c] = Copy(chat[c])]
<1>1. c \in Customers /\ tx[d] \in Rows
  BY CurType, RowFields DEF IntakeTypeInv
<1>2. Copy(chat[c]) \in Copies
  BY <1>1, RestTypes, CopyType
<1>3. s \in Sessions
  <2>1. [Fresh.copy EXCEPT ![c] = Copy(chat[c])] \in [Customers -> Copies]
    BY <1>1, <1>2, FreshType DEF Sessions
  <2> QED
    BY <2>1, FreshType DEF Sessions
<1>4. s.rows = {} /\ s.held = {} /\ s.ids = {} /\ s.new = Fresh.new
  BY DEF Fresh
<1>5. Reloaded(d) = [tx[d] EXCEPT !.pc = "store", !.cut = tx[d].at, !.s = s]
  BY DEF Reloaded
<1> HIDE DEF s, c
<1>6. Reloaded(d) \in Rows
  BY <1>1, <1>3, <1>5 DEF Rows, PCs
<1> QED
  BY <1>1, <1>4, <1>5, <1>6 DEF Fits, Rows

LEMMA MadeType ==
  ASSUME IntakeTypeInv, NEW d \in Deliveries, tx[d].at \in DOMAIN Batch[d]
  PROVE  /\ Fits(d, Made(d)) /\ Made(d).pc = "store" /\ Made(d).at = tx[d].at /\ Made(d).cut = tx[d].cut
         /\ Made(d).s.rows = tx[d].s.rows /\ Made(d).s.new = tx[d].s.new
         /\ Made(d).s.held = tx[d].s.held \cup {Sender(d)} /\ Made(d).s.ids = tx[d].s.ids \cup {Sender(d)}
<1> DEFINE c == Sender(d)
           s == tx[d].s
           n == [s EXCEPT !.ids = s.ids \cup {c}, !.held = s.held \cup {c},
                          !.copy = [s.copy EXCEPT ![c] = Copy(chat[c])]]
<1>1. c \in Customers /\ tx[d] \in Rows /\ s \in Sessions
  BY CurType, RowFields DEF IntakeTypeInv
<1>2. Copy(chat[c]) \in Copies
  BY <1>1, RestTypes, CopyType
<1>3. [s.copy EXCEPT ![c] = Copy(chat[c])] \in [Customers -> Copies]
  BY <1>1, <1>2 DEF Sessions
<1>4. Made(d) = [tx[d] EXCEPT !.pc = "store", !.s = n]
  BY DEF Made
<1>5. n \in Sessions
  BY <1>1, <1>3 DEF Sessions
<1>6. n.ids = s.ids \cup {c} /\ n.held = s.held \cup {c} /\ n.rows = s.rows /\ n.new = s.new
  BY <1>1 DEF Sessions
<1> HIDE DEF n
<1>7. Made(d) \in Rows
  BY <1>1, <1>4, <1>5 DEF Rows, PCs
<1> QED
  BY <1>1, <1>4, <1>6, <1>7 DEF Fits, Rows

LEMMA CreateTypes ==
  ASSUME IntakeTypeInv, NEW d \in Deliveries, Create(d)
  PROVE  /\ IntakeTypeInv' /\ \A e \in Deliveries \ {d} : tx'[e] = tx[e]
         /\ tx[d].pc = "create" /\ tx[d].at \in DOMAIN Batch[d]
         /\ \/ Sender(d) \in known /\ tx'[d] = Reloaded(d)
            \/ Sender(d) \notin known /\ ~IdentityTaken(d, Sender(d)) /\ tx'[d] = Made(d)
<1>1. tx[d].pc = "create" /\ tx[d].at \in DOMAIN Batch[d]
  BY DEF IntakeTypeInv, PlaceInv, Create, Looping
<1>2. tx[d] \in Rows /\ tx[d].s \in Sessions /\ tx \in [Deliveries -> Rows]
  BY RowFields DEF IntakeTypeInv, IntakeTypeOK, Rows
<1>3. UNCHANGED <<setup, known, stored, queued, chat, turn, worker, failures, touches>>
  BY DEF Create
<1>4. CASE Sender(d) \in known
  <2>1. tx' = [tx EXCEPT ![d] = Reloaded(d)]
    BY <1>2, <1>4 DEF Create, Reloaded, Rows
  <2>2. Fits(d, Reloaded(d))
    BY <1>1, ReloadedType
  <2> QED
    BY <1>1, <1>3, <1>4, <2>1, <2>2, OwnRow, RestTypes
<1>5. CASE Sender(d) \notin known
  <2>1. tx' = [tx EXCEPT ![d] = Made(d)]
    <3> DEFINE c == Sender(d)
               n == [[[[tx[d] EXCEPT !.pc = "store"] EXCEPT !.s.ids = tx[d].s.ids \cup {c}]
                     EXCEPT !.s.held = tx[d].s.held \cup {c}] EXCEPT !.s.copy[c] = Copy(chat[c])]
    <3>1. tx' = [tx EXCEPT ![d] = n]
      BY <1>2, <1>5 DEF Create
    <3>2. n = Made(d)
      BY <1>2 DEF Made, Rows, Sessions
    <3> QED
      BY <3>1, <3>2
  <2>2. Fits(d, Made(d))
    BY <1>1, MadeType
  <2>3. ~IdentityTaken(d, Sender(d))
    BY DEF Create
  <2> QED
    BY <1>1, <1>3, <1>5, <2>1, <2>2, <2>3, OwnRow, RestTypes
<1> QED
  BY <1>4, <1>5

\* The session after a lost race for a message; it goes on with the next one.
Skipped(d) == Advance(d, [tx[d] EXCEPT !.cut = tx[d].at, !.s = Fresh])

\* The session that has inserted its message.
Inserted(d) ==
  LET s == tx[d].s IN
    [tx[d] EXCEPT !.pc = "route",
                  !.s = [s EXCEPT !.rows = s.rows \cup {Cur(d)}, !.held = s.held \cup {Sender(d)}]]

LEMMA InsertedType ==
  ASSUME IntakeTypeInv, NEW d \in Deliveries, tx[d].at \in DOMAIN Batch[d]
  PROVE  /\ Fits(d, Inserted(d)) /\ Inserted(d).pc = "route"
         /\ Inserted(d).at = tx[d].at /\ Inserted(d).cut = tx[d].cut
         /\ Inserted(d).s.rows = tx[d].s.rows \cup {Cur(d)} /\ Inserted(d).s.new = tx[d].s.new
         /\ Inserted(d).s.held = tx[d].s.held \cup {Sender(d)} /\ Inserted(d).s.ids = tx[d].s.ids
<1> DEFINE s == tx[d].s
           n == [s EXCEPT !.rows = s.rows \cup {Cur(d)}, !.held = s.held \cup {Sender(d)}]
<1>1. Sender(d) \in Customers /\ Cur(d) \in Messages /\ tx[d] \in Rows /\ s \in Sessions
  BY CurType, RowFields DEF IntakeTypeInv
<1>2. Inserted(d) = [tx[d] EXCEPT !.pc = "route", !.s = n]
  BY DEF Inserted
<1>3. n \in Sessions
  BY <1>1 DEF Sessions
<1>4. n.ids = s.ids /\ n.held = s.held \cup {Sender(d)} /\ n.rows = s.rows \cup {Cur(d)} /\ n.new = s.new
  BY <1>1 DEF Sessions
<1> HIDE DEF n
<1>5. Inserted(d) \in Rows
  BY <1>1, <1>2, <1>3 DEF Rows, PCs
<1> QED
  BY <1>1, <1>2, <1>4, <1>5 DEF Fits, Rows

LEMMA SkippedType ==
  ASSUME IntakeTypeInv, NEW d \in Deliveries, tx[d].at \in DOMAIN Batch[d]
  PROVE  /\ Fits(d, Skipped(d)) /\ Skipped(d).s = Fresh /\ Skipped(d).cut = tx[d].at
         /\ Skipped(d).pc \in {"lookup", "commit"}
         /\ Skipped(d).pc = "lookup" => Skipped(d).at = tx[d].at + 1
         /\ Skipped(d).pc = "commit" => tx[d].at = Len(Batch[d])
<1> DEFINE t == [tx[d] EXCEPT !.cut = tx[d].at, !.s = Fresh]
<1>1. t \in Rows /\ t.at = tx[d].at /\ t.cut = tx[d].at /\ t.s = Fresh
  BY RowFields, FreshType DEF IntakeTypeInv, Rows
<1>2. Skipped(d) = Advance(d, t)
  BY DEF Skipped
<1> HIDE DEF t
<1> QED
  BY <1>1, <1>2, AdvanceType DEF Fits, Looping

LEMMA StoreTypes ==
  ASSUME IntakeTypeInv, NEW d \in Deliveries, Store(d)
  PROVE  /\ IntakeTypeInv' /\ \A e \in Deliveries \ {d} : tx'[e] = tx[e]
         /\ tx[d].pc = "store" /\ tx[d].at \in DOMAIN Batch[d]
         /\ \/ Cur(d) \in stored /\ tx'[d] = Skipped(d)
            \/ ~ChatTaken(d, Sender(d)) /\ tx'[d] = Inserted(d)
<1>1. tx[d].pc = "store" /\ tx[d].at \in DOMAIN Batch[d]
  BY DEF IntakeTypeInv, PlaceInv, Store, Looping
<1>2. tx[d] \in Rows /\ tx[d].s \in Sessions /\ tx \in [Deliveries -> Rows]
  BY RowFields DEF IntakeTypeInv, IntakeTypeOK, Rows
<1>3. UNCHANGED <<setup, known, stored, queued, chat, turn, worker, failures, touches>>
  BY DEF Store
<1>4. CASE Cur(d) \in stored
  <2>1. tx' = [tx EXCEPT ![d] = Skipped(d)]
    BY <1>4 DEF Store, Skipped
  <2>2. Fits(d, Skipped(d))
    BY <1>1, SkippedType
  <2> QED
    BY <1>1, <1>3, <1>4, <2>1, <2>2, OwnRow, RestTypes
<1>5. CASE Cur(d) \notin stored
  <2>1. tx' = [tx EXCEPT ![d] = Inserted(d)]
    <3> DEFINE n == [[[tx[d] EXCEPT !.pc = "route"] EXCEPT !.s.rows = tx[d].s.rows \cup {Cur(d)}]
                     EXCEPT !.s.held = tx[d].s.held \cup {Sender(d)}]
    <3>1. tx' = [tx EXCEPT ![d] = n]
      BY <1>2, <1>5 DEF Store
    <3>2. n = Inserted(d)
      BY <1>2 DEF Inserted, Rows, Sessions
    <3> QED
      BY <3>1, <3>2
  <2>2. Fits(d, Inserted(d))
    BY <1>1, InsertedType
  <2>3. ~ChatTaken(d, Sender(d))
    BY DEF Store
  <2> QED
    BY <1>1, <1>3, <2>1, <2>2, <2>3, OwnRow, RestTypes
<1> QED
  BY <1>4, <1>5


\* Routing changes what the session says of the one customer, and without rules it gives the chat
\* away only when it sees that nobody has it.
LEMMA RoutedFields ==
  ASSUME setup \in Setups, NEW d, tx[d].s \in Sessions, NEW c \in Customers
  PROVE  LET s == tx[d].s
             r == RoutedSession(d, c)
         IN /\ r.rows = s.rows /\ r.held = s.held /\ r.ids = s.ids /\ r.jobs = s.jobs
            /\ setup.sharing = "no_team" =>
                 \A b \in Customers : r.new[b].owner # NoOne =>
                    s.new[b].owner # NoOne \/ (b = c /\ Seen(d, c).owner = NoOne)
<1> DEFINE s == tx[d].s
           r == RoutedSession(d, c)
           give(u) == [s EXCEPT !.new[c].owner = u, !.given = Give(@, u)]
           joined(t) == [t EXCEPT !.new[c].team = TRUE]
           pick(t, u) == [t EXCEPT !.picked = @ \cup {u}]
           same(t) == t.rows = s.rows /\ t.held = s.held /\ t.ids = s.ids /\ t.jobs = s.jobs
<1>1. s \in Sessions
  OBVIOUS
<1>2. ASSUME NEW u \in People
      PROVE  /\ give(u) \in Sessions /\ same(give(u))
             /\ give(u).new = [s.new EXCEPT ![c].owner = u]
  <2>1. give(u) \in Sessions
    BY GaveType
  <2>2. same(give(u))
    BY <1>1 DEF Sessions
  <2>3. give(u).new = [s.new EXCEPT ![c].owner = u]
    BY <1>1 DEF Sessions
  <2> QED
    BY <2>1, <2>2, <2>3
<1>3. \A t \in Sessions : same(t) => same(joined(t))
  BY DEF Sessions
<1>4. \A t \in Sessions : \A u \in People : same(t) => same(pick(t, u)) /\ pick(t, u).new = t.new
  BY DEF Sessions
<1>5. \A u \in People : \A b \in Customers : give(u).new[b].owner # NoOne => s.new[b].owner # NoOne \/ b = c
  <2> SUFFICES ASSUME NEW u \in People, NEW b \in Customers, b # c
               PROVE  give(u).new[b] = s.new[b]
    OBVIOUS
  <2>1. give(u).new = [s.new EXCEPT ![c].owner = u]
    BY <1>2
  <2>2. s.new \in [Customers -> Chats]
    BY <1>1 DEF Sessions
  <2>3. c # b /\ b \in DOMAIN s.new
    BY <2>2, Zenon
  <2> HIDE DEF give, s
  <2> QED
    BY <2>1, <2>2, <2>3
<1>6. \/ r = s
      \/ r = joined(s) /\ setup.sharing # "no_team"
      \/ \E u \in People : r = joined(give(u)) /\ setup.sharing # "no_team"
      \/ \E u \in People : r = pick(give(u), u) /\ Seen(d, c).owner = NoOne
      \/ \E u \in People : r = pick(s, u)
  BY RoutedCases
<1>7. same(s)
  OBVIOUS
<1> HIDE DEF s, r, give, joined, pick, same
<1>8. same(r) /\ (setup.sharing = "no_team" =>
        \A b \in Customers : r.new[b].owner # NoOne =>
           s.new[b].owner # NoOne \/ (b = c /\ Seen(d, c).owner = NoOne))
  <2>1. CASE r = s
    BY <1>7, <2>1
  <2>2. CASE r = joined(s) /\ setup.sharing # "no_team"
    BY <1>1, <1>3, <1>7, <2>2
  <2>3. CASE \E u \in People : r = joined(give(u)) /\ setup.sharing # "no_team"
    BY <1>2, <1>3, <2>3
  <2>4. ASSUME NEW u \in People, r = pick(give(u), u), Seen(d, c).owner = NoOne
        PROVE  same(r) /\ \A b \in Customers : r.new[b].owner # NoOne => s.new[b].owner # NoOne \/ b = c
    <3>1. same(r) /\ r.new = give(u).new
      BY <1>2, <1>4, <2>4
    <3> QED
      BY <1>5, <3>1
  <2>5. ASSUME NEW u \in People, r = pick(s, u)
        PROVE  same(r) /\ r.new = s.new
    BY <1>1, <1>4, <1>7, <2>5
  <2> QED
    BY <1>6, <2>1, <2>2, <2>3, <2>4, <2>5
<1> QED
  BY <1>8 DEF s, r, same

\* What routing and queueing leave of the session.
LEMMA RouteTypes ==
  ASSUME IntakeTypeInv, NEW d \in Deliveries, Route(d)
  PROVE  /\ IntakeTypeInv' /\ \A e \in Deliveries \ {d} : tx'[e] = tx[e]
         /\ tx[d].pc = "route" /\ tx[d].at \in DOMAIN Batch[d]
         /\ \E n \in Sessions :
              /\ tx'[d] = Advance(d, [tx[d] EXCEPT !.s = n])
              /\ n.rows = tx[d].s.rows /\ n.held = tx[d].s.held /\ n.ids = tx[d].s.ids
              /\ n.new = tx[d].s.new \/ n.new = RoutedSession(d, Sender(d)).new
<1> DEFINE c == Sender(d)
           s == tx[d].s
           jobs == IF c \in setup.private THEN {} ELSE {Cur(d)}
           queue(t) == [t EXCEPT !.jobs = @ \cup jobs]
           r == RoutedSession(d, c)
           reread == [team |-> chat[c].team \/ r.new[c].team,
                      owner |-> IF r.new[c].owner # NoOne THEN r.new[c].owner ELSE chat[c].owner]
           told == [r EXCEPT !.copy[c] = Copy(reread)]
           step(n) == Advance(d, [tx[d] EXCEPT !.s = n])
<1>1. tx[d].pc = "route" /\ tx[d].at \in DOMAIN Batch[d]
  BY DEF IntakeTypeInv, PlaceInv, Route, Looping
<1>2. tx[d] \in Rows /\ s \in Sessions /\ tx \in [Deliveries -> Rows] /\ setup \in Setups
  BY RowFields DEF IntakeTypeInv, IntakeTypeOK, Rows
<1>3. c \in Customers /\ Cur(d) \in Messages
  BY <1>1, <1>2, CurType
<1>4. r \in Sessions /\ r.rows = s.rows /\ r.held = s.held /\ r.ids = s.ids
  BY <1>2, <1>3, RoutedType, RoutedFields
<1>5. \A t \in Sessions : /\ queue(t) \in Sessions /\ queue(t).rows = t.rows /\ queue(t).held = t.held
                          /\ queue(t).ids = t.ids /\ queue(t).new = t.new
  BY <1>3 DEF Sessions
<1>6. told \in Sessions /\ told.rows = r.rows /\ told.held = r.held /\ told.ids = r.ids /\ told.new = r.new
  <2>1. reread \in Chats
    BY <1>3, <1>4, RestTypes DEF Sessions, Chats
  <2>2. Copy(reread) \in Copies
    BY <2>1, CopyType
  <2> HIDE DEF reread, r
  <2>3. [r.copy EXCEPT ![c] = Copy(reread)] \in [Customers -> Copies]
    BY <1>3, <1>4, <2>2 DEF Sessions
  <2> QED
    BY <1>4, <2>3 DEF Sessions
<1>7. /\ UNCHANGED <<setup, known, stored, queued, chat, turn, worker, touches>>
      /\ \/ tx' = [tx EXCEPT ![d] = step(queue(told))] /\ UNCHANGED failures
         \/ failures < MaxFailures /\ failures' = failures + 1 /\ tx' = [tx EXCEPT ![d] = step(queue(s))]
  BY DEF Route
<1>8. \A n \in Sessions : Fits(d, step(n))
  <2> TAKE n \in Sessions
  <2> DEFINE t == [tx[d] EXCEPT !.s = n]
  <2>1. t \in Rows /\ t.at = tx[d].at
    BY <1>2 DEF Rows
  <2> HIDE DEF t
  <2>2. Advance(d, t) \in Rows /\ Fits(d, Advance(d, t))
    BY <1>1, <2>1, AdvanceType DEF Fits, Looping
  <2> QED
    BY <2>2 DEF t
<1> HIDE DEF told, queue, step, r, c
<1>9. failures' \in 0 .. MaxFailures
  BY <1>7, RestTypes
<1>10. PICK n \in Sessions :
         /\ tx' = [tx EXCEPT ![d] = step(n)]
         /\ n.rows = s.rows /\ n.held = s.held /\ n.ids = s.ids /\ (n.new = s.new \/ n.new = r.new)
  BY <1>2, <1>4, <1>5, <1>6, <1>7
<1>11. Fits(d, step(n))
  BY <1>8
<1>12. IntakeTypeInv' /\ tx'[d] = step(n) /\ \A e \in Deliveries \ {d} : tx'[e] = tx[e]
  BY <1>7, <1>9, <1>10, <1>11, OwnRow, RestTypes
<1> QED
  BY <1>1, <1>10, <1>12 DEF step, r, c

LEMMA SeenType ==
  ASSUME IntakeTypeInv, NEW d \in Deliveries, NEW c \in Customers
  PROVE  Seen(d, c) \in Chats
<1>1. tx[d].s.new[c] \in Chats /\ chat[c] \in Chats
  BY RowFields, RestTypes DEF IntakeTypeInv, Sessions
<1> QED
  BY <1>1 DEF Seen, Chats

LEMMA CommitTypes ==
  ASSUME IntakeTypeInv, NEW d \in Deliveries, Commit(d)
  PROVE  /\ IntakeTypeInv' /\ \A e \in Deliveries \ {d} : tx'[e] = tx[e]
         /\ tx[d].pc = "commit" /\ tx'[d] = [tx[d] EXCEPT !.pc = "done", !.s = Fresh]
<1> DEFINE t == [tx[d] EXCEPT !.pc = "done", !.s = Fresh]
<1>1. tx[d] \in Rows /\ tx[d].s \in Sessions /\ tx \in [Deliveries -> Rows]
  BY RowFields DEF IntakeTypeInv, IntakeTypeOK, Rows
<1>2. Fits(d, t)
  BY <1>1, FreshType DEF Fits, Rows, PCs, Looping
<1>3. tx' = [tx EXCEPT ![d] = t]
  BY <1>1 DEF Commit
<1>4. known' \subseteq Customers /\ stored' \subseteq Messages /\ queued' \subseteq Messages
  BY <1>1, RestTypes DEF Commit, Sessions
<1>5. chat' \in [Customers -> Chats]
  BY SeenType DEF Commit
<1>6. turn' \subseteq People \X People
  BY <1>1, RestTypes, BehindType DEF Commit, Sessions
<1>7. UNCHANGED <<setup, worker, failures, touches>> /\ tx[d].pc = "commit"
  BY DEF Commit
<1> HIDE DEF t
<1>8. IntakeTypeInv' /\ tx'[d] = t /\ \A e \in Deliveries \ {d} : tx'[e] = tx[e]
  BY <1>2, <1>3, <1>4, <1>5, <1>6, <1>7, OwnRow, RestTypes
<1> QED
  BY <1>7, <1>8 DEF t

\* A lost task.
LEMMA LostTypes ==
  ASSUME IntakeTypeInv, NEW d \in Deliveries, TaskFails(d) \/ Trips(d) \/ Victim(d)
  PROVE  /\ IntakeTypeInv' /\ \A e \in Deliveries \ {d} : tx'[e] = tx[e]
         /\ tx'[d] = [tx[d] EXCEPT !.pc = "lost", !.s = Fresh]
<1> DEFINE t == [tx[d] EXCEPT !.pc = "lost", !.s = Fresh]
<1>1. tx[d] \in Rows /\ tx \in [Deliveries -> Rows]
  BY RowFields DEF IntakeTypeInv, IntakeTypeOK, Rows
<1>2. Fits(d, t)
  BY <1>1, FreshType DEF Fits, Rows, PCs, Looping
<1>3. tx' = [tx EXCEPT ![d] = t]
  BY <1>1 DEF TaskFails, Trips, Victim, Lost
<1>4. UNCHANGED <<setup, known, stored, queued, chat, turn, worker, touches>> /\ failures' \in 0 .. MaxFailures
  BY RestTypes DEF TaskFails, Trips, Victim
<1> HIDE DEF t
<1>5. IntakeTypeInv' /\ tx'[d] = t /\ \A e \in Deliveries \ {d} : tx'[e] = tx[e]
  BY <1>2, <1>3, <1>4, OwnRow, RestTypes
<1> QED
  BY <1>5 DEF t

LEMMA CrashTypes ==
  ASSUME IntakeTypeInv, ApiStops
  PROVE  /\ IntakeTypeInv'
         /\ \A d \in Deliveries : tx'[d] = tx[d] \/ tx'[d] = [tx[d] EXCEPT !.pc = "lost", !.s = Fresh]
<1>1. tx \in [Deliveries -> Rows]
  BY DEF IntakeTypeInv, IntakeTypeOK, Rows
<1>2. \A d \in Deliveries : Lost(d)[d] = [tx[d] EXCEPT !.pc = "lost", !.s = Fresh]
  BY <1>1 DEF Lost
<1>3. \A d \in Deliveries : tx'[d] = tx[d] \/ tx'[d] = [tx[d] EXCEPT !.pc = "lost", !.s = Fresh]
  BY <1>2 DEF ApiStops
<1>4. \A d \in Deliveries : [tx[d] EXCEPT !.pc = "lost", !.s = Fresh] \in Rows
  BY <1>1, FreshType DEF Rows, PCs
<1>5. tx' \in [Deliveries -> Rows]
  <2>1. \A d \in Deliveries : tx'[d] \in Rows
    BY <1>1, <1>3, <1>4
  <2> QED
    BY <2>1 DEF ApiStops
<1>6. IntakeTypeOK'
  BY <1>5, RestTypes DEF ApiStops, IntakeTypeInv, IntakeTypeOK, Rows
<1>7. PlaceInv'
  <2>1. Batch' = Batch
    BY DEF Batch, ApiStops
  <2>2. \A d \in Deliveries : [tx[d] EXCEPT !.pc = "lost", !.s = Fresh].pc = "lost"
    BY <1>1 DEF Rows
  <2> QED
    BY <1>3, <2>1, <2>2 DEF PlaceInv, IntakeTypeInv, Looping
<1> QED
  BY <1>3, <1>6, <1>7 DEF IntakeTypeInv

\* The drafting worker and people: tasks and what they stored stay as they are.
LEMMA OthersTypes ==
  ASSUME IntakeTypeInv, \/ \E m \in Messages : LoadJob(m) \/ Hand(m)
                        \/ \E c \in Customers : Touch(c)
                        \/ UNCHANGED intakeVars
  PROVE  IntakeTypeInv' /\ UNCHANGED <<setup, known, stored, tx>>
<1>1. UNCHANGED <<setup, known, stored, queued, tx, failures>>
  BY DEF LoadJob, Hand, Touch, intakeVars
<1>2. PlaceInv'
  BY <1>1 DEF IntakeTypeInv, PlaceInv, Batch
<1> DEFINE JobRows == [pc: {"idle", "loaded", "done"}, copy: Copies]
<1>3. worker \in [Messages -> JobRows] /\ touches \in 0 .. MaxTouches /\ setup \in Setups
  BY DEF IntakeTypeInv, IntakeTypeOK
<1> SUFFICES worker' \in [Messages -> JobRows] /\ chat' \in [Customers -> Chats]
             /\ turn' \subseteq People \X People /\ touches' \in 0 .. MaxTouches
  BY <1>1, <1>2 DEF IntakeTypeInv, IntakeTypeOK
<1>4. ASSUME NEW m \in Messages, LoadJob(m)
      PROVE  worker' \in [Messages -> JobRows] /\ UNCHANGED <<chat, turn, touches>>
  <2>1. Copy(chat[From[m]]) \in Copies
    BY ConstantTypes, RestTypes, CopyType
  <2> QED
    BY <1>3, <1>4, <2>1 DEF LoadJob
<1>5. ASSUME NEW m \in Messages, Hand(m)
      PROVE  /\ worker' \in [Messages -> JobRows] /\ UNCHANGED touches
             /\ chat' \in [Customers -> Chats] /\ turn' \subseteq People \X People
  <2>1. worker' \in [Messages -> JobRows]
    BY <1>3, <1>5 DEF Hand
  <2>2. HandedTo(m) # NoOne => HandedTo(m) \in People
    BY <1>3, FirstType, SetupTypes DEF HandedTo
  <2>3. HandedTo(m) # NoOne => Behind(turn, {<<HandedTo(m), HandedTo(m)>>}) \in SUBSET (People \X People)
    BY <2>2, BehindType, RestTypes
  <2>4. HandedTo(m) # NoOne => [chat EXCEPT ![From[m]].owner = HandedTo(m)] \in [Customers -> Chats]
    BY <2>2, RestTypes, ConstantTypes DEF Chats
  <2> QED
    BY <1>5, <2>1, <2>3, <2>4, RestTypes DEF Hand
<1>6. ASSUME NEW c \in Customers, Touch(c)
      PROVE  /\ chat' \in [Customers -> Chats] /\ touches' \in 0 .. MaxTouches /\ UNCHANGED <<worker, turn>>
  <2>1. PICK u \in People \cup {NoOne} : chat' = [chat EXCEPT ![c].owner = u]
    BY <1>6 DEF Touch
  <2>2. chat' \in [Customers -> Chats]
    BY <2>1, RestTypes DEF Chats
  <2>3. touches' \in 0 .. MaxTouches
    BY <1>3, <1>6, ConstantTypes DEF Touch
  <2> QED
    BY <1>6, <2>2, <2>3 DEF Touch
<1>7. UNCHANGED intakeVars => UNCHANGED <<worker, chat, turn, touches>>
  BY DEF intakeVars
<1> QED
  BY <1>3, <1>4, <1>5, <1>6, <1>7, RestTypes

LEMMA NextTypes == IntakeTypeInv /\ [IntakeNext]_intakeVars => IntakeTypeInv'
<1> SUFFICES ASSUME IntakeTypeInv, [IntakeNext]_intakeVars PROVE IntakeTypeInv'
  OBVIOUS
<1> QED
  BY AcceptTypes, BeginTypes, LookupTypes, CreateTypes, StoreTypes, RouteTypes, CommitTypes, LostTypes,
     CrashTypes, OthersTypes DEF IntakeNext, Step

\* The variables have their types, and a task is at a message of its delivery.
THEOREM IntakeTypesAreKept == IntakeSpec => []IntakeTypeOK
<1>1. IntakeTypeInv => IntakeTypeOK
  BY DEF IntakeTypeInv
<1> QED
  BY InitTypes, NextTypes, <1>1, PTL DEF IntakeSpec


-----------------------------------------------------------------------------
(* What is stored.                                                         *)

\* Tasks whose own row did not change keep what they have stored.
LEMMA StoredStays ==
  ASSUME NEW d \in Deliveries, StoredFor(d), tx'[d] = tx[d], setup' = setup, stored \subseteq stored'
  PROVE  StoredFor(d)'
<1>1. Batch' = Batch
  BY DEF Batch
<1> QED
  BY <1>1 DEF StoredFor, Stored

\* The same for a task that goes on to its next message, or to its commit.
LEMMA StoredOnward ==
  ASSUME IntakeTypeInv, NEW d \in Deliveries, tx[d].at \in DOMAIN Batch[d], setup' = setup, stored' = stored,
         NEW t \in Rows, t.at = tx[d].at, tx'[d] = Advance(d, t),
         \A i \in DOMAIN Batch[d] : t.cut <= i /\ i <= tx[d].at => Batch[d][i] \in stored \cup t.s.rows
  PROVE  StoredFor(d)'
<1> DEFINE n == Advance(d, t)
<1>1. /\ n.cut = t.cut /\ n.s = t.s /\ n.pc \in {"lookup", "commit"}
      /\ n.pc = "lookup" => n.at = tx[d].at + 1
      /\ n.pc = "commit" => tx[d].at = Len(Batch[d])
  BY AdvanceType
<1>2. Batch' = Batch
  BY DEF Batch
<1>3. tx'[d] = n
  OBVIOUS
<1>4. DOMAIN Batch[d] = 1 .. Len(Batch[d]) /\ Len(Batch[d]) \in Nat /\ tx[d].at \in Nat
  BY RowFields DEF IntakeTypeInv
<1> HIDE DEF n
<1>5. \A i \in DOMAIN Batch[d] : n.cut <= i /\ i <= tx[d].at => Stored(d, i)'
  BY <1>1, <1>2, <1>3 DEF Stored
<1>6. n.pc = "lookup" => \A i \in DOMAIN Batch[d] : i < n.at => i <= tx[d].at
  BY <1>1, <1>4
<1>7. n.pc = "commit" => \A i \in DOMAIN Batch[d] : i <= tx[d].at
  BY <1>1, <1>4
<1> QED
  BY <1>1, <1>2, <1>3, <1>5, <1>6, <1>7 DEF StoredFor, Looping

LEMMA InitStored == IntakeInit => StoredInv
  BY DEF IntakeInit, StoredInv, StoredFor, Looping

LEMMA StepStored ==
  ASSUME IntakeTypeInv, NEW d \in Deliveries, StoredFor(d), Accept(d) \/ Step(d) \/ TaskFails(d)
  PROVE  StoredFor(d)'
<1>0. IntakeTypeOK /\ setup' = setup /\ tx[d] \in Rows /\ tx[d].s \in Sessions
      /\ tx[d].at \in Nat /\ tx[d].cut \in Nat
      /\ DOMAIN Batch[d] = 1 .. Len(Batch[d]) /\ Len(Batch[d]) \in Nat
  BY RowFields DEF IntakeTypeInv, Accept, Step, Begin, Lookup, Create, Store, Route, Commit, Trips, Victim, TaskFails
<1>1. Batch' = Batch
  BY <1>0 DEF Batch
<1>2. CASE Accept(d)
  <2>1. tx'[d].pc = "accepted"
    BY <1>2, <1>0, AcceptTypes DEF Rows
  <2> QED
    BY <2>1 DEF StoredFor, Looping
<1>3. CASE Begin(d)
  <2>1. tx'[d] = [tx[d] EXCEPT !.pc = IF Batch[d] = <<>> THEN "commit" ELSE "lookup"] /\ stored' = stored
    BY <1>3, BeginTypes DEF Begin
  <2>2. tx[d].at = 1
    BY <1>3 DEF Begin, IntakeTypeInv, PlaceInv
  <2>3. CASE Batch[d] = <<>>
    BY <1>1, <2>3 DEF StoredFor
  <2>4. CASE Batch[d] # <<>>
    <3>1. tx'[d].pc = "lookup" /\ tx'[d].at = 1
      BY <1>0, <2>1, <2>2, <2>4 DEF Rows
    <3> QED
      BY <1>0, <1>1, <3>1 DEF StoredFor
  <2> QED
    BY <2>3, <2>4
<1>4. CASE Lookup(d)
  <2>1. /\ tx[d].pc = "lookup" /\ tx[d].at \in DOMAIN Batch[d] /\ stored' = stored
        /\ \/ Cur(d) \in stored \cup tx[d].s.rows /\ tx'[d] = Advance(d, tx[d])
           \/ tx'[d] = Loaded(d)
           \/ tx'[d] = [tx[d] EXCEPT !.pc = "create"]
    BY <1>4, LookupTypes DEF Lookup
  <2>2. CASE Cur(d) \in stored \cup tx[d].s.rows /\ tx'[d] = Advance(d, tx[d])
    <3>1. \A i \in DOMAIN Batch[d] : tx[d].cut <= i /\ i <= tx[d].at => Batch[d][i] \in stored \cup tx[d].s.rows
      BY <1>0, <2>1, <2>2 DEF StoredFor, Stored, Looping, Cur
    <3> QED
      BY <1>0, <2>1, <2>2, <3>1, StoredOnward
  <2>3. CASE tx'[d] = Loaded(d)
    <3>1. tx'[d].pc = "store" /\ tx'[d].at = tx[d].at /\ tx'[d].cut = tx[d].cut /\ tx'[d].s.rows = tx[d].s.rows
      BY <2>1, <2>3, LoadedType
    <3> QED
      BY <1>1, <2>1, <3>1 DEF StoredFor, Stored, Looping
  <2>4. CASE tx'[d] = [tx[d] EXCEPT !.pc = "create"]
    <3>1. tx'[d].pc = "create" /\ tx'[d].at = tx[d].at /\ tx'[d].cut = tx[d].cut /\ tx'[d].s = tx[d].s
      BY <1>0, <2>4 DEF Rows
    <3> QED
      BY <1>1, <2>1, <3>1 DEF StoredFor, Stored, Looping
  <2> QED
    BY <2>1, <2>2, <2>3, <2>4
<1>5. CASE Create(d)
  <2>1. /\ tx[d].pc = "create" /\ tx[d].at \in DOMAIN Batch[d] /\ stored' = stored
        /\ tx'[d] = Reloaded(d) \/ tx'[d] = Made(d)
    BY <1>5, CreateTypes, Zenon DEF Create
  <2>2. CASE tx'[d] = Reloaded(d)
    <3>1. tx'[d].pc = "store" /\ tx'[d].at = tx[d].at /\ tx'[d].cut = tx[d].at
      BY <2>1, <2>2, ReloadedType
    <3> QED
      BY <1>0, <1>1, <3>1 DEF StoredFor
  <2>3. CASE tx'[d] = Made(d)
    <3>1. tx'[d].pc = "store" /\ tx'[d].at = tx[d].at /\ tx'[d].cut = tx[d].cut /\ tx'[d].s.rows = tx[d].s.rows
      BY <2>1, <2>3, MadeType
    <3> QED
      BY <1>1, <2>1, <3>1 DEF StoredFor, Stored, Looping
  <2> QED
    BY <2>1, <2>2, <2>3, Zenon
<1>6. CASE Store(d)
  <2>1. /\ tx[d].pc = "store" /\ tx[d].at \in DOMAIN Batch[d] /\ stored' = stored
        /\ \/ Cur(d) \in stored /\ tx'[d] = Skipped(d)
           \/ tx'[d] = Inserted(d)
    BY <1>6, StoreTypes, Zenon DEF Store
  <2>2. CASE Cur(d) \in stored /\ tx'[d] = Skipped(d)
    <3> DEFINE t == [tx[d] EXCEPT !.cut = tx[d].at, !.s = Fresh]
    <3>1. t \in Rows /\ t.at = tx[d].at /\ t.cut = tx[d].at
      BY <1>0, FreshType DEF Rows
    <3>2. tx'[d] = Advance(d, t)
      BY <2>2 DEF Skipped
    <3> HIDE DEF t
    <3>3. \A i \in DOMAIN Batch[d] : t.cut <= i /\ i <= tx[d].at => Batch[d][i] \in stored \cup t.s.rows
      BY <1>0, <2>2, <3>1 DEF Cur
    <3> QED
      BY <1>0, <2>1, <3>1, <3>2, <3>3, StoredOnward
  <2>3. CASE tx'[d] = Inserted(d)
    <3>1. /\ tx'[d].pc = "route" /\ tx'[d].at = tx[d].at /\ tx'[d].cut = tx[d].cut
          /\ tx'[d].s.rows = tx[d].s.rows \cup {Cur(d)}
      BY <2>1, <2>3, InsertedType
    <3> QED
      BY <1>1, <2>1, <3>1 DEF StoredFor, Stored, Looping, Cur
  <2> QED
    BY <2>1, <2>2, <2>3, Zenon
<1>7. CASE Route(d)
  <2>1. tx[d].pc = "route" /\ tx[d].at \in DOMAIN Batch[d] /\ stored' = stored
    BY <1>7, RouteTypes DEF Route
  <2>2. PICK n \in Sessions : tx'[d] = Advance(d, [tx[d] EXCEPT !.s = n]) /\ n.rows = tx[d].s.rows
    BY <1>7, RouteTypes
  <2> DEFINE t == [tx[d] EXCEPT !.s = n]
  <2>3. t \in Rows /\ t.at = tx[d].at /\ t.cut = tx[d].cut /\ t.s = n
    BY <1>0 DEF Rows
  <2>4. tx'[d] = Advance(d, t)
    BY <2>2
  <2> HIDE DEF t
  <2>5. \A i \in DOMAIN Batch[d] : t.cut <= i /\ i <= tx[d].at => Batch[d][i] \in stored \cup t.s.rows
    BY <1>0, <2>1, <2>2, <2>3 DEF StoredFor, Stored, Looping
  <2> QED
    BY <1>0, <2>1, <2>3, <2>4, <2>5, StoredOnward, Zenon
<1>8. CASE Commit(d)
  <2>1. tx[d].pc = "commit" /\ tx'[d].pc = "done" /\ tx'[d].cut = tx[d].cut /\ stored' = stored \cup tx[d].s.rows
    <3>1. tx[d].pc = "commit" /\ tx'[d] = [tx[d] EXCEPT !.pc = "done", !.s = Fresh]
      BY <1>8, CommitTypes
    <3>2. stored' = stored \cup tx[d].s.rows
      BY <1>8 DEF Commit
    <3> QED
      BY <1>0, <3>1, <3>2 DEF Rows
  <2> QED
    BY <1>1, <2>1 DEF StoredFor, Stored, Looping
<1>9. CASE TaskFails(d) \/ Trips(d) \/ Victim(d)
  <2>0. tx'[d] = [tx[d] EXCEPT !.pc = "lost", !.s = Fresh]
    BY <1>9, LostTypes
  <2>1. tx'[d].pc = "lost"
    BY <1>0, <2>0 DEF Rows
  <2> QED
    BY <2>1 DEF StoredFor, Looping
<1> QED
  BY <1>2, <1>3, <1>4, <1>5, <1>6, <1>7, <1>8, <1>9, Zenon DEF Step

\* A step of one task leaves the others' rows alone and takes no stored message away.
LEMMA OneTask ==
  ASSUME IntakeTypeInv, NEW d \in Deliveries, Accept(d) \/ Step(d) \/ TaskFails(d)
  PROVE  /\ \A e \in Deliveries \ {d} : tx'[e] = tx[e]
         /\ setup' = setup /\ stored \subseteq stored' /\ known \subseteq known'
         /\ UNCHANGED <<chat, known>> \/ Commit(d)
<1> DEFINE others == \A e \in Deliveries \ {d} : tx'[e] = tx[e]
           still == UNCHANGED <<setup, stored, known, chat>>
<1>1. CASE Accept(d) \/ Begin(d)
  <2>1. others
    BY <1>1, AcceptTypes, BeginTypes, Zenon
  <2>2. still
    BY <1>1 DEF Accept, Begin
  <2> QED
    BY <2>1, <2>2
<1>2. CASE Lookup(d) \/ Create(d)
  <2>1. others
    BY <1>2, LookupTypes, CreateTypes, Zenon
  <2>2. still
    BY <1>2 DEF Lookup, Create
  <2> QED
    BY <2>1, <2>2
<1>3. CASE Store(d) \/ Route(d)
  <2>1. others
    BY <1>3, StoreTypes, RouteTypes, Zenon
  <2>2. still
    BY <1>3 DEF Store, Route
  <2> QED
    BY <2>1, <2>2
<1>4. CASE TaskFails(d) \/ Trips(d) \/ Victim(d)
  <2>1. others
    BY <1>4, LostTypes, Zenon
  <2>2. still
    BY <1>4 DEF TaskFails, Trips, Victim
  <2> QED
    BY <2>1, <2>2
<1>5. CASE Commit(d)
  <2>1. others
    BY <1>5, CommitTypes, Zenon
  <2>2. setup' = setup /\ stored \subseteq stored' /\ known \subseteq known'
    BY <1>5 DEF Commit
  <2> QED
    BY <1>5, <2>1, <2>2
<1> QED
  BY <1>1, <1>2, <1>3, <1>4, <1>5, Zenon DEF Step

LEMMA NextStored == IntakeTypeInv /\ StoredInv /\ [IntakeNext]_intakeVars => StoredInv'
<1> SUFFICES ASSUME IntakeTypeInv, StoredInv, [IntakeNext]_intakeVars PROVE StoredInv'
  OBVIOUS
<1>1. ASSUME NEW d \in Deliveries, Accept(d) \/ Step(d) \/ TaskFails(d)
      PROVE  StoredInv'
  <2>1. StoredFor(d)'
    BY <1>1, StepStored DEF StoredInv
  <2>2. \A e \in Deliveries \ {d} : StoredFor(e)'
    BY <1>1, OneTask, StoredStays DEF StoredInv
  <2> QED
    BY <2>1, <2>2 DEF StoredInv
<1>2. CASE ApiStops
  <2>1. setup' = setup /\ stored' = stored
    BY <1>2 DEF ApiStops
  <2>2. ASSUME NEW d \in Deliveries, tx'[d] = tx[d] PROVE StoredFor(d)'
    BY <2>1, <2>2, StoredStays DEF StoredInv
  <2>3. ASSUME NEW d \in Deliveries, tx'[d] = [tx[d] EXCEPT !.pc = "lost", !.s = Fresh] PROVE StoredFor(d)'
    <3>1. tx'[d].pc = "lost"
      BY <2>3, RowFields DEF IntakeTypeInv, Rows
    <3> QED
      BY <3>1 DEF StoredFor, Looping
  <2> QED
    BY <1>2, <2>2, <2>3, CrashTypes DEF StoredInv
<1>3. CASE (\E m \in Messages : LoadJob(m) \/ Hand(m)) \/ (\E c \in Customers : Touch(c)) \/ UNCHANGED intakeVars
  <2>1. UNCHANGED <<setup, stored, tx>>
    BY <1>3, OthersTypes
  <2> QED
    BY <2>1, StoredStays DEF StoredInv
<1> QED
  BY <1>1, <1>2, <1>3 DEF IntakeNext

\* A committed delivery has stored every message from its last lost race on, whatever else ran.
THEOREM DoneIsStored == IntakeSpec => []DoneMeansStored
<1>1. IntakeTypeInv /\ StoredInv => DoneMeansStored
  BY RowFields DEF IntakeTypeInv, StoredInv, StoredFor, DoneMeansStored
<1> QED
  BY InitTypes, NextTypes, InitStored, NextStored, <1>1, PTL DEF IntakeSpec

-----------------------------------------------------------------------------
(* Whose chat it is.                                                       *)

LEMMA FreshFields ==
  /\ Fresh.held = {} /\ Fresh.ids = {} /\ Fresh.rows = {}
  /\ \A c \in Customers : Fresh.new[c].owner = NoOne
  BY DEF Fresh

LEMMA InitHeld == IntakeInit => HeldInv
<1> SUFFICES ASSUME IntakeInit PROVE HeldInv
  OBVIOUS
<1>1. \A d \in Deliveries : tx[d].pc = "unsent" /\ tx[d].s = Fresh
  BY DEF IntakeInit
<1> QED
  BY <1>1, FreshFields DEF HeldInv, HeldBy, HeldApart

\* What a step of a task makes of its locks: none, one more that nobody has, or the same.
LEMMA StepHeld ==
  ASSUME IntakeTypeInv, HeldInv, NEW d \in Deliveries, Accept(d) \/ Step(d) \/ TaskFails(d)
  PROVE  /\ HeldBy(d)'
         /\ \/ tx'[d].s.held \subseteq tx[d].s.held
            \/ /\ tx'[d].s.held = tx[d].s.held \cup {Sender(d)}
               /\ \A e \in Deliveries \ {d} : Sender(d) \notin tx[e].s.held
<1>0. /\ IntakeTypeOK /\ setup' = setup /\ known \subseteq known' /\ Batch' = Batch
      /\ tx[d] \in Rows /\ tx[d].s \in Sessions /\ HeldBy(d)
  BY OneTask, RowFields DEF IntakeTypeInv, Batch, HeldInv
<1>1. CASE Accept(d)
  <2>1. tx'[d].pc = "accepted" /\ tx'[d].s = tx[d].s
    BY <1>0, <1>1, AcceptTypes DEF Rows
  <2> QED
    BY <1>0, <2>1 DEF HeldBy
<1>2. CASE Begin(d)
  <2>1. tx'[d].pc \in {"lookup", "commit"} /\ tx'[d].s = tx[d].s
    BY <1>0, <1>2, BeginTypes DEF Rows
  <2> QED
    BY <1>0, <2>1 DEF HeldBy
<1>3. CASE Lookup(d)
  <2>1. /\ tx[d].at \in DOMAIN Batch[d] /\ known' = known
        /\ \/ tx'[d] = Advance(d, tx[d])
           \/ Sender(d) \in known \cup tx[d].s.ids /\ tx'[d] = Loaded(d)
           \/ tx'[d] = [tx[d] EXCEPT !.pc = "create"]
    BY <1>3, LookupTypes DEF Lookup
  <2>2. CASE tx'[d] = Advance(d, tx[d])
    <3>1. tx'[d].pc \in {"lookup", "commit"} /\ tx'[d].s = tx[d].s
      BY <1>0, <2>1, <2>2, AdvanceType
    <3> QED
      BY <1>0, <3>1 DEF HeldBy
  <2>3. CASE Sender(d) \in known \cup tx[d].s.ids /\ tx'[d] = Loaded(d)
    <3>1. /\ tx'[d].pc = "store" /\ tx'[d].at = tx[d].at
          /\ tx'[d].s.held = tx[d].s.held /\ tx'[d].s.ids = tx[d].s.ids
      BY <2>1, <2>3, LoadedType
    <3>2. Sender(d)' = Sender(d)
      BY <1>0, <3>1 DEF Sender, Cur
    <3> QED
      BY <1>0, <2>1, <2>3, <3>1, <3>2 DEF HeldBy
  <2>4. CASE tx'[d] = [tx[d] EXCEPT !.pc = "create"]
    <3>1. tx'[d].pc = "create" /\ tx'[d].s = tx[d].s
      BY <1>0, <2>4 DEF Rows
    <3> QED
      BY <1>0, <3>1 DEF HeldBy
  <2> QED
    BY <2>1, <2>2, <2>3, <2>4
<1>4. CASE Create(d)
  <2>1. /\ tx[d].at \in DOMAIN Batch[d] /\ known' = known
        /\ \/ Sender(d) \in known /\ tx'[d] = Reloaded(d)
           \/ Sender(d) \notin known /\ ~IdentityTaken(d, Sender(d)) /\ tx'[d] = Made(d)
    BY <1>4, CreateTypes, Zenon DEF Create
  <2>2. CASE Sender(d) \in known /\ tx'[d] = Reloaded(d)
    <3>1. tx'[d].pc = "store" /\ tx'[d].at = tx[d].at /\ tx'[d].s.held = {}
      BY <2>1, <2>2, ReloadedType
    <3>2. Sender(d)' = Sender(d)
      BY <1>0, <3>1 DEF Sender, Cur
    <3> QED
      BY <2>1, <2>2, <3>1, <3>2 DEF HeldBy
  <2>3. CASE Sender(d) \notin known /\ ~IdentityTaken(d, Sender(d)) /\ tx'[d] = Made(d)
    <3>1. /\ tx'[d].pc = "store" /\ tx'[d].at = tx[d].at
          /\ tx'[d].s.held = tx[d].s.held \cup {Sender(d)} /\ tx'[d].s.ids = tx[d].s.ids \cup {Sender(d)}
      BY <2>1, <2>3, MadeType
    <3>2. Sender(d)' = Sender(d)
      BY <1>0, <3>1 DEF Sender, Cur
    <3>3. \A e \in Deliveries \ {d} : Sender(d) \notin tx[e].s.held
      BY <2>3 DEF IdentityTaken, HeldInv, HeldBy
    <3> QED
      BY <1>0, <2>1, <3>1, <3>2, <3>3 DEF HeldBy
  <2> QED
    BY <2>1, <2>2, <2>3, Zenon
<1>5. CASE Store(d)
  <2>1. /\ tx[d].pc = "store" /\ tx[d].at \in DOMAIN Batch[d] /\ known' = known
        /\ \/ tx'[d] = Skipped(d)
           \/ ~ChatTaken(d, Sender(d)) /\ tx'[d] = Inserted(d)
    BY <1>5, StoreTypes, Zenon DEF Store
  <2>2. CASE tx'[d] = Skipped(d)
    <3>1. tx'[d].pc \in {"lookup", "commit"} /\ tx'[d].s.held = {}
      BY <2>1, <2>2, SkippedType, FreshFields
    <3> QED
      BY <3>1 DEF HeldBy
  <2>3. CASE ~ChatTaken(d, Sender(d)) /\ tx'[d] = Inserted(d)
    <3>1. /\ tx'[d].pc = "route" /\ tx'[d].at = tx[d].at
          /\ tx'[d].s.held = tx[d].s.held \cup {Sender(d)} /\ tx'[d].s.ids = tx[d].s.ids
      BY <2>1, <2>3, InsertedType
    <3>2. Sender(d)' = Sender(d)
      BY <1>0, <3>1 DEF Sender, Cur
    <3>3. \A e \in Deliveries \ {d} : Sender(d) \notin tx[e].s.held
      BY <2>3 DEF ChatTaken
    <3> QED
      BY <1>0, <2>1, <3>1, <3>2, <3>3 DEF HeldBy
  <2> QED
    BY <2>1, <2>2, <2>3, Zenon
<1>6. CASE Route(d)
  <2>1. tx[d].at \in DOMAIN Batch[d]
    BY <1>6, RouteTypes
  <2>2. PICK n \in Sessions : /\ tx'[d] = Advance(d, [tx[d] EXCEPT !.s = n])
                              /\ n.held = tx[d].s.held /\ n.ids = tx[d].s.ids
    BY <1>6, RouteTypes
  <2> DEFINE t == [tx[d] EXCEPT !.s = n]
  <2>3. t \in Rows /\ t.at = tx[d].at /\ t.s = n
    BY <1>0 DEF Rows
  <2>4. tx'[d] = Advance(d, t)
    BY <2>2
  <2> HIDE DEF t
  <2>5. tx'[d].pc \in {"lookup", "commit"} /\ tx'[d].s = n
    BY <2>1, <2>3, <2>4, AdvanceType
  <2> QED
    BY <1>0, <2>2, <2>5 DEF HeldBy
<1>7. CASE Commit(d) \/ TaskFails(d) \/ Trips(d) \/ Victim(d)
  <2>1. tx'[d].pc \in {"done", "lost"} /\ tx'[d].s.held = {}
    <3>1. \/ tx'[d] = [tx[d] EXCEPT !.pc = "done", !.s = Fresh]
          \/ tx'[d] = [tx[d] EXCEPT !.pc = "lost", !.s = Fresh]
      BY <1>7, CommitTypes, LostTypes
    <3>2. tx'[d].pc \in {"done", "lost"} /\ tx'[d].s = Fresh
      BY <1>0, <3>1 DEF Rows
    <3> QED
      BY <3>2, FreshFields
  <2> QED
    BY <2>1 DEF HeldBy
<1> QED
  BY <1>1, <1>2, <1>3, <1>4, <1>5, <1>6, <1>7 DEF Step

\* The others' rows: what they know stays known.
LEMMA HeldStays ==
  ASSUME NEW d \in Deliveries, HeldBy(d), tx'[d] = tx[d], setup' = setup, known \subseteq known'
  PROVE  HeldBy(d)'
  BY DEF HeldBy, Sender, Cur, Batch

LEMMA NextHeld == IntakeTypeInv /\ HeldInv /\ [IntakeNext]_intakeVars => HeldInv'
<1> SUFFICES ASSUME IntakeTypeInv, HeldInv, [IntakeNext]_intakeVars PROVE HeldInv'
  OBVIOUS
<1>1. ASSUME NEW d \in Deliveries, Accept(d) \/ Step(d) \/ TaskFails(d)
      PROVE  HeldInv'
  <2>1. HeldBy(d)'
    BY <1>1, StepHeld
  <2>2. \A e \in Deliveries \ {d} : HeldBy(e)' /\ tx'[e] = tx[e]
    BY <1>1, OneTask, HeldStays DEF HeldInv
  <2>3. HeldApart'
    BY <1>1, <2>2, StepHeld DEF HeldInv, HeldApart
  <2> QED
    BY <2>1, <2>2, <2>3 DEF HeldInv
<1>2. CASE ApiStops
  <2>1. setup' = setup /\ known' = known
    BY <1>2 DEF ApiStops
  <2>2. \A d \in Deliveries : tx'[d] = tx[d] \/ (tx'[d].pc = "lost" /\ tx'[d].s.held = {})
    BY <1>2, CrashTypes, RowFields, FreshFields DEF IntakeTypeInv, Rows
  <2>3. \A d \in Deliveries : HeldBy(d)'
    BY <2>1, <2>2, HeldStays DEF HeldInv, HeldBy
  <2> QED
    BY <2>2, <2>3 DEF HeldInv, HeldApart
<1>3. CASE (\E m \in Messages : LoadJob(m) \/ Hand(m)) \/ (\E c \in Customers : Touch(c)) \/ UNCHANGED intakeVars
  <2>1. UNCHANGED <<setup, known, tx>>
    BY <1>3, OthersTypes
  <2> QED
    BY <2>1, HeldStays DEF HeldInv, HeldApart
<1> QED
  BY <1>1, <1>2, <1>3 DEF IntakeNext

LEMMA InitGiven == IntakeInit => GivenInv
<1> SUFFICES ASSUME IntakeInit PROVE GivenInv
  OBVIOUS
<1>1. \A d \in Deliveries : tx[d].s = Fresh
  BY DEF IntakeInit
<1> QED
  BY <1>1, FreshFields DEF GivenInv, GivenBy

\* What a task gives away: nothing more, or the chat of its message when it sees nobody has it.
LEMMA StepGiven ==
  ASSUME IntakeTypeInv, HeldInv, NEW d \in Deliveries, Accept(d) \/ Step(d) \/ TaskFails(d),
         setup.sharing = "no_team", NEW c \in Customers, GivenBy(d)
  PROVE  tx'[d].s.new[c].owner # NoOne => c \in tx'[d].s.held /\ chat[c].owner = NoOne /\ ~Commit(d)
<1>0. IntakeTypeOK /\ tx[d] \in Rows /\ tx[d].s \in Sessions /\ setup \in Setups
  BY RowFields DEF IntakeTypeInv
<1>1. ASSUME tx'[d].s.new = tx[d].s.new, tx[d].s.held \subseteq tx'[d].s.held, ~Commit(d)
      PROVE  tx'[d].s.new[c].owner # NoOne => c \in tx'[d].s.held /\ chat[c].owner = NoOne /\ ~Commit(d)
  BY <1>1 DEF GivenBy
<1>2. ASSUME tx'[d].s.new = Fresh.new
      PROVE  tx'[d].s.new[c].owner = NoOne
  BY <1>2, FreshFields
<1>3. CASE Accept(d) \/ Begin(d)
  <2>1. ~Commit(d)
    BY <1>3 DEF Accept, Begin, Commit
  <2>2. Accept(d) => tx'[d].s = tx[d].s
    <3>1. Accept(d) => tx'[d] = [tx[d] EXCEPT !.pc = "accepted"]
      BY AcceptTypes
    <3> QED
      BY <1>0, <3>1 DEF Rows
  <2>3. Begin(d) => tx'[d].s = tx[d].s
    <3> DEFINE next == IF Batch[d] = <<>> THEN "commit" ELSE "lookup"
    <3>1. Begin(d) => tx'[d] = [tx[d] EXCEPT !.pc = next]
      BY BeginTypes
    <3> HIDE DEF next
    <3> QED
      BY <1>0, <3>1 DEF Rows
  <2> QED
    BY <1>1, <1>3, <2>1, <2>2, <2>3
<1>4. CASE Lookup(d)
  <2>1. /\ tx[d].at \in DOMAIN Batch[d] /\ ~Commit(d)
        /\ \/ tx'[d] = Advance(d, tx[d])
           \/ tx'[d] = Loaded(d)
           \/ tx'[d] = [tx[d] EXCEPT !.pc = "create"]
    BY <1>4, LookupTypes DEF Lookup, Commit
  <2>2. tx'[d].s.new = tx[d].s.new /\ tx'[d].s.held = tx[d].s.held
    BY <1>0, <2>1, AdvanceType, LoadedType DEF Rows
  <2> QED
    BY <1>1, <2>1, <2>2
<1>5. CASE Create(d)
  <2>1. tx[d].at \in DOMAIN Batch[d] /\ ~Commit(d) /\ (tx'[d] = Reloaded(d) \/ tx'[d] = Made(d))
    BY <1>5, CreateTypes, Zenon DEF Create, Commit
  <2> QED
    BY <1>1, <1>2, <2>1, ReloadedType, MadeType, Zenon
<1>6. CASE Store(d)
  <2>1. tx[d].at \in DOMAIN Batch[d] /\ ~Commit(d) /\ (tx'[d] = Skipped(d) \/ tx'[d] = Inserted(d))
    BY <1>6, StoreTypes, Zenon DEF Store, Commit
  <2> QED
    BY <1>1, <1>2, <2>1, SkippedType, InsertedType, Zenon
<1>7. CASE Route(d)
  <2>1. tx[d].pc = "route" /\ tx[d].at \in DOMAIN Batch[d] /\ ~Commit(d)
    BY <1>7, RouteTypes DEF Commit
  <2>2. PICK n \in Sessions : /\ tx'[d] = Advance(d, [tx[d] EXCEPT !.s = n])
                              /\ n.held = tx[d].s.held
                              /\ n.new = tx[d].s.new \/ n.new = RoutedSession(d, Sender(d)).new
    BY <1>7, RouteTypes
  <2> DEFINE t == [tx[d] EXCEPT !.s = n]
  <2>3. t \in Rows /\ t.at = tx[d].at /\ t.s = n
    BY <1>0 DEF Rows
  <2>4. tx'[d] = Advance(d, t)
    BY <2>2
  <2> HIDE DEF t
  <2>5. tx'[d].s = n
    BY <2>1, <2>3, <2>4, AdvanceType
  <2>6. CASE n.new = tx[d].s.new
    BY <1>1, <2>1, <2>2, <2>5, <2>6
  <2>7. CASE n.new = RoutedSession(d, Sender(d)).new
    <3>1. Sender(d) \in Customers /\ Sender(d) \in tx[d].s.held
      BY <1>0, <2>1, CurType DEF HeldInv, HeldBy
    <3>2. n.new[c].owner # NoOne =>
            tx[d].s.new[c].owner # NoOne \/ (c = Sender(d) /\ Seen(d, Sender(d)).owner = NoOne)
      BY <1>0, <2>7, <3>1, RoutedFields
    <3>3. Seen(d, Sender(d)).owner = NoOne => chat[Sender(d)].owner = NoOne
      BY DEF Seen
    <3> QED
      BY <2>1, <2>2, <2>5, <3>1, <3>2, <3>3 DEF GivenBy
  <2> QED
    BY <2>2, <2>6, <2>7
<1>8. CASE Commit(d) \/ TaskFails(d) \/ Trips(d) \/ Victim(d)
  <2>1. \/ tx'[d] = [tx[d] EXCEPT !.pc = "done", !.s = Fresh]
        \/ tx'[d] = [tx[d] EXCEPT !.pc = "lost", !.s = Fresh]
    BY <1>8, CommitTypes, LostTypes
  <2>2. tx'[d].s = Fresh
    BY <1>0, <2>1 DEF Rows
  <2> QED
    BY <1>2, <2>2
<1> QED
  BY <1>3, <1>4, <1>5, <1>6, <1>7, <1>8 DEF Step

\* Without rules a commit writes an owner only into the chats its session has locked, which were
\* nobody's; the others' are as they were.
LEMMA CommitOwners ==
  ASSUME IntakeTypeInv, HeldInv, GivenInv, setup.sharing = "no_team", NEW d \in Deliveries, Commit(d), NEW c \in Customers
  PROVE  \/ chat'[c].owner = chat[c].owner
         \/ c \in tx[d].s.held /\ chat[c].owner = NoOne
<1>1. chat'[c] = Seen(d, c)
  BY DEF Commit
<1>2. GivenBy(d)
  BY DEF GivenInv
<1> QED
  BY <1>1, <1>2 DEF Seen, GivenBy

\* The drafting job and people wait for the lock of a chat.
LEMMA OtherOwners ==
  ASSUME IntakeTypeInv, setup.sharing = "no_team", NEW c \in Customers, chat'[c].owner # chat[c].owner,
         (\E m \in Messages : LoadJob(m) \/ Hand(m)) \/ (\E b \in Customers : Touch(b)) \/ UNCHANGED intakeVars
  PROVE  /\ \A d \in Deliveries : c \notin tx[d].s.held
         /\ chat[c].owner = NoOne \/ touches' # touches
<1>1. chat \in [Customers -> Chats] /\ touches \in Nat
  BY ConstantTypes DEF IntakeTypeInv, IntakeTypeOK
<1>2. ASSUME NEW m \in Messages, Hand(m)
      PROVE  /\ \A d \in Deliveries : c \notin tx[d].s.held
             /\ chat[c].owner = NoOne
  <2>1. ~ChatLocked(From[m]) /\ HandedTo(m) # NoOne /\ chat' = [chat EXCEPT ![From[m]].owner = HandedTo(m)]
    BY <1>2 DEF Hand
  <2>2. c = From[m]
    BY <1>1, <2>1
  <2>3. chat[c].owner = NoOne
    BY <2>1, <2>2 DEF HandedTo
  <2> QED
    BY <2>1, <2>2, <2>3 DEF ChatLocked
<1>3. ASSUME NEW b \in Customers, Touch(b)
      PROVE  /\ \A d \in Deliveries : c \notin tx[d].s.held
             /\ touches' # touches
  <2>1. ~ChatLocked(b) /\ touches' = touches + 1 /\ \E u \in People \cup {NoOne} : chat' = [chat EXCEPT ![b].owner = u]
    BY <1>3 DEF Touch
  <2>2. c = b
    BY <1>1, <2>1
  <2> QED
    BY <1>1, <2>1, <2>2 DEF ChatLocked
<1>4. \A m \in Messages : ~LoadJob(m)
  BY DEF LoadJob
<1>5. ~UNCHANGED intakeVars
  BY DEF intakeVars
<1> QED
  BY <1>2, <1>3, <1>4, <1>5

LEMMA NextGiven == IntakeTypeInv /\ HeldInv /\ GivenInv /\ [IntakeNext]_intakeVars => GivenInv'
<1> SUFFICES ASSUME IntakeTypeInv, HeldInv, GivenInv, [IntakeNext]_intakeVars, setup'.sharing = "no_team",
                    NEW d \in Deliveries, NEW c \in Customers, tx'[d].s.new[c].owner # NoOne
             PROVE  c \in tx'[d].s.held /\ chat'[c].owner = NoOne
  BY DEF GivenInv, GivenBy
<1>1. setup' = setup
  BY OneTask, OthersTypes DEF IntakeNext, ApiStops
<1>2. GivenBy(d)
  BY <1>1 DEF GivenInv
<1>3. ASSUME tx'[d].s = tx[d].s
      PROVE  c \in tx'[d].s.held /\ c \in tx[d].s.held /\ chat[c].owner = NoOne
  BY <1>2, <1>3 DEF GivenBy
<1>4. ASSUME NEW e \in Deliveries, Accept(e) \/ Step(e) \/ TaskFails(e)
      PROVE  c \in tx'[d].s.held /\ chat'[c].owner = NoOne
  <2>1. CASE d = e
    <3>1. c \in tx'[d].s.held /\ chat[c].owner = NoOne /\ ~Commit(d)
      BY <1>1, <1>2, <1>4, <2>1, StepGiven
    <3> QED
      BY <1>4, <2>1, <3>1, OneTask
  <2>2. CASE d # e
    <3>1. c \in tx'[d].s.held /\ c \in tx[d].s.held /\ chat[c].owner = NoOne
      BY <1>3, <1>4, <2>2, OneTask
    <3>2. c \notin tx[e].s.held
      BY <2>2, <3>1 DEF HeldInv, HeldApart
    <3>3. UNCHANGED chat \/ Commit(e)
      BY <1>4, OneTask
    <3> QED
      BY <1>1, <3>1, <3>2, <3>3, CommitOwners
  <2> QED
    BY <2>1, <2>2
<1>5. CASE ApiStops
  <2>1. chat' = chat
    BY <1>5 DEF ApiStops
  <2>2. tx'[d] = tx[d] \/ tx'[d].s = Fresh
    BY <1>5, CrashTypes, RowFields DEF IntakeTypeInv, Rows
  <2> QED
    BY <1>3, <2>1, <2>2, FreshFields
<1>6. CASE (\E m \in Messages : LoadJob(m) \/ Hand(m)) \/ (\E b \in Customers : Touch(b)) \/ UNCHANGED intakeVars
  <2>1. tx' = tx
    BY <1>6, OthersTypes
  <2> QED
    BY <1>1, <1>3, <1>6, <2>1, OtherOwners
<1> QED
  BY <1>4, <1>5, <1>6 DEF IntakeNext

\* Without team rules nobody loses a chat to a message or a drafting job that came at the same time.
THEOREM ChatsStayWithTheirPeople == IntakeSpec => OnlyPeopleMoveAChat
<1>1. IntakeInit => IntakeTypeInv /\ HeldInv /\ GivenInv
  BY InitTypes, InitHeld, InitGiven
<1>2. IntakeTypeInv /\ HeldInv /\ GivenInv /\ [IntakeNext]_intakeVars => IntakeTypeInv' /\ HeldInv' /\ GivenInv'
  BY NextTypes, NextHeld, NextGiven
<1>3. IntakeTypeInv /\ HeldInv /\ GivenInv /\ [IntakeNext]_intakeVars =>
        [setup.sharing = "no_team" =>
           \A c \in Customers : chat[c].owner # NoOne /\ chat'[c].owner # chat[c].owner => touches' # touches]_intakeVars
  <2> SUFFICES ASSUME IntakeTypeInv, HeldInv, GivenInv, [IntakeNext]_intakeVars, setup.sharing = "no_team", NEW c \in Customers,
                            chat[c].owner # NoOne, chat'[c].owner # chat[c].owner
                     PROVE  touches' # touches
    OBVIOUS
  <2>1. ASSUME NEW d \in Deliveries, Accept(d) \/ Step(d) \/ TaskFails(d) PROVE FALSE
    BY <2>1, OneTask, CommitOwners
  <2>2. ~ApiStops
    BY DEF ApiStops
  <2> QED
    BY <2>1, <2>2, OtherOwners DEF IntakeNext
<1> QED
  BY <1>1, <1>2, <1>3, PTL DEF IntakeSpec, OnlyPeopleMoveAChat
=============================================================================
