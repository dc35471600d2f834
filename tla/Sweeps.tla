------------------------------- MODULE Sweeps -------------------------------
(***************************************************************************)
(* One of the scheduler's polling jobs (services/api/scheduler.py) and the *)
(* rows it looks after: appointments to remind of, carts, cash orders,     *)
(* escalations nobody answered, requests nobody took.  The jobs have one   *)
(* shape and differ in a few points, which are the fields of kind.         *)
(*                                                                         *)
(* A job is run every period.  It reads the rows that are due, without     *)
(* locks, then for each one calls a provider and sets the row's marker in  *)
(* the session, and commits once, at the end.  An exception that leaves    *)
(* the loop, or the end of the process, loses every marker of the run; the *)
(* messages are with the customers.                                        *)
(*                                                                         *)
(* Time is in ticks of a length that divides the job's period and window.  *)
(***************************************************************************)
EXTENDS Integers, FiniteSets

CONSTANTS
  Items,
  Kinds,      \* the jobs of this instance, a subset of AllKinds
  Forever,    \* the window never closes
  Limit,      \* LIMIT of a batch, for the jobs that have one
  MaxTime,    \* bound: the clock stops here, the runs go on
  MaxFaults   \* bound: crashes, exceptions and missed runs together

VARIABLES
  kind,     \* the job; constant after Init
  opens,    \* when each row becomes due; constant after Init
  broken,   \* rows whose handling always raises; constant after Init
  now,
  next,     \* IntervalTrigger: when the job runs next
  settled,  \* rows that need no message any more
  mark,     \* rows whose marker column is set
  run,      \* the run and its transaction
  got,      \* history: messages each row's person was sent
  lost,     \* history: those of them whose marker was lost
  tried,    \* history: rows some run came to
  missed,   \* history: runs skipped, missed, lost or put off
  faults

vars == <<kind, opens, broken, now, next, settled, mark, run, got, lost, tried, missed, faults>>
choices == <<kind, opens, broken>>

\* stamp: when the marker is set: before the call, whatever comes of it; or
\* after a call that was accepted.  width: how long a row stays due.  caught:
\* an exception at one row is caught in the loop.  limited: a run reads LIMIT
\* rows at most.  rechecks: whether the row still needs the message is asked
\* at its turn, and not by the query.
Job == [stamp: {"before", "accepted"}, width: Nat \cup {Forever}, period: Nat \ {0},
        caught: BOOLEAN, limited: BOOLEAN, rechecks: BOOLEAN]

Plain == [stamp |-> "before", width |-> Forever, period |-> 1,
          caught |-> FALSE, limited |-> FALSE, rechecks |-> FALSE]

\* ticks of 5 minutes: run every 15, due for 10 before and after the target
Reminders == [Plain EXCEPT !.stamp = "accepted", !.width = 4, !.period = 3]
\* ticks of 30 minutes
Recalls == [Plain EXCEPT !.stamp = "accepted", !.width = 4]
Reviews == [Plain EXCEPT !.width = 8]
Carts == [Plain EXCEPT !.width = 4]
DeadlineCalls == [Plain EXCEPT !.width = 48]
\* ticks of 6 hours
RepeatPurchases == [Plain EXCEPT !.width = 28, !.rechecks = TRUE]
Onboarding == [Plain EXCEPT !.width = 8, !.rechecks = TRUE]
Expansion == Plain
CodConfirmations == Plain
CodCalls == Plain
CodNoOutcome == Plain
Overdue == Plain
Unacknowledged == Plain
Uncategorized == [Plain EXCEPT !.stamp = "accepted", !.caught = TRUE]
TeamRequests == [Plain EXCEPT !.caught = TRUE, !.limited = TRUE]

AllKinds == {Reminders, Recalls, Reviews, Carts, DeadlineCalls, RepeatPurchases, Onboarding, Expansion,
             CodConfirmations, CodCalls, CodNoOutcome, Overdue, Unacknowledged, Uncategorized, TeamRequests}

ASSUME KindsAssumption == Kinds \subseteq Job
\* The one job with a LIMIT has no window.
ASSUME LimitAssumption == \A k \in Kinds : k.limited => k.width = Forever
ASSUME BoundAssumption == MaxTime \in Nat /\ MaxFaults \in Nat

\* todo: rows read and not yet come to; stamps: markers set; sent: rows
\* whose person was sent a message in this run.
Idle == [on |-> FALSE, todo |-> {}, stamps |-> {}, sent |-> {}]
Runs == [on: BOOLEAN, todo: SUBSET Items, stamps: SUBSET Items, sent: SUBSET Items]

TypeOK ==
  /\ kind \in Kinds /\ opens \in [Items -> Nat] /\ broken \subseteq Items
  /\ now \in 0..MaxTime /\ next \in Nat
  /\ settled \subseteq Items /\ mark \subseteq Items
  /\ run \in Runs /\ (run.on \/ run = Idle)
  /\ got \in [Items -> Nat] /\ lost \in [Items -> Nat]
  /\ tried \subseteq Items /\ missed \in Nat /\ faults \in 0..MaxFaults

Init ==
  /\ kind \in Kinds
  /\ opens \in [Items -> 0..kind.period] /\ broken \in SUBSET Items
  /\ now = 0 /\ next \in 0..(kind.period - 1)
  /\ settled = {} /\ mark = {} /\ run = Idle
  /\ got = [i \in Items |-> 0] /\ lost = [i \in Items |-> 0]
  /\ tried = {} /\ missed = 0 /\ faults = 0

Closed(i) == kind.width # Forever /\ now > opens[i] + kind.width

\* Mutant: a window that only looks ahead of its target.
Mutant_Due ==
  {i \in Items \ mark : (kind.rechecks \/ i \notin settled) /\ opens[i] <= now
                         /\ (kind.width # Forever => now <= opens[i] + kind.width \div 2)}

\* The rows the job's query returns.
Due == {i \in Items \ mark : (kind.rechecks \/ i \notin settled) /\ opens[i] <= now /\ ~Closed(i)}

-----------------------------------------------------------------------------
\* A run that is due starts, or is skipped, before the clock goes on.
Tick ==
  /\ now < MaxTime /\ next > now
  /\ now' = now + 1
  /\ UNCHANGED <<choices, next, settled, mark, run, got, lost, tried, missed, faults>>

\* The customer cancels, answers or comes back; somebody acknowledges.
Settle(i) ==
  /\ i \notin settled /\ settled' = settled \cup {i}
  /\ UNCHANGED <<choices, now, next, mark, run, got, lost, tried, missed, faults>>

AtHand(rows) ==
  IF kind.limited THEN {s \in SUBSET rows : Cardinality(s) = IF Cardinality(rows) < Limit THEN Cardinality(rows) ELSE Limit}
  ELSE {rows}

\* Bound: when the clock has stopped the runs go on, except where one is
\* lost each time.
OnTime == now >= next \/ (now = MaxTime /\ broken = {})

Begin ==
  /\ ~run.on /\ OnTime
  /\ \E rows \in AtHand(Due) : run' = [Idle EXCEPT !.on = TRUE, !.todo = rows]
  /\ next' = now + kind.period
  /\ UNCHANGED <<choices, now, settled, mark, got, lost, tried, missed, faults>>

\* The last run is still on (max_instances is one).
Skip ==
  /\ run.on /\ now >= next /\ now < MaxTime
  /\ next' = next + kind.period /\ missed' = missed + 1
  /\ UNCHANGED <<choices, now, settled, mark, run, got, lost, tried, faults>>

\* The event loop was too busy when the run was due.  One that starts late
\* counts as missed.
Miss ==
  /\ ~run.on /\ now >= next /\ faults < MaxFaults
  /\ faults' = faults + 1
  /\ next' = next + kind.period /\ missed' = missed + 1
  /\ UNCHANGED <<choices, now, settled, mark, run, got, lost, tried>>

\* Mutant: an accepted message leaves no marker.
Mutant_Unmarked(i, sent) == IF kind.stamp = "before" THEN run.stamps \cup {i} ELSE run.stamps

\* Mutant: only what was sent is marked, whatever the job.
Mutant_OnlySent(i, sent) == IF sent THEN run.stamps \cup {i} ELSE run.stamps

\* The markers after a row's turn.
Stamped(i, sent) == IF kind.stamp = "before" \/ sent THEN run.stamps \cup {i} ELSE run.stamps

\* Whether a message goes out at a row's turn: not when the row needs none,
\* cannot be sent one, or the provider refuses it.
Sent(i) == IF i \in broken \/ (kind.rechecks /\ i \in settled) THEN {FALSE} ELSE BOOLEAN

\* A row's turn when nothing is raised past the call.
Take(i) ==
  /\ run.on /\ i \in run.todo
  /\ i \in broken => kind.caught /\ kind.stamp = "before"
  /\ \E sent \in Sent(i) :
       /\ run' = [run EXCEPT !.todo = @ \ {i}, !.stamps = Stamped(i, sent),
                             !.sent = IF sent THEN @ \cup {i} ELSE @]
       /\ got' = [got EXCEPT ![i] = IF sent THEN @ + 1 ELSE @]
  /\ tried' = tried \cup {i}
  /\ UNCHANGED <<choices, now, next, settled, mark, lost, missed, faults>>

\* An exception at a row that the loop catches before the marker is set.
Caught(i) ==
  /\ run.on /\ i \in run.todo /\ kind.caught /\ kind.stamp = "accepted"
  /\ i \in broken \/ faults < MaxFaults
  /\ faults' = IF i \in broken THEN faults ELSE faults + 1
  /\ run' = [run EXCEPT !.todo = @ \ {i}]
  /\ tried' = tried \cup {i}
  /\ UNCHANGED <<choices, now, next, settled, mark, got, lost, missed>>

\* The run's transaction is gone.
Gone(sent) ==
  /\ run' = Idle
  /\ lost' = [i \in Items |-> IF i \in sent THEN lost[i] + 1 ELSE lost[i]]

\* An exception at a row leaves the loop.  The provider may have sent the
\* message all the same (its answer timed out); it has not when the
\* business's credential could not be read.
Raise(i) ==
  /\ run.on /\ i \in run.todo /\ ~kind.caught
  /\ \/ i \in broken /\ UNCHANGED <<got, faults>> /\ Gone(run.sent)
     \/ /\ i \notin broken /\ faults < MaxFaults /\ faults' = faults + 1
        /\ \E sent \in BOOLEAN :
             /\ got' = [got EXCEPT ![i] = IF sent THEN @ + 1 ELSE @]
             /\ Gone(IF sent THEN run.sent \cup {i} ELSE run.sent)
  /\ missed' = missed + 1 /\ tried' = tried \cup {i}
  /\ UNCHANGED <<choices, now, next, settled, mark>>

\* The process ends, in a run or between two, or the commit fails.  The
\* timers of a new process start when it does: a run that is on is lost and
\* the one after it put off, which is two.
Crash ==
  /\ faults < MaxFaults /\ faults' = faults + 1
  /\ Gone(run.sent)
  /\ missed' = missed + IF run.on THEN 2 ELSE 1
  /\ next' = now + kind.period
  /\ UNCHANGED <<choices, now, settled, mark, got, tried>>

\* Mutant: the next run goes on in this one's session.
Mutant_Commit ==
  /\ run.on /\ run.todo = {}
  /\ mark' = mark \cup run.stamps /\ run' = [run EXCEPT !.on = FALSE]
  /\ UNCHANGED <<choices, now, next, settled, got, lost, tried, missed, faults>>

Commit ==
  /\ run.on /\ run.todo = {}
  /\ mark' = mark \cup run.stamps /\ run' = Idle
  /\ UNCHANGED <<choices, now, next, settled, got, lost, tried, missed, faults>>

RunStep == Begin \/ Skip \/ Commit \/ \E i \in Items : Take(i) \/ Caught(i) \/ Raise(i)

Next == Tick \/ RunStep \/ Miss \/ Crash \/ \E i \in Items : Settle(i)

Spec == Init /\ [][Next]_vars

\* The clock goes on and the scheduler runs its jobs to their end.
Fairness == WF_vars(Tick) /\ WF_vars(RunStep)

FairSpec == Spec /\ Fairness

-----------------------------------------------------------------------------
(* Properties.                                                             *)

\* A message is repeated only when a run that had sent it lost its marker:
\* runs that overlap nothing, rows settled in between and rows read before
\* them never cause a second one.
RepeatedOnlyWhenLost == \A i \in Items : got[i] <= lost[i] + 1

\* A window must be long enough for the runs that are missed: while those
\* missed, skipped, lost and put off together leave room for one in it, no
\* row's window closes before a run has read it or come to it.
ReachedInWindow ==
  \A i \in Items \ settled :
    kind.width # Forever /\ Closed(i) /\ (missed + 1) * kind.period <= kind.width => i \in tried \cup run.todo

\* Where no window closes, every row that is due is come to or settled, as
\* long as no row of any business always raises.
EveryRowIsReached ==
  \A i \in Items :
    broken = {} /\ kind.width = Forever /\ opens[i] <= now ~> i \in tried \/ i \in settled

=============================================================================
