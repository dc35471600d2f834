----------------------------- MODULE Automations -----------------------------
(***************************************************************************)
(* The trigger-to-action bridge (shared/care/post_call_actions.py) for one *)
(* customer of one business: rules that are chains of steps, started by an *)
(* event inside that event's own transaction (apply_rules), paused at a    *)
(* step with a delay or by quiet hours (AutomationStepRun), and resumed by *)
(* the scheduler's sweep (run_due_steps).  A sweep is one transaction that *)
(* commits at its end, whatever it has sent by then; an event's            *)
(* transaction commits with the visit, order or message that caused it.    *)
(* Sends are outside every transaction: they cannot be rolled back.        *)
(*                                                                         *)
(* Time is in ticks; a day has DayLen of them, those in Quiet are the      *)
(* quiet hours.  What a step says and to whom is left out: a step reaches  *)
(* the customer (nudge) or stays inside the business.                      *)
(***************************************************************************)
EXTENDS Integers, Sequences, FiniteSets

CONSTANTS
  Events,     \* things that happen, each firing one rule in a transaction
  Rules,
  Setups,     \* what the owner may have set up, see SetupAssumption
  Always,     \* reentry_days is None
  Never,      \* no time; no row
  Sweep,      \* the scheduler's process
  DayLen,
  Quiet,      \* quiet ticks of a day
  ActiveFor,  \* how long after a customer's message nothing is a nudge
  Cap,        \* automation_limits["daily_limit"]
  MaxTime, MaxReplies,
  MaxFaults   \* bound: crashes, failures and deleted rules together

Steps == [nudge: BOOLEAN, \* not one of INTERNAL_ACTIONS
          wait: Nat,      \* delay_seconds
          stop: BOOLEAN,  \* stop_if
          cond: BOOLEAN]  \* has a condition

\* The rule each event fires, each rule's steps and its reentry_days in ticks.
ASSUME SetupAssumption ==
  /\ Events # {}
  /\ Setups \subseteq [rule: [Events -> Rules], chain: [Rules -> Seq(Steps)],
                       reentry: [Rules -> Nat \cup {Always}]]
ASSUME TimeAssumption ==
  /\ DayLen \in Nat \ {0} /\ Quiet \subseteq 0..(DayLen - 1) /\ Quiet # 0..(DayLen - 1)
  /\ ActiveFor \in Nat /\ Cap \in Nat
  /\ MaxTime \in Nat /\ MaxReplies \in Nat /\ MaxFaults \in Nat
ASSUME NameAssumption ==
  Sweep \notin Events /\ Never \notin Nat /\ Always \notin Nat

VARIABLES
  setup,     \* the owner's rules; constant after Init
  now,
  lastReply, \* when the customer last wrote
  alive,     \* rules that are not deleted
  row,       \* row[e]: the pending AutomationStepRun of the chain e started
  marker,    \* marker[r]: AutomationRuleCustomer.last_started_at
  kept,      \* acts whose log rows are committed: <<event, step, day>>
  tx,        \* tx[p]: the transaction of an event or of the sweep
  begun,     \* history: begun[e]: when the chain first paused
  saw,       \* history: saw[e]: the starts committed when e looked at its marker
  started,   \* history: started[e]: when e started, once committed with something done
  replies, faults

history == <<begun, saw, started>>
vars == <<setup, now, lastReply, alive, row, marker, kept, tx, begun, saw, started,
          replies, faults>>

Processes == Events \cup {Sweep}
Moments == 0..MaxTime
Pauses == [at: Nat, since: Moments, due: Nat] \* remaining_steps from step at
Day(t) == t \div DayLen
Acts == Events \X Nat \X Nat

\* What a transaction has done so far.  pc: idle, chain (about to run step
\* at of cur's chain), gate and resume (the sweep: stop_if let a step of the
\* chain pass, or the one its row waited for), batch (between rows), commit, over.
Transactions ==
  [pc: {"idle", "chain", "gate", "resume", "batch", "commit", "over"},
   cur: Events, at: Nat, since: Moments \cup {Never}, clock: Moments,
   todo: SUBSET Events, rows: [Events -> Pauses \cup {Never}], took: SUBSET Events,
   acts: SUBSET Acts, acted: BOOLEAN, seen: Moments \cup {Never}]

RuleOf(e) == setup.rule[e]
Chain(e) == setup.chain[RuleOf(e)]
Clean(e, pc) == [pc |-> pc, cur |-> e, at |-> 1, since |-> Never, clock |-> 0, todo |-> {},
             rows |-> [f \in Events |-> Never], took |-> {}, acts |-> {}, acted |-> FALSE,
             seen |-> Never]

\* The event whose chain the process starts with; any, for the sweep.
Home(p) == IF p = Sweep THEN CHOOSE e \in Events : TRUE ELSE p

TypeOK ==
  /\ setup \in Setups
  /\ now \in Moments /\ lastReply \in Moments \cup {Never}
  /\ alive \subseteq Rules
  /\ row \in [Events -> Pauses \cup {Never}]
  /\ marker \in [Rules -> Moments \cup {Never}]
  /\ kept \subseteq Acts
  /\ tx \in [Processes -> Transactions]
  /\ begun \in [Events -> Moments \cup {Never}]
  /\ saw \in [Events -> SUBSET Events] /\ started \in [Events -> Moments \cup {Never}]
  /\ replies \in 0..MaxReplies /\ faults \in 0..MaxFaults

-----------------------------------------------------------------------------
(* The gates of a step.                                                    *)

IsQuiet(t) == t % DayLen \in Quiet

\* quiet_until: the first tick after t that is not quiet.
QuietEnd(t) == CHOOSE u \in (t + 1)..(t + DayLen) : ~IsQuiet(u) /\ \A v \in t..(u - 1) : IsQuiet(v)

\* The customer is in a live conversation.
Active(t) == lastReply # Never /\ lastReply + ActiveFor > t

\* What _send_gate counts of today: rows a deletion has not taken along,
\* committed or of this transaction t.
SentToday(t, u) ==
  Cardinality({x \in kept \cup t.acts :
    RuleOf(x[1]) \in alive /\ Chain(x[1])[x[2]].nudge /\ x[3] = Day(u)})

Gated(step, u) == step.nudge /\ ~Active(u)
Held(step, u) == Gated(step, u) /\ IsQuiet(u)
OverCap(t, step, u) == Gated(step, u) /\ ~IsQuiet(u) /\ Cap > 0 /\ SentToday(t, u) >= Cap

\* _stopped asks the database about a step marked stop_if of a chain that has paused: whether
\* the customer wrote since it first did.
Asks(t, step) == step.stop /\ t.since # Never
Stopped(t) == lastReply # Never /\ lastReply > t.since

\* Mutant: "once per customer" taken for an interval of no length.
Mutant_MayStart(r, seen) == setup.reentry[r] = Always \/ seen = Never \/ now - seen >= setup.reentry[r]

\* reentry_allowed, on the marker as read.
MayStart(r, seen) ==
  setup.reentry[r] = Always \/ seen = Never \/ (setup.reentry[r] > 0 /\ now - seen >= setup.reentry[r])

-----------------------------------------------------------------------------
Init ==
  /\ setup \in Setups
  /\ now = 0 /\ lastReply = Never /\ alive = Rules
  /\ row = [e \in Events |-> Never] /\ marker = [r \in Rules |-> Never] /\ kept = {}
  /\ tx = [p \in Processes |-> Clean(Home(p), "idle")]
  /\ begun = [e \in Events |-> Never] /\ saw = [e \in Events |-> {}] /\ started = [e \in Events |-> Never]
  /\ replies = 0 /\ faults = 0

Tick ==
  /\ now < MaxTime /\ now' = now + 1
  /\ UNCHANGED <<setup, lastReply, alive, row, marker, kept, tx, history, replies, faults>>

Reply ==
  /\ replies < MaxReplies /\ replies' = replies + 1
  /\ lastReply' = now
  /\ UNCHANGED <<setup, now, alive, row, marker, kept, tx, history, faults>>

\* delete_rule: waiting chains, the log and the marker go with the rule.
Delete(r) ==
  /\ r \in alive /\ alive' = alive \ {r}
  /\ faults < MaxFaults /\ faults' = faults + 1
  /\ row' = [e \in Events |-> IF RuleOf(e) = r THEN Never ELSE row[e]]
  /\ marker' = [marker EXCEPT ![r] = Never]
  /\ UNCHANGED <<setup, now, lastReply, kept, tx, history, replies>>

\* apply_rules: an active rule that has steps, and whose marker allows it, starts its chain.
Start(e) ==
  LET r == RuleOf(e) IN
  /\ tx[e].pc = "idle" /\ r \in alive
  /\ IF Chain(e) # <<>> /\ MayStart(r, marker[r])
     THEN /\ tx' = [tx EXCEPT ![e].pc = "chain", ![e].seen = marker[r], ![e].clock = now]
          /\ saw' = [saw EXCEPT ![e] = {f \in Events : started[f] # Never}]
     ELSE tx' = [tx EXCEPT ![e].pc = "over"] /\ UNCHANGED saw
  /\ UNCHANGED <<setup, now, lastReply, alive, row, marker, kept, begun, started, replies, faults>>

\* The chain of this transaction is at its end for now.
Ended(p, t) == [t EXCEPT !.pc = IF p = Sweep THEN "batch" ELSE "commit", !.at = 1, !.since = Never]

\* On to the next step of the chain, if there is one.
Onward(p, t) ==
  IF t.at = Len(Chain(t.cur)) THEN Ended(p, t) ELSE [t EXCEPT !.pc = "chain", !.at = @ + 1]

\* Mutants: the chain's start is not carried along (or now); it is carried
\* along as the time of the latest wait; all the steps are kept, not the
\* remaining ones.
Mutant_PausedUndated(p, t, due) ==
  Ended(p, [t EXCEPT !.acted = TRUE, !.rows[t.cur] = [at |-> t.at, since |-> t.since, due |-> due]])
Mutant_PausedAnew(p, t, due) ==
  Ended(p, [t EXCEPT !.acted = TRUE, !.rows[t.cur] = [at |-> t.at, since |-> now, due |-> due]])
Mutant_PausedWhole(p, t, due) ==
  Ended(p, [t EXCEPT !.acted = TRUE,
    !.rows[t.cur] = [at |-> 1, since |-> IF t.since = Never THEN now ELSE t.since, due |-> due]])

\* An AutomationStepRun is added: the chain goes on at this step when due.
Paused(p, t, due) ==
  Ended(p, [t EXCEPT !.acted = TRUE,
    !.rows[t.cur] = [at |-> t.at, since |-> IF t.since = Never THEN now ELSE t.since, due |-> due]])

\* The step's action, and how it went: done and logged "ran", or nothing
\* was done (no recipient, nothing to do, the provider refused).
Performed(p, t, u) ==
  {Onward(p, [t EXCEPT !.acted = TRUE, !.acts = @ \cup {<<t.cur, t.at, Day(u)>>}]), Onward(p, t)}

\* What becomes of transaction t of p at the gate of its step, with u for the time: held,
\* skipped, or performed.  An action only adds to the transaction's own acts: what others do
\* between the gate and the action may as well come after both.
Outcomes(p, t, u) ==
  LET step == Chain(t.cur)[t.at] IN
  IF Held(step, u) THEN {Paused(p, t, QuietEnd(u))}
  ELSE IF OverCap(t, step, u) THEN {Onward(p, t)}
  ELSE Performed(p, t, u)

\* And when the step's wait, if it had one, is over: a step that asks is stopped or comes to
\* its gate, by which time more may have happened; any other is there at once.
AfterWait(p, t, u, gate) ==
  LET step == Chain(t.cur)[t.at] IN
  IF ~Asks(t, step) THEN Outcomes(p, t, u)
  ELSE IF Stopped(t) THEN {Ended(p, t)}
  ELSE {[t EXCEPT !.pc = gate]}

\* One round of _run_chain's loop: the condition, the wait, the rest.
ChainStep(p) ==
  LET t == tx[p]
      step == Chain(t.cur)[t.at]
  IN
  /\ t.pc = "chain"
  /\ \/ step.cond /\ tx' = [tx EXCEPT ![p] = Onward(p, t)]
     \/ step.wait > 0 /\ tx' = [tx EXCEPT ![p] = Paused(p, t, now + step.wait)]
     \/ step.wait = 0 /\ \E after \in AfterWait(p, t, now, "gate") : tx' = [tx EXCEPT ![p] = after]
  /\ begun' = [begun EXCEPT ![t.cur] =
       IF @ = Never /\ tx'[p].rows[t.cur] # Never THEN now ELSE @]
  /\ UNCHANGED <<setup, now, lastReply, alive, row, marker, kept, saw, started, replies, faults>>

\* Mutant: rows are read for the tick they are due at.
Mutant_DueRows == {e \in Events : row[e] # Never /\ row[e].due = now}

DueRows == {e \in Events : row[e] # Never /\ row[e].due <= now}

\* run_due_steps reads the rows that are due and fixes its clock.
SweepBegin ==
  /\ tx[Sweep].pc = "idle" /\ DueRows # {}
  /\ tx' = [tx EXCEPT ![Sweep].pc = "batch", ![Sweep].todo = DueRows, ![Sweep].clock = now,
                      ![Sweep].rows = row]
  /\ UNCHANGED <<setup, now, lastReply, alive, row, marker, kept, history, replies, faults>>

\* The next row: executed_at is stamped, in the sweep's transaction, and the
\* step it waited for is resumed.  Its delay and condition are behind it, and
\* quiet hours are judged by the sweep's own clock.
SweepTake(e) ==
  LET t == tx[Sweep]
      taken == [t EXCEPT !.cur = e, !.todo = @ \ {e}, !.took = @ \cup {e},
                         !.at = t.rows[e].at, !.since = t.rows[e].since, !.rows[e] = Never]
  IN
  /\ t.pc = "batch" /\ e \in t.todo
  /\ \E after \in AfterWait(Sweep, taken, t.clock, "resume") : tx' = [tx EXCEPT ![Sweep] = after]
  /\ UNCHANGED <<setup, now, lastReply, alive, row, marker, kept, history, replies, faults>>

\* The sweep at the gate of a step that was not stopped.
SweepPasses ==
  LET t == tx[Sweep] IN
  /\ t.pc \in {"gate", "resume"}
  /\ \E after \in Outcomes(Sweep, t, IF t.pc = "gate" THEN now ELSE t.clock) :
       tx' = [tx EXCEPT ![Sweep] = after]
  /\ UNCHANGED <<setup, now, lastReply, alive, row, marker, kept, history, replies, faults>>

Gone(p) == Clean(Home(p), IF p = Sweep THEN "idle" ELSE "over")

\* Rows and log entries refer to their rule: a deletion meanwhile makes the
\* flush fail.  Two first starts of one rule break the marker's unique key.
Broken(p) ==
  \/ p = Sweep /\ \E e \in tx[Sweep].took : RuleOf(e) \notin alive
  \/ p # Sweep /\ RuleOf(p) \notin alive
  \/ /\ p # Sweep /\ tx[p].acted /\ setup.reentry[RuleOf(p)] # Always
     /\ tx[p].seen = Never /\ marker[RuleOf(p)] # Never

Commit(p) ==
  LET t == tx[p]
      written == IF p = Sweep THEN t.took ELSE {p}
      start == p # Sweep /\ t.acted
  IN
  /\ IF p = Sweep THEN t.pc = "batch" /\ t.todo = {} ELSE t.pc = "commit"
  /\ IF Broken(p) THEN UNCHANGED <<row, marker, kept, started>>
     ELSE /\ row' = [e \in Events |-> IF e \in written THEN t.rows[e] ELSE row[e]]
          /\ kept' = kept \cup t.acts
          /\ started' = IF start THEN [started EXCEPT ![p] = t.clock] ELSE started
          /\ marker' = IF start /\ setup.reentry[RuleOf(p)] # Always
                       THEN [marker EXCEPT ![RuleOf(p)] = t.clock] ELSE marker
  /\ tx' = [tx EXCEPT ![p] = Gone(p)]
  /\ UNCHANGED <<setup, now, lastReply, alive, begun, saw, replies, faults>>

\* Anything raises past the loop, or the process dies, before the commit.
Fail(p) ==
  /\ faults < MaxFaults /\ faults' = faults + 1
  /\ tx[p].pc \notin {"idle", "over"}
  /\ tx' = [tx EXCEPT ![p] = Gone(p)]
  /\ UNCHANGED <<setup, now, lastReply, alive, row, marker, kept, history, replies>>

SweepStep == SweepBegin \/ ChainStep(Sweep) \/ SweepPasses \/ Commit(Sweep) \/ \E e \in Events : SweepTake(e)
EventStep(e) == ChainStep(e) \/ Commit(e)

Next ==
  \/ Tick \/ Reply
  \/ \E r \in Rules : Delete(r)
  \/ \E e \in Events : Start(e) \/ EventStep(e)
  \/ SweepStep
  \/ \E p \in Processes : Fail(p)

Spec == Init /\ [][Next]_vars

\* The clock runs, the scheduler runs its sweep and requests run to their end.
Fairness ==
  /\ WF_vars(Tick) /\ WF_vars(SweepStep)
  /\ \A e \in Events : WF_vars(EventStep(e))

FairSpec == Spec /\ Fairness

-----------------------------------------------------------------------------
(* Properties.                                                             *)

\* A step whose transaction committed is never performed again: not by the
\* next sweep, not by a resumed chain that overlaps a new start, not after
\* a hold.  (A step whose transaction was lost is: see the README.)
PerformedOnce ==
  \A p \in Processes : \A x \in tx[p].acts : \A y \in kept : x[1] = y[1] => x[2] # y[2]

\* Once a chain has waited, a customer who wrote since its first wait is not sent a step marked
\* stop_if, however many waits, holds and lost sweeps came between (_started_at rides along in
\* the context): nobody had written when the step came to its gate, and it is performed there
\* and nowhere else.  What the customer writes after stop_if was asked does not stop it.
AtGate == tx[Sweep].pc \in {"gate", "resume"}
StopsWhenReplied ==
  [][/\ ~AtGate /\ AtGate' /\ begun[tx'[Sweep].cur] # Never
          => lastReply = Never \/ lastReply <= begun[tx'[Sweep].cur]
     /\ \A p \in Processes : \A x \in tx'[p].acts \ tx[p].acts :
          Chain(x[1])[x[2]].stop /\ begun[x[1]] # Never
            => p = Sweep /\ AtGate /\ x[1] = tx[p].cur /\ x[2] = tx[p].at]_vars

\* Neither start was committed when the other looked at its marker.
Overlap(e, g) == e \notin saw[g] /\ g \notin saw[e]

\* "Once per customer" is kept between all starts: the marker's unique key stops the ones that
\* could not see each other.  An interval is kept after a start that nothing else overlapped;
\* of two that did, the marker keeps the one committed last, which may be the earlier one.
ReentryKept ==
  \A e, f \in Events :
    LET r == RuleOf(e) IN
    /\ e # f /\ r = RuleOf(f) /\ r \in alive
    /\ started[e] # Never /\ started[f] # Never /\ setup.reentry[r] # Always
    => /\ setup.reentry[r] # 0
       /\ e \in saw[f] /\ (\A g \in saw[f] \ {e} : RuleOf(g) = r => ~Overlap(e, g))
          => started[f] - started[e] >= setup.reentry[r]

\* A chain that waits is resumed, unless its rule is deleted: no failed or
\* overlapping sweep leaves a due row behind.
EveryWaitEnds ==
  \A e \in Events : row[e] # Never /\ row[e].due <= now ~>
    \/ RuleOf(e) \notin alive
    \/ row[e] = Never \/ row[e].due > now
=============================================================================
