------------------------------ MODULE Renewals ------------------------------
(***************************************************************************)
(* One business's plan, from its first payment on: the monthly debits that *)
(* keep it alive and the checkouts that change it or pay for it anew       *)
(* (shared/billing/service.py).  The sweep gives PayU                      *)
(* notice of a debit, makes it, retries a failed one, pauses what stays    *)
(* unpaid and settles pending payments; the browser's return and PayU's    *)
(* webhook settle one payment each, at any moment.                         *)
(*                                                                         *)
(* A run of the sweep is one transaction over every business.  It loads    *)
(* the subscriptions first and never reads them again, not even when it    *)
(* locks one (db.get(..., with_for_update=True) keeps what is loaded), and *)
(* writes the columns it changed.  A request loads the row as it locks it. *)
(* What PayU was told or debited is not undone by a rollback.              *)
(***************************************************************************)
EXTENDS Integers, FiniteSets

CONSTANTS
    Hooks,          \* requests: PayU's webhook, the browser coming back
    None,
    Lead,           \* PRE_DEBIT_LEAD
    Gap,            \* RETRY_GAP
    Window,         \* RETRY_WINDOW
    Month,
    Silence,        \* RENEWAL_NOT_FOUND_EXPIRY
    Patience,       \* PENDING_EXPIRY
    MaxAttempts,    \* MAX_ATTEMPTS
    MaxCheckouts,   \* bound: payments that start a plan
    MaxDebits,      \* bound: monthly debits
    MaxNow,         \* bound: the clock
    MaxFaults       \* bound: runs of the sweep that are lost

ASSUME RenewalsAssumption ==
    /\ None \notin Int
    /\ Lead \in Nat /\ Gap \in Nat /\ Window \in Nat /\ Silence \in Nat /\ Patience \in Nat
    /\ Lead <= Gap /\ Silence <= Patience
    /\ Month \in Nat \ {0} /\ MaxAttempts \in Nat \ {0}
    /\ MaxCheckouts \in Nat \ {0} /\ MaxDebits \in Nat /\ MaxNow \in Nat /\ MaxFaults \in Nat

\* Payments are numbered in the order they are made, each kind for itself.
Checkouts == 1 .. MaxCheckouts      \* each registers a mandate of its own
Debits == MaxCheckouts + 1 .. MaxCheckouts + MaxDebits
Payments == Checkouts \union Debits

VARIABLES
    now,
    sub,        \* the subscriptions row, as committed
    payment,    \* Payment.status as committed; "none" when there is no row
    since,      \* Payment.created_at of those not settled, which is all that is asked
    payu,       \* PayU's own record of each payment
    told,       \* the last debit PayU was given notice of, for each mandate
    tried,      \* debits asked of PayU since the plan was last paid for
    sweep,      \* the sweep's run
    hook,       \* the payment each request has locked and verified
    faults

vars == <<now, sub, payment, since, payu, told, tried, sweep, hook, faults>>

\* A charge is due on a day; what different events brought about is never the same moment.
Dates == [day : Nat, by : Payments, why : {"paid", "asked", "failed"}]
Moments == Dates \union {None}
Sub == [status : {"active", "past_due", "suspended", "cancelled"},
        ends : Nat,                         \* current_period_end
        next : Moments,                     \* next_charge_at
        notice : Moments,                   \* pre_debit_sent_for
        attempts : Nat,
        retry : Nat \union {None},          \* retry_until
        mandate : Checkouts,                \* authpayuid
        stop : BOOLEAN]                     \* cancel_at_period_end
ASSUME NoneAssumption == None \notin Dates /\ None \notin Sub

Columns == {"status", "ends", "next", "notice", "attempts", "retry", "mandate", "stop"}
Off == [at |-> "off", mine |-> None, dirty |-> {}, locks |-> FALSE,
        todo |-> {}, held |-> {}, good |-> {}, bad |-> {}, made |-> None]

TypeOK ==
    /\ now \in Nat
    /\ sub \in Sub
    /\ payment \in [Payments -> {"none", "pending", "success", "failed"}]
    /\ since \in [Payments -> Nat]
    /\ payu \in [Payments -> {"none", "pending", "captured", "failed"}]
    /\ told \in [Checkouts -> Moments]
    /\ tried \in Nat
    /\ sweep \in [at : {"off", "sub", "call", "settle"}, mine : Sub \union {None},
                  dirty : SUBSET Columns, locks : BOOLEAN,
                  todo : SUBSET Payments, held : SUBSET Payments,
                  good : SUBSET Payments, bad : SUBSET Payments, made : Debits \union {None}]
    /\ hook \in [Hooks -> Payments \union {None}]
    /\ faults \in Nat

-----------------------------------------------------------------------------
(***************************************************************************)
(* What a settled payment does to a subscription                           *)
(***************************************************************************)

Due(day, p, why) == [day |-> day, by |-> p, why |-> why]

Later(a, b) == IF a >= b THEN a ELSE b

\* _apply_success.  A checkout starts a month today; a renewal adds one to what is paid for.
Paid(s, p) ==
    LET end == IF p \in Checkouts THEN now + Month ELSE Later(s.ends, now) + Month
    IN  [status |-> "active", ends |-> end, next |-> Due(end, p, "paid"), notice |-> None, attempts |-> 0,
         retry |-> None, mandate |-> IF p \in Checkouts THEN p ELSE s.mandate, stop |-> FALSE]

\* Mutant: one attempt too many.
Mutant_SpentLate(s, until) == s.attempts > MaxAttempts

\* No retry fits in the week, or there were enough.
Spent(s, until) == s.attempts >= MaxAttempts \/ now + Gap > until

\* Mutant: a plan that is paused keeps a state of the payment.
Mutant_Paused(s) == [s EXCEPT !.status = "failed", !.next = None]

Paused(s) == [s EXCEPT !.status = "suspended", !.next = None]

\* _fail.
Unpaid(s, p) ==
    LET until == IF s.retry = None THEN now + Window ELSE s.retry
        after == [s EXCEPT !.retry = until, !.notice = None]
    IN  IF p \in Checkouts THEN s
        ELSE IF Spent(s, until) THEN Paused(after)
        ELSE [after EXCEPT !.status = "past_due", !.next = Due(now + Gap, p, "failed")]

Limit(p) == IF p \in Debits /\ payu[p] = "none" THEN Silence ELSE Patience

Overdue(p) == since[p] < now - Limit(p)

\* settle_payment: what PayU says of p, or that it has said nothing for too long.
Succeeded(p) == payment[p] = "pending" /\ payu[p] = "captured"
GivenUp(p) ==
    /\ payment[p] = "pending"
    /\ payu[p] = "failed" \/ (payu[p] \in {"none", "pending"} /\ Overdue(p))

\* The first checkout was a success a moment ago: until then there is no row.
Init ==
    /\ now = 0
    /\ sub = [status |-> "active", ends |-> Month, next |-> Due(Month, 1, "paid"), notice |-> None,
              attempts |-> 0, retry |-> None, mandate |-> 1, stop |-> FALSE]
    /\ payment = [p \in Payments |-> IF p = 1 THEN "success" ELSE "none"]
    /\ since = [p \in Payments |-> 0]
    /\ payu = [p \in Payments |-> IF p = 1 THEN "captured" ELSE "none"]
    /\ told = [c \in Checkouts |-> None]
    /\ tried = 0
    /\ sweep = Off
    /\ hook = [h \in Hooks |-> None]
    /\ faults = 0

-----------------------------------------------------------------------------
(***************************************************************************)
(* The world                                                               *)
(***************************************************************************)

\* A run and a request take less than the unit of time.
Tick ==
    /\ now < MaxNow
    /\ sweep.at = "off" /\ \A h \in Hooks : hook[h] = None
    /\ now' = now + 1
    /\ UNCHANGED <<sub, payment, since, payu, told, tried, sweep, hook, faults>>

\* PayU and the bank decide.  Taken for granted: nothing is captured after the days the
\* code waits for it.
Decide(p) ==
    /\ ~Overdue(p)
    /\ \/ p \in Checkouts /\ payment[p] = "pending" /\ payu[p] = "none"
       \/ payu[p] = "pending"
    /\ \E state \in {"captured", "failed"} : payu' = [payu EXCEPT ![p] = state]
    /\ UNCHANGED <<now, sub, payment, since, told, tried, sweep, hook, faults>>

\* start_plan_checkout.
Subscribe(c) ==
    /\ payment[c] = "none" /\ \A b \in 1 .. c - 1 : payment[b] # "none"
    /\ payment' = [payment EXCEPT ![c] = "pending"]
    /\ since' = [since EXCEPT ![c] = now]
    /\ UNCHANGED <<now, sub, payu, told, tried, sweep, hook, faults>>

\* cancel() and resume(), under the row's lock.
SetStop(stop) ==
    /\ ~sweep.locks
    /\ sub.stop # stop
    /\ stop \/ sub.status # "cancelled"
    /\ sub' = [sub EXCEPT !.stop = stop]
    /\ UNCHANGED <<now, payment, since, payu, told, tried, sweep, hook, faults>>

-----------------------------------------------------------------------------
(***************************************************************************)
(* A request settles one payment                                           *)
(***************************************************************************)

\* Lock the payment and ask PayU.  One that is not pending, or not yet decided, is left.
HookBegins(h, p) ==
    /\ hook[h] = None
    /\ Succeeded(p) \/ GivenUp(p)
    /\ p \notin sweep.held /\ \A g \in Hooks : hook[g] # p
    /\ hook' = [hook EXCEPT ![h] = p]
    /\ UNCHANGED <<now, sub, payment, since, payu, told, tried, sweep, faults>>

NeedsSub(p) == Succeeded(p) \/ p \in Debits

\* Apply it to the subscription, read as its row is locked, and commit.
HookApplies(h) ==
    LET p == hook[h] IN
    /\ p # None
    /\ NeedsSub(p) => ~sweep.locks
    /\ payment' = [payment EXCEPT ![p] = IF Succeeded(p) THEN "success" ELSE "failed"]
    /\ sub' = IF Succeeded(p) THEN Paid(sub, p) ELSE Unpaid(sub, p)
    /\ tried' = IF Succeeded(p) THEN 0 ELSE tried
    /\ hook' = [hook EXCEPT ![h] = None]
    /\ since' = [since EXCEPT ![p] = 0]
    /\ UNCHANGED <<now, payu, told, sweep, faults>>

\* Its transaction is rolled back: it failed, or lost a deadlock with the sweep, which waits
\* for its payment while it waits for the subscription.
HookFails(h) ==
    /\ hook[h] # None
    /\ hook' = [hook EXCEPT ![h] = None]
    /\ UNCHANGED <<now, sub, payment, since, payu, told, tried, sweep, faults>>

-----------------------------------------------------------------------------
(***************************************************************************)
(* renewal_sweep                                                           *)
(***************************************************************************)

\* The copy after s became t.
Edited(run, t) ==
    [run EXCEPT !.mine = t,
                !.dirty = @ \union {f \in Columns : run.mine[f] # t[f]}]

Pending == {p \in Payments : payment[p] = "pending"}

\* The pending payments are read, which flushes what was written until now.
Listed(run) == [run EXCEPT !.at = "settle", !.locks = @ \/ run.dirty # {}, !.todo = Pending]

\* The subscriptions that still matter are read, before the run gets to this one.
SweepReads ==
    /\ sweep.at = "off"
    /\ sweep' = IF sub.status = "suspended" THEN Listed(Off)
                ELSE [Off EXCEPT !.at = "sub", !.mine = sub]
    /\ UNCHANGED <<now, sub, payment, since, payu, told, tried, hook, faults>>

\* Mutant: only what can still be charged is looked at.
Mutant_WeekOver(s) ==
    ~s.stop /\ s.status = "past_due" /\ now > s.ends + Window

\* The backstop: unpaid for a week, for whatever reason.
WeekOver(s) ==
    ~s.stop /\ s.status \in {"active", "past_due"} /\ now > s.ends + Window

\* Mutant: a debit in flight is not looked for.
Mutant_Waiting == FALSE

Waiting == \E d \in Debits : payment[d] = "pending"

Renewable(s) ==
    /\ ~WeekOver(s) /\ ~s.stop /\ s.status # "cancelled"
    /\ s.next # None
    /\ ~Waiting

NoticeDue(s) == Renewable(s) /\ s.notice # s.next /\ now >= s.next.day - Lead

\* Mutant: the day is enough.
Mutant_ChargeDue(s) == Renewable(s) /\ now >= s.next.day

ChargeDue(s) == Renewable(s) /\ s.notice = s.next /\ now >= s.next.day

Turn == sweep.at = "sub"

SweepPauses ==
    /\ Turn /\ WeekOver(sweep.mine)
    /\ sweep' = Listed(Edited(sweep, Paused(sweep.mine)))
    /\ UNCHANGED <<now, sub, payment, since, payu, told, tried, hook, faults>>

SweepEnds ==
    /\ Turn /\ sweep.mine.stop
    /\ sweep.mine.ends < now /\ sweep.mine.status # "cancelled"
    /\ sweep' = Listed(Edited(sweep, [sweep.mine EXCEPT !.status = "cancelled"]))
    /\ UNCHANGED <<now, sub, payment, since, payu, told, tried, hook, faults>>

\* Nothing is due; or a debit is, at an hour when none is allowed.  With nothing to settle
\* either, the run is over.
SweepPasses ==
    /\ Turn
    /\ ~WeekOver(sweep.mine) /\ ~NoticeDue(sweep.mine)
    /\ ~(sweep.mine.stop /\ sweep.mine.ends < now /\ sweep.mine.status # "cancelled")
    /\ sweep' = IF Pending = {} THEN Off ELSE Listed(sweep)
    /\ UNCHANGED <<now, sub, payment, since, payu, told, tried, hook, faults>>

\* PayU takes the notice, or refuses it, or its answer is lost.
SweepNotifies ==
    /\ Turn /\ NoticeDue(sweep.mine)
    /\ LET s == sweep.mine
           known == [told EXCEPT ![s.mandate] = s.next]
       IN  \/ /\ told' = known
              /\ sweep' = Listed(Edited(sweep, [s EXCEPT !.notice = s.next]))
           \/ /\ told' \in {told, known}
              /\ sweep' = Listed(sweep)
    /\ UNCHANGED <<now, sub, payment, since, payu, tried, hook, faults>>

\* A txnid that neither side has seen.
Fresh(d) == payment[d] = "none" /\ payu[d] = "none"

\* _charge up to its flush, which locks the row.
SweepCharges(d) ==
    /\ Turn /\ ChargeDue(sweep.mine)
    /\ Fresh(d) /\ \A e \in Debits : e < d => ~Fresh(e)
    /\ since' = [since EXCEPT ![d] = now]
    /\ sweep' = [Edited(sweep, [sweep.mine EXCEPT !.attempts = @ + 1, !.notice = None,
                                                  !.next = Due(now + Gap, d, "asked")])
                 EXCEPT !.at = "call", !.locks = TRUE, !.made = d]
    /\ UNCHANGED <<now, sub, payment, payu, told, tried, hook, faults>>

\* PayU accepts the debit, refuses it, or cannot be understood: an exception the loop
\* catches, whatever PayU did.
SweepCalls ==
    LET d == sweep.made IN
    /\ sweep.at = "call"
    /\ tried' = tried + 1
    /\ \/ /\ \E state \in {"none", "pending", "captured"} : payu' = [payu EXCEPT ![d] = state]
          /\ sweep' = Listed(sweep)
       \/ /\ payu' = [payu EXCEPT ![d] = "failed"]
          /\ sweep' = [Listed(Edited(sweep, Unpaid(sweep.mine, d))) EXCEPT !.bad = {d}]
    /\ UNCHANGED <<now, sub, payment, since, told, hook, faults>>

\* settle_payment for one of them, once no request has it: nothing, when it is settled or
\* undecided or PayU cannot be reached; or its outcome, on the copy if there is one.
SweepSettles(p) ==
    /\ sweep.at = "settle" /\ p \in sweep.todo
    /\ \A h \in Hooks : hook[h] # p
    /\ LET run == [sweep EXCEPT !.todo = @ \ {p}, !.held = @ \union {p}]
           copy == IF sweep.mine = None THEN [run EXCEPT !.mine = sub] ELSE run
       IN  \/ sweep' = run
           \/ /\ Succeeded(p)
              /\ sweep' = [Edited(copy, Paid(copy.mine, p)) EXCEPT !.locks = TRUE,
                                                                   !.good = @ \union {p}]
           \/ /\ GivenUp(p) /\ p \in Debits
              /\ sweep' = [Edited(copy, Unpaid(copy.mine, p)) EXCEPT !.locks = TRUE,
                                                                     !.bad = @ \union {p}]
           \/ /\ GivenUp(p) /\ p \in Checkouts
              /\ sweep' = [run EXCEPT !.bad = @ \union {p}]
    /\ UNCHANGED <<now, sub, payment, since, payu, told, tried, hook, faults>>

SweepCommits ==
    /\ sweep.at = "settle" /\ sweep.todo = {}
    /\ sub' = [f \in Columns |-> IF f \in sweep.dirty THEN sweep.mine[f] ELSE sub[f]]
    /\ payment' = [p \in Payments |-> IF p \in sweep.good THEN "success"
                                      ELSE IF p \in sweep.bad THEN "failed"
                                      ELSE IF p = sweep.made THEN "pending"
                                      ELSE payment[p]]
    /\ tried' = IF sweep.good # {} THEN 0 ELSE tried
    /\ sweep' = Off
    /\ since' = [p \in Payments |-> IF p \in sweep.good \cup sweep.bad THEN 0 ELSE since[p]]
    /\ UNCHANGED <<now, payu, told, hook, faults>>

\* The run is rolled back after it asked PayU for a debit: the process died, the commit failed,
\* or it lost a deadlock (an error of one settle leaves the session unusable, so the final
\* commit fails too).  One that asked for none leaves nothing behind, as if it had not come.
SweepFails ==
    /\ sweep.at = "settle" /\ sweep.made # None
    /\ faults < MaxFaults
    /\ faults' = faults + 1
    /\ sweep' = Off
    /\ since' = [since EXCEPT ![sweep.made] = 0]
    /\ UNCHANGED <<now, sub, payment, payu, told, tried, hook>>

-----------------------------------------------------------------------------
SweepStep ==
    \/ SweepReads \/ SweepPauses \/ SweepEnds \/ SweepPasses \/ SweepNotifies
    \/ \E d \in Debits : SweepCharges(d)
    \/ SweepCalls \/ \E p \in Payments : SweepSettles(p)
    \/ SweepCommits

Next ==
    \/ Tick
    \/ \E p \in Payments : Decide(p)
    \/ \E c \in Checkouts : Subscribe(c)
    \/ \E stop \in BOOLEAN : SetStop(stop)
    \/ \E h \in Hooks :
        \/ \E p \in Payments : HookBegins(h, p)
        \/ HookApplies(h) \/ HookFails(h)
    \/ SweepStep \/ SweepFails

Spec == Init /\ [][Next]_vars

\* The sweep is scheduled every 30 minutes and what has begun goes on; the database ends
\* deadlocks.  Nothing makes owners pay, PayU decide or requests come.
FairSpec ==
    /\ Spec
    /\ SF_vars(SweepStep)
    /\ \A h \in Hooks : WF_vars(HookApplies(h) \/ HookFails(h))

-----------------------------------------------------------------------------
(***************************************************************************)
(* Properties                                                              *)
(***************************************************************************)

\* "UPI AutoPay allows at most 4 attempts": between two months paid for, PayU is asked to
\* debit at most MAX_ATTEMPTS times, and once more for each run that was lost.
TriedInMonth == tried <= MaxAttempts + faults

InFlight == {d \in Debits : payu[d] \in {"pending", "captured"} /\ payment[d] \in {"none", "pending"}}

\* "do not notify or charge again on top of it": there are never two debits that PayU may
\* still collect and that are not settled here, but for those a lost run forgot.
OneDebitInFlight == Cardinality(InFlight) <= 1 + faults

\* "The pre-debit notice and the charge must carry the SAME number": what is debited is the
\* mandate and the day PayU was told of, whatever was paid, failed or rolled back between.
DebitWasAnnounced ==
    [][sweep.made = None /\ sweep'.made # None
       => told[sweep.mine.mandate] = sweep.mine.next]_vars

Overdrawn == sub.status \in {"active", "past_due"} /\ now > sub.ends + Window

\* "Nothing renews forever on silence": a plan that is unpaid a week after its month does not
\* stay so: it is paid for, paused or ended, though notices are refused, debits are not
\* answered, and one that was in flight makes a paused plan past due again.
SilenceEnds == []<>~Overdrawn

=============================================================================
