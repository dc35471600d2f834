------------------------------ MODULE Bookings ------------------------------
(***************************************************************************)
(* Appointments and the deposits that hold them: booking, cancelling,      *)
(* moving and marking, the WhatsApp payment that confirms a held slot, and *)
(* the sweep that releases one nobody paid for (shared/scheduling/         *)
(* booking.py and deposits.py, services/api/routers/{scheduling,webhooks,  *)
(* ledger}.py).                                                            *)
(*                                                                         *)
(* A transaction sees a row when it loads it and writes the columns it     *)
(* changed when it commits, by primary key; between flush and commit       *)
(* others wait for its rows, so flush and commit are one step here.  The   *)
(* partial unique index on (doctor_id, starts_at) refuses two live rows    *)
(* with one slot, whatever the writer had seen.                            *)
(*                                                                         *)
(* A WhatsApp webhook is answered before it is processed and never         *)
(* delivered again: what fails then is lost.                               *)
(***************************************************************************)
EXTENDS Naturals, FiniteSets

CONSTANTS
    Appts,
    Slots,          \* the slots of one doctor
    Desk,           \* requests, agents and workers that book or change bookings
    Hooks,          \* background tasks processing WhatsApp webhooks
    None,
    MaxRequests,    \* bound: bookings cancelled, moved and marked, deposits closed
    MaxPayments,    \* bound: payments made in the chat
    MaxFaults       \* bound: transactions that fail

ASSUME BookingsAssumption ==
    /\ Desk \intersect Hooks = {}
    /\ None \notin Slots \union Appts
    /\ MaxRequests \in Nat /\ MaxPayments \in Nat /\ MaxFaults \in Nat

VARIABLES
    row,        \* Appointment: status, slot, and whether its notes say
                \* it was cancelled for an unpaid deposit
    deposit,    \* the deposit's Commitment.status, "none" when there is none
    late,       \* appointments whose deadline passed while they were held
    paid,       \* what the customer paid in the chat for each: deposit, fee
    bell,       \* webhooks of those payments not yet processed
    inTime,     \* held appointments confirmed before their deadline
    tx,         \* the transaction of each process of Desk and Hooks
    sweep,      \* the appointments the release sweep has read
    requests,   \* those of MaxRequests made so far
    faults

vars == <<row, deposit, late, paid, bell, inTime, tx, sweep, requests, faults>>

Statuses == {"none", "awaiting_deposit", "confirmed", "visited", "cancelled"}
Settable == {"confirmed", "visited"}     \* no_show is as visited here
Locked == {"cancelled", "awaiting_deposit"}
Row == [status : Statuses, slot : Slots \union {None}, unpaid : BOOLEAN]
NoRow == [status |-> "none", slot |-> None, unpaid |-> FALSE]
Items == {"deposit", "fee"}

Ops == {"idle", "book", "cancel", "move", "mark", "confirm"}
NoTx == [op |-> "idle", appt |-> None, seen |-> "none", slot |-> None, to |-> "none",
         item |-> "deposit"]
Tx == [op : Ops, appt : Appts \union {None}, seen : Statuses, slot : Slots \union {None},
       to : Statuses, item : Items]

\* The types of the variables.
TypeOK ==
    /\ row \in [Appts -> Row]
    /\ deposit \in [Appts -> {"none", "open", "met", "closed"}]
    /\ late \subseteq Appts
    /\ paid \in [Appts -> SUBSET Items] /\ bell \in [Appts -> SUBSET Items]
    /\ inTime \subseteq Appts
    /\ tx \in [Desk \union Hooks -> Tx]
    /\ sweep \subseteq Appts
    /\ requests \in 0 .. MaxRequests /\ faults \in 0 .. MaxFaults

Init ==
    /\ row = [a \in Appts |-> NoRow]
    /\ deposit = [a \in Appts |-> "none"]
    /\ late = {}
    /\ paid = [a \in Appts |-> {}]
    /\ bell = [a \in Appts |-> {}]
    /\ inTime = {}
    /\ tx = [p \in Desk \union Hooks |-> NoTx]
    /\ sweep = {}
    /\ requests = 0 /\ faults = 0

-----------------------------------------------------------------------------
(***************************************************************************)
(* The customer and the clock                                              *)
(***************************************************************************)

DeadlinePasses(a) ==
    /\ row[a].status = "awaiting_deposit"
    /\ a \notin late
    /\ late' = late \union {a}
    /\ UNCHANGED <<row, deposit, paid, bell, inTime, tx, sweep, requests, faults>>

\* The customer pays a request sent in the chat: the deposit's, or one staff sent for a
\* fee, whose commitment carries the appointment_id too.  The button does not expire.
PayInChat(a, item) ==
    /\ row[a].status # "none"
    /\ item = "deposit" => deposit[a] # "none"
    /\ item \notin paid[a]
    /\ Cardinality({payment \in Appts \X Items : payment[2] \in paid[payment[1]]}) < MaxPayments
    /\ paid' = [paid EXCEPT ![a] = @ \union {item}]
    /\ bell' = [bell EXCEPT ![a] = @ \union {item}]
    /\ UNCHANGED <<row, deposit, late, inTime, tx, sweep, requests, faults>>

-----------------------------------------------------------------------------
(***************************************************************************)
(* What the desk, the agents and the webhooks load                         *)
(***************************************************************************)

Counted ==
    /\ requests < MaxRequests
    /\ requests' = requests + 1

Request(p, a) ==
    /\ tx[p].op = "idle"
    /\ row[a].status # "none"
    /\ Counted

Live(status) == status \notin {"none", "cancelled"}

\* Mutant: a held slot is not protected until it is confirmed.
Mutant_FreeUnlessConfirmed(s, a) ==
    \A b \in Appts \ {a} : row[b].slot = s => row[b].status \in Locked \union {"none"}

\* No other live appointment has the slot: what open_slots shows, and what the unique
\* index lets through.
Free(s, a) == \A b \in Appts \ {a} : row[b].slot = s => ~Live(row[b].status)

\* book(): the slot is open when it is picked.  Under a deposit policy it is only held.
Book(p, a, s) ==
    /\ tx[p].op = "idle"
    /\ row[a].status = "none"
    /\ \A q \in Desk : tx[q].appt # a
    /\ Free(s, a)
    /\ \E policy \in BOOLEAN :
        tx' = [tx EXCEPT ![p] = [NoTx EXCEPT !.op = "book", !.appt = a, !.slot = s,
                                    !.to = IF policy THEN "awaiting_deposit" ELSE "confirmed"]]
    /\ UNCHANGED <<row, deposit, late, paid, bell, inTime, sweep, requests, faults>>

\* cancel() by staff, who may cancel any, or by an agent for the customer.
Cancel(p, a) ==
    /\ Request(p, a)
    /\ tx' = [tx EXCEPT ![p] = [NoTx EXCEPT !.op = "cancel", !.appt = a, !.seen = row[a].status]]
    /\ UNCHANGED <<row, deposit, late, paid, bell, inTime, sweep, faults>>

\* reschedule(), to a slot that is open now; the status is not looked at.
Reschedule(p, a, s) ==
    /\ Request(p, a)
    /\ \A b \in Appts : row[b].slot = s => ~Live(row[b].status)
    /\ tx' = [tx EXCEPT ![p] = [NoTx EXCEPT !.op = "move", !.appt = a, !.slot = s]]
    /\ UNCHANGED <<row, deposit, late, paid, bell, inTime, sweep, faults>>

\* Mutant: an appointment that is waiting for its deposit may be marked.
Mutant_MayMarkHeld(status) == status # "cancelled"

\* next_status: neither cancelled nor waiting for its deposit.
MayMark(status) == status \notin Locked

SetStatus(p, a, wanted) ==
    /\ Request(p, a)
    /\ MayMark(row[a].status)
    /\ tx' = [tx EXCEPT ![p] = [NoTx EXCEPT !.op = "mark", !.appt = a, !.seen = row[a].status,
                                            !.to = wanted]]
    /\ UNCHANGED <<row, deposit, late, paid, bell, inTime, sweep, faults>>

\* _verify_and_close_payment: verified with the provider, then the commitment is loaded
\* (and left alone unless open) and its appointment.
Hear(p, a, item) ==
    /\ tx[p].op = "idle"
    /\ item \in bell[a]
    /\ bell' = [bell EXCEPT ![a] = @ \ {item}]
    /\ IF item = "deposit" /\ deposit[a] # "open"
       THEN UNCHANGED tx
       ELSE tx' = [tx EXCEPT ![p] = [NoTx EXCEPT !.op = "confirm", !.appt = a,
                                                 !.seen = row[a].status, !.item = item]]
    /\ UNCHANGED <<row, deposit, late, paid, inTime, sweep, requests, faults>>

-----------------------------------------------------------------------------
(***************************************************************************)
(* What they write                                                         *)
(***************************************************************************)

End(p) == tx' = [tx EXCEPT ![p] = NoTx]

\* The new row is inserted, with its deposit and deadline; or the index refuses it.
CommitBook(p) ==
    /\ tx[p].op = "book"
    /\ LET t == tx[p] IN
        IF Free(t.slot, t.appt)
        THEN /\ row' = [row EXCEPT ![t.appt] = [status |-> t.to, slot |-> t.slot, unpaid |-> FALSE]]
             /\ deposit' = [deposit EXCEPT ![t.appt] =
                                IF t.to = "awaiting_deposit" THEN "open" ELSE "none"]
        ELSE UNCHANGED <<row, deposit>>
    /\ End(p)
    /\ UNCHANGED <<late, paid, bell, inTime, sweep, requests, faults>>

\* The status is written unless it was cancelled when loaded.
CommitCancel(p) ==
    /\ tx[p].op = "cancel"
    /\ LET t == tx[p] IN
        IF t.seen = "cancelled"
        THEN UNCHANGED row
        ELSE row' = [row EXCEPT ![t.appt].status = "cancelled"]
    /\ End(p)
    /\ UNCHANGED <<deposit, late, paid, bell, inTime, sweep, requests, faults>>

\* The slot is written; the index refuses it when the row, as it is by now, is live and
\* another has the slot.
CommitMove(p) ==
    /\ tx[p].op = "move"
    /\ LET t == tx[p] IN
        IF Live(row[t.appt].status) => Free(t.slot, t.appt)
        THEN row' = [row EXCEPT ![t.appt].slot = t.slot]
        ELSE UNCHANGED row
    /\ End(p)
    /\ UNCHANGED <<deposit, late, paid, bell, inTime, sweep, requests, faults>>

\* A status written over one that was cancelled since: the index may refuse it.
MayRevive(a) == Free(row[a].slot, a)

CommitMark(p) ==
    /\ tx[p].op = "mark"
    /\ LET t == tx[p] IN
        IF t.to # t.seen /\ MayRevive(t.appt)
        THEN row' = [row EXCEPT ![t.appt].status = t.to]
        ELSE UNCHANGED row
    /\ End(p)
    /\ UNCHANGED <<deposit, late, paid, bell, inTime, sweep, requests, faults>>

\* Mutant: the commitment's status is written to the appointment.
Mutant_ConfirmedStatusMet(seen) == IF seen = "awaiting_deposit" THEN "met" ELSE seen

\* resolve_deposit_paid: an appointment that was waiting is confirmed, any other left.
ConfirmedStatus(seen) == IF seen = "awaiting_deposit" THEN "confirmed" ELSE seen

\* The payment is recorded and the appointment confirmed, or, when the index refuses
\* that, neither: the webhook's transaction is rolled back and the webhook is gone.
CommitConfirm(p) ==
    /\ tx[p].op = "confirm"
    /\ LET t == tx[p]
           status == ConfirmedStatus(t.seen)
           writes == status # t.seen
       IN  IF writes => MayRevive(t.appt)
           THEN /\ deposit' = [deposit EXCEPT ![t.appt] = IF t.item = "deposit" THEN "met" ELSE @]
                /\ row' = [row EXCEPT ![t.appt].status = IF writes THEN status ELSE @]
                /\ inTime' = IF writes /\ t.appt \notin late THEN inTime \union {t.appt} ELSE inTime
           ELSE UNCHANGED <<deposit, row, inTime>>
    /\ End(p)
    /\ UNCHANGED <<late, paid, bell, sweep, requests, faults>>

\* Any of these fails and is rolled back.
Abort(p) ==
    /\ tx[p].op # "idle"
    /\ faults < MaxFaults
    /\ faults' = faults + 1
    /\ End(p)
    /\ UNCHANGED <<row, deposit, late, paid, bell, inTime, sweep, requests>>

\* The deposit is recorded as paid by a person on the Ledger, or from a payment link:
\* fire_payment_received tells orders and automations, and not the appointment.
PaidElsewhere(a) ==
    /\ deposit[a] = "open"
    /\ deposit' = [deposit EXCEPT ![a] = "met"]
    /\ Counted
    /\ UNCHANGED <<row, late, paid, bell, inTime, tx, sweep, faults>>

\* A person closes the deposit as missed or cancelled.
CloseDeposit(a) ==
    /\ deposit[a] # "none"
    /\ deposit' = [deposit EXCEPT ![a] = "closed"]
    /\ Counted
    /\ UNCHANGED <<row, late, paid, bell, inTime, tx, sweep, faults>>

-----------------------------------------------------------------------------
(***************************************************************************)
(* The sweep                                                               *)
(***************************************************************************)

\* Mutant: the deadline is not compared with the time.
Mutant_UnpaidAnyTime == {a \in Appts : row[a].status = "awaiting_deposit"}

\* Mutant: only those whose deposit is still open on the Ledger.
Mutant_UnpaidOpenOnly ==
    {a \in Appts : row[a].status = "awaiting_deposit" /\ a \in late /\ deposit[a] = "open"}

\* Held past the deadline.
Unpaid == {a \in Appts : row[a].status = "awaiting_deposit" /\ a \in late}

SweepRead ==
    /\ sweep = {}
    /\ sweep' = Unpaid
    /\ sweep' # {}
    /\ UNCHANGED <<row, deposit, late, paid, bell, inTime, tx, requests, faults>>

\* release_unpaid_deposits cancels what it read, whatever it is by now; or fails.
SweepWrite ==
    /\ sweep # {}
    /\ sweep' = {}
    /\ \/ /\ row' = [a \in Appts |-> IF a \in sweep
                        THEN [row[a] EXCEPT !.status = "cancelled", !.unpaid = TRUE]
                        ELSE row[a]]
          /\ UNCHANGED faults
       \/ faults < MaxFaults /\ faults' = faults + 1 /\ UNCHANGED row
    /\ UNCHANGED <<deposit, late, paid, bell, inTime, tx, requests>>

-----------------------------------------------------------------------------
Commit(p) ==
    CommitBook(p) \/ CommitCancel(p) \/ CommitMove(p) \/ CommitMark(p) \/ CommitConfirm(p)

Next ==
    \/ \E a \in Appts :
        \/ DeadlinePasses(a) \/ PaidElsewhere(a) \/ CloseDeposit(a)
        \/ \E item \in Items : PayInChat(a, item)
        \/ \E p \in Hooks, item \in Items : Hear(p, a, item)
        \/ \E p \in Desk :
            \/ Cancel(p, a)
            \/ \E wanted \in Settable : SetStatus(p, a, wanted)
            \/ \E s \in Slots : Book(p, a, s) \/ Reschedule(p, a, s)
    \/ \E p \in Desk \union Hooks : Commit(p) \/ Abort(p)
    \/ SweepRead \/ SweepWrite

Spec == Init /\ [][Next]_vars

\* The sweep is scheduled every few minutes, the deadline is a time, and what has begun
\* ends.  Nothing makes a customer pay.
FairSpec ==
    /\ Spec
    /\ WF_vars(SweepRead) /\ WF_vars(SweepWrite)
    /\ \A a \in Appts : WF_vars(DeadlinePasses(a))
    /\ \A p \in Desk \union Hooks : WF_vars(Commit(p))

-----------------------------------------------------------------------------
(***************************************************************************)
(* Properties                                                              *)
(***************************************************************************)

\* "two live appointments can never legitimately share a start time": whoever books,
\* moves, or confirms at the same moment, a held slot is held.
OneLivePerSlot ==
    \A a, b \in Appts : a # b /\ Live(row[a].status) /\ Live(row[b].status)
                            => row[a].slot # row[b].slot

\* What the calendar shows of the appointments.
Place == [a \in Appts |-> IF Live(row[a].status) THEN row[a].slot ELSE None]
Firm == {a \in Appts : row[a].status \in Settable}
Owing == {a \in Appts : deposit[a] # "none"}
Payers == {a \in Appts : paid[a] # {}}
Released == {a \in Appts : row[a].unpaid}

Calendar ==
    INSTANCE SlotCalendar WITH
        place <- Place, firm <- Firm, owing <- Owing, payers <- Payers, kept <- inTime,
        released <- Released

\* Whoever books, moves, marks, cancels and pays from rows read a while ago, and whatever
\* the sweep has read: a slot passes from one appointment to another only through being
\* open, no step confirms an appointment that owes a deposit and got no money, and what
\* paid in time is not released.
KeepsTheCalendar == Calendar!CalendarSpec

\* A held appointment is confirmed only for money: whatever staff mark or move, one that
\* had a deposit to pay is confirmed when a payment for it came in the chat.
ConfirmedMeansPaid ==
    \A a \in Appts : deposit[a] # "none" /\ row[a].status \in Settable => paid[a] # {}

\* An appointment confirmed before its deadline is never released as unpaid, though the
\* sweep may be running (release_unpaid_deposits, resolve_deposit_paid).
OnTimeIsHonoured == \A a \in inTime : ~row[a].unpaid

\* "release the slot rather than hold it forever": every held slot is confirmed or freed.
EveryHoldEnds ==
    \A a \in Appts : row[a].status = "awaiting_deposit" ~> row[a].status # "awaiting_deposit"

\* "never got paid - release the slot": no slot is released for a deposit the Ledger
\* already shows as paid.
ReleasedIsUnpaid ==
    [][\A a \in Appts : ~row[a].unpaid /\ row'[a].unpaid
                            => deposit[a] # "met"]_vars

=============================================================================
