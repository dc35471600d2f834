---------------------------- MODULE SlotCalendar ----------------------------
(***************************************************************************)
(* What bookings promise the doctor and the customers, with no             *)
(* transactions, stale reads, deadline or sweep: a calendar.  A slot is    *)
(* given to one appointment at a time, and from one to another only        *)
(* through being open.  One that was given a deposit to pay is firm only   *)
(* for money, and one that is firm is never merely held again.  One that   *)
(* paid in time is not released for its deposit, at any later time.        *)
(* Bookings implements it.                                                 *)
(***************************************************************************)
CONSTANTS Appts, Slots, None

VARIABLES
    place,      \* the slot each appointment has, or None
    firm,       \* those confirmed, not merely held
    owing,      \* those that were given a deposit to pay
    payers,     \* those a payment came for
    kept,       \* those that paid in time
    released    \* those released for their deposit

calendarVars == <<place, firm, owing, payers, kept, released>>

CalendarInit ==
    /\ place = [a \in Appts |-> None]
    /\ firm = {} /\ owing = {} /\ payers = {} /\ kept = {} /\ released = {}

Open(s) == \A a \in Appts : place[a] # s

Has(a, s) == place' = [place EXCEPT ![a] = s]

\* A slot is held for an appointment with a deposit to pay.
Hold(a, s) ==
    /\ place[a] = None /\ Open(s) /\ Has(a, s)
    /\ a \notin firm \union owing
    /\ owing' = owing \union {a}
    /\ UNCHANGED <<firm, payers, kept, released>>

\* One without a slot is confirmed for an open one, one that has a slot for that.
Confirm(a, s) ==
    /\ place[a] = s \/ (place[a] = None /\ Open(s))
    /\ Has(a, s)
    /\ a \in owing => a \in payers
    /\ firm' = firm \union {a}
    /\ kept' = kept \/ (a \notin released /\ kept' = kept \union {a})
    /\ UNCHANGED <<owing, payers, released>>

Move(a, s) ==
    /\ place[a] # None /\ Open(s) /\ Has(a, s)
    /\ UNCHANGED <<firm, owing, payers, kept, released>>

Leave(as) ==
    /\ place' = [a \in Appts |-> IF a \in as THEN None ELSE place[a]]
    /\ firm' = firm \ as
    /\ UNCHANGED <<owing, payers, kept>>

Cancel(a) == Leave({a}) /\ UNCHANGED released

\* Those whose deposit has not come in time, several at once.
Release(as) ==
    /\ as \intersect kept = {}
    /\ Leave(as)
    /\ released' = released \union as

Pay(a) ==
    /\ payers' = payers \union {a}
    /\ UNCHANGED <<place, firm, owing, kept, released>>

CalendarNext ==
    \/ \E a \in Appts : Cancel(a) \/ Pay(a)
    \/ \E a \in Appts, s \in Slots : Hold(a, s) \/ Confirm(a, s) \/ Move(a, s)
    \/ \E as \in SUBSET Appts : Release(as)

CalendarSpec == CalendarInit /\ [][CalendarNext]_calendarVars
=============================================================================
