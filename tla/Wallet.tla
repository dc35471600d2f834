------------------------------- MODULE Wallet -------------------------------
(***************************************************************************)
(* The rupee wallet of one business: top-ups in, calls and number rent out *)
(* (shared/billing/wallet.py; settle_payment and the pending payments of   *)
(* renewal_sweep in shared/billing/service.py; buying and releasing a      *)
(* number in services/api/routers/voice_provisioning.py).                  *)
(*                                                                         *)
(* A transaction that touches the wallet locks its row until it ends, so   *)
(* there is at most one uncommitted copy: work, of the process holder.     *)
(* The others see book.  A payment's row is locked the same way by who     *)
(* settles it.                                                             *)
(***************************************************************************)
EXTENDS Integers, Sequences, FiniteSets

CONSTANTS
    Payments,   \* top-ups that went to PayU's checkout
    Numbers,    \* phone numbers of the business
    Calls,      \* usage rows of voice calls
    Requests,   \* browser returns and webhooks from PayU
    Renewals,   \* the billing sweep, which settles what is still pending
    None,
    Rent, Credit, Cost,     \* of a number, of a top-up, of a usage row
    Lag,        \* SETTLE_LAG
    MonthLength,
    MaxNow,     \* bound: the clock
    MaxFaults   \* bound: transactions that fail

Sweep == "wallet sweep"
Buyer == "buyer"
Settlers == Requests \union {Renewals}
Processes == Settlers \union {Sweep, Buyer}

ASSUME WalletAssumption ==
    /\ Rent \in Nat \ {0} /\ Credit \in Nat \ {0} /\ Cost \in Nat \ {0}
    /\ Lag \in Nat /\ MonthLength \in Nat \ {0} /\ MaxNow \in Nat /\ MaxFaults \in Nat
    /\ Renewals \notin Requests /\ Settlers \intersect {Sweep, Buyer} = {}
    /\ None \notin Processes \union Payments \union Numbers
    /\ Payments \intersect Numbers = {} /\ IsFiniteSet(Calls)

VARIABLES
    now,
    usage,      \* of each call: "none", "open" in its transaction, "saved"; its created_at
    captured,   \* payments PayU has captured
    payment,    \* Payment.status
    active,     \* numbers connected
    book,       \* the committed wallet and its entries; since is where its watermark began
    holder,     \* who has the wallet's row locked
    work,       \* the holder's uncommitted copy of book
    tx,         \* of each settler: payments to do, locked, being credited, credited, failed
    run,        \* the wallet sweep
    buying,     \* the number being bought
    faults

world == <<now, usage, captured, active>>
vars == <<now, usage, captured, payment, active, book, holder, work, tx, run, buying, faults>>

Kinds == {"topup", "calls", "number_rent"}
Entry == [kind : Kinds, ref : (Payments \union Numbers \union {None}) \X Nat,
          amount : Int, after : Int]
Book == [exists : BOOLEAN, balance : Int, since : Nat, through : Nat, short : BOOLEAN,
         entries : Seq(Entry)]
NoBook == [exists |-> FALSE, balance |-> 0, since |-> 0, through |-> 0, short |-> FALSE,
           entries |-> <<>>]
Tx == [todo : SUBSET Payments, held : SUBSET Payments, at : Payments \union {None},
       credited : SUBSET Payments, failed : SUBSET Payments]
NoTx == [todo |-> {}, held |-> {}, at |-> None, credited |-> {}, failed |-> {}]
Run == [phase : {"idle", "calls", "rent"}, cutoff : Nat, todo : SUBSET Numbers]
NoRun == [phase |-> "idle", cutoff |-> 0, todo |-> {}]

\* The types of the variables.
TypeOK ==
    /\ now \in Nat /\ now >= Lag
    /\ usage \in [Calls -> [state : {"none", "open", "saved"}, stamp : Nat]]
    /\ captured \subseteq Payments
    /\ payment \in [Payments -> {"pending", "success", "failed"}]
    /\ active \subseteq Numbers
    /\ book \in Book /\ work \in Book
    /\ holder \in Processes \union {None}
    /\ tx \in [Settlers -> Tx]
    /\ run \in Run
    /\ buying \in Numbers \union {None}
    /\ faults \in Nat

Init ==
    /\ now = Lag
    /\ usage = [c \in Calls |-> [state |-> "none", stamp |-> 0]]
    /\ captured = {}
    /\ payment = [p \in Payments |-> "pending"]
    /\ active = {}
    /\ book = NoBook /\ work = NoBook /\ holder = None
    /\ tx = [q \in Settlers |-> NoTx]
    /\ run = NoRun
    /\ buying = None
    /\ faults = 0

-----------------------------------------------------------------------------
(***************************************************************************)
(* The wallet's operations, on a copy of it                                *)
(***************************************************************************)

\* month_ref.
month == now \div MonthLength

Mine(q) == holder = q

\* Mutant: the wallet is read without FOR UPDATE.
Mutant_MayLockUnasked(q) == TRUE

MayLock(q) == holder \in {None, q}

\* _locked: the row, made when there is none, as q sees it once it has the lock.
LockedBook(q) ==
    LET b == IF Mine(q) THEN work ELSE book
    IN  IF b.exists THEN b ELSE [b EXCEPT !.exists = TRUE, !.since = now, !.through = now]

Seen(b, kind, ref) ==
    \E i \in DOMAIN b.entries : b.entries[i].kind = kind /\ b.entries[i].ref = ref

Posted(b, kind, ref, amount) ==
    [b EXCEPT !.balance = @ + amount,
              !.entries = Append(@, [kind |-> kind, ref |-> ref, amount |-> amount,
                                     after |-> b.balance + amount])]

\* post(): once for each (kind, ref).
Post(b, kind, ref, amount) ==
    IF Seen(b, kind, ref) THEN b ELSE Posted(b, kind, ref, amount)

\* post(allow_negative=False) does not raise: it was posted, or the balance covers it.
Affordable(b, n) == Seen(b, "number_rent", <<n, month>>) \/ b.balance - Rent >= 0

\* charge_number_rent.
RentTaken(b, n) ==
    IF Affordable(b, n) THEN Post(b, "number_rent", <<n, month>>, -Rent) ELSE b

\* Mutant: what was settled up to is settled again.
Mutant_UnsettledInclusive(start, cutoff) ==
    {c \in Calls : usage[c].state = "saved" /\ usage[c].stamp >= start /\ usage[c].stamp <= cutoff}

\* The voice usage a settlement sees.
Unsettled(start, cutoff) ==
    {c \in Calls : usage[c].state = "saved" /\ usage[c].stamp > start /\ usage[c].stamp <= cutoff}

\* settle_voice_usage, for one wallet.
CallsSettled(b, cutoff) ==
    IF b.through >= cutoff THEN b
    ELSE LET cost == Cost * Cardinality(Unsettled(b.through, cutoff))
             moved == [b EXCEPT !.through = cutoff]
         IN  IF cost > 0 THEN Post(moved, "calls", <<None, cutoff>>, -cost) ELSE moved

-----------------------------------------------------------------------------
(***************************************************************************)
(* The world                                                               *)
(***************************************************************************)

Tick ==
    /\ now < MaxNow
    /\ now' = now + 1
    /\ UNCHANGED <<usage, captured, payment, active, book, holder, work, tx, run, buying, faults>>

\* A call's usage row gets the time its transaction began, and is seen when it commits:
\* within SETTLE_LAG, as the code expects.
CallBegins(c) ==
    /\ usage[c].state = "none"
    /\ now + Lag <= MaxNow
    /\ usage' = [usage EXCEPT ![c] = [state |-> "open", stamp |-> now]]
    /\ UNCHANGED <<now, captured, payment, active, book, holder, work, tx, run, buying, faults>>

CallSaved(c) ==
    /\ usage[c].state = "open"
    /\ now < usage[c].stamp + Lag
    /\ usage' = [usage EXCEPT ![c].state = "saved"]
    /\ UNCHANGED <<now, captured, payment, active, book, holder, work, tx, run, buying, faults>>

\* PayU captures a payment while it is pending here: one given up is never paid later.
CustomerPays(p) ==
    /\ payment[p] = "pending" /\ p \notin captured
    /\ \A q \in Settlers : p \notin tx[q].failed
    /\ captured' = captured \union {p}
    /\ UNCHANGED <<now, usage, payment, active, book, holder, work, tx, run, buying, faults>>

Release(n) ==
    /\ n \in active
    /\ active' = active \ {n}
    /\ UNCHANGED <<now, usage, captured, payment, book, holder, work, tx, run, buying, faults>>

-----------------------------------------------------------------------------
(***************************************************************************)
(* Settling top-ups                                                        *)
(***************************************************************************)

Pending == {p \in Payments : payment[p] = "pending"}

\* Mutant: the sweep settles renewals only.
Mutant_SweptNone == {}

\* Mutant: rows that are no top-up's are settled as one.
Mutant_SweptOthers == Pending \union {None}

\* The payments renewal_sweep settles.
Swept == Pending

Begin(q, todo) ==
    /\ tx[q] = NoTx
    /\ todo # {}
    /\ tx' = [tx EXCEPT ![q].todo = todo]
    /\ UNCHANGED <<world, payment, book, holder, work, run, buying, faults>>

\* PayU calls, or the browser comes back; about one that is settled it would change nothing.
Request(q, p) == p \in Pending /\ Begin(q, {p})

RenewalSweep == Begin(Renewals, Swept)

Captured(p) == p \in captured

\* settle_payment locks the payment; one that is pending is verified.  What PayU says
\* failed, or has not heard the end of for days, is given up.
LockPayment(q, p) ==
    /\ p \in tx[q].todo /\ tx[q].at = None
    /\ \A r \in Settlers \ {q} : p \notin tx[r].held
    /\ \E giveUp \in BOOLEAN :
        LET open == payment[p] = "pending"
            t == [tx[q] EXCEPT !.todo = @ \ {p}, !.held = @ \union {p}]
        IN  tx' = [tx EXCEPT ![q] =
                    IF open /\ Captured(p) THEN [t EXCEPT !.at = p]
                    ELSE IF open /\ giveUp
                         THEN [t EXCEPT !.failed = @ \union {p}]
                    ELSE t]
    /\ UNCHANGED <<world, payment, book, holder, work, run, buying, faults>>

\* _apply_success, once the wallet's row is free.
PostTopUp(q) ==
    /\ tx[q].at # None
    /\ MayLock(q)
    /\ holder' = q
    /\ work' = Post(LockedBook(q), "topup", <<tx[q].at, 0>>, Credit)
    /\ tx' = [tx EXCEPT ![q].credited = @ \union {tx[q].at}, ![q].at = None]
    /\ UNCHANGED <<world, payment, book, run, buying, faults>>

\* The transaction of q ends: what it wrote to the wallet is kept, or not.
WalletKept(q) ==
    /\ holder' = IF Mine(q) THEN None ELSE holder
    /\ book' = IF Mine(q) THEN work ELSE book
    /\ work' = IF Mine(q) THEN NoBook ELSE work

WalletDropped(q) ==
    /\ holder' = IF Mine(q) THEN None ELSE holder
    /\ work' = IF Mine(q) THEN NoBook ELSE work
    /\ UNCHANGED book

CommitTx(q) ==
    /\ tx[q].held # {} /\ tx[q].todo = {} /\ tx[q].at = None
    /\ WalletKept(q)
    /\ payment' = [p \in Payments |-> IF p \in tx[q].credited THEN "success"
                                      ELSE IF p \in tx[q].failed THEN "failed"
                                      ELSE payment[p]]
    /\ tx' = [tx EXCEPT ![q] = NoTx]
    /\ UNCHANGED <<world, run, buying, faults>>

\* Each waits for a row the other has locked: a payment, and the wallet.
Deadlocked(q, r) ==
    /\ Mine(q) /\ tx[q].at = None /\ \E p \in tx[q].todo : p \in tx[r].held
    /\ tx[r].at # None

AbortTx(q) ==
    /\ tx[q] # NoTx
    /\ WalletDropped(q)
    /\ tx' = [tx EXCEPT ![q] = NoTx]
    /\ UNCHANGED <<world, payment, run, buying>>

FailTx(q) == AbortTx(q) /\ faults < MaxFaults /\ faults' = faults + 1

\* The database ends one of a deadlocked pair.
BreakDeadlock(q) ==
    /\ \E r \in Settlers : Deadlocked(q, r) \/ Deadlocked(r, q)
    /\ AbortTx(q)
    /\ UNCHANGED faults

-----------------------------------------------------------------------------
(***************************************************************************)
(* The wallet sweep                                                        *)
(***************************************************************************)

SweepBegins ==
    /\ run.phase = "idle"
    /\ run' = [NoRun EXCEPT !.phase = "calls", !.cutoff = now - Lag]
    /\ UNCHANGED <<world, payment, book, holder, work, tx, buying, faults>>

\* The calls of every wallet there is, then the numbers are read.
SettleCalls ==
    /\ run.phase = "calls"
    /\ run' = [NoRun EXCEPT !.phase = "rent", !.todo = active]
    /\ IF book.exists
       THEN /\ MayLock(Sweep)
            /\ holder' = Sweep
            /\ work' = CallsSettled(LockedBook(Sweep), run.cutoff)
       ELSE UNCHANGED <<holder, work>>
    /\ UNCHANGED <<world, payment, book, tx, buying, faults>>

\* rent_short_since after the turn of n.
ShortAfter(b, n) == ~Affordable(b, n)

\* collect_number_rent, for one number.  The query has no order.
CollectRent(n) ==
    /\ run.phase = "rent" /\ n \in run.todo
    /\ IF Mine(Sweep) \/ book.exists
       THEN /\ MayLock(Sweep)
            /\ holder' = Sweep
            /\ LET b == LockedBook(Sweep) IN
                /\ work' = [RentTaken(b, n) EXCEPT !.short = ShortAfter(b, n)]
       ELSE UNCHANGED <<holder, work>>
    /\ run' = [run EXCEPT !.todo = @ \ {n}]
    /\ UNCHANGED <<world, payment, book, tx, buying, faults>>

SweepCommits ==
    /\ run.phase = "rent" /\ run.todo = {}
    /\ WalletKept(Sweep)
    /\ run' = NoRun
    /\ UNCHANGED <<world, payment, tx, buying, faults>>

SweepFails ==
    /\ run.phase # "idle"
    /\ faults < MaxFaults
    /\ faults' = faults + 1
    /\ WalletDropped(Sweep)
    /\ run' = NoRun
    /\ UNCHANGED <<world, payment, tx, buying>>

-----------------------------------------------------------------------------
(***************************************************************************)
(* Buying a number                                                         *)
(***************************************************************************)

\* buy_number: the balance is looked at, then the number is bought from Plivo.
BuyBegins(n) ==
    /\ buying = None /\ n \notin active
    /\ book.exists /\ book.balance >= Rent
    /\ buying' = n
    /\ UNCHANGED <<world, payment, book, holder, work, tx, run, faults>>

\* Its rent is taken if the wallet still covers it; the number is connected either way.
BuyEnds ==
    /\ buying # None
    /\ holder = None
    /\ book' = RentTaken(LockedBook(Buyer), buying)
    /\ active' = active \union {buying}
    /\ buying' = None
    /\ UNCHANGED <<now, usage, captured, payment, holder, work, tx, run, faults>>

BuyFails ==
    /\ buying # None
    /\ faults < MaxFaults
    /\ faults' = faults + 1
    /\ buying' = None
    /\ UNCHANGED <<world, payment, book, holder, work, tx, run>>

-----------------------------------------------------------------------------
LockSome(q) == \E p \in Payments : LockPayment(q, p)
Advance(q) == LockSome(q) \/ PostTopUp(q) \/ CommitTx(q)

SweepStep ==
    \/ SweepBegins \/ SettleCalls \/ SweepCommits
    \/ \E n \in Numbers : CollectRent(n)

Next ==
    \/ Tick
    \/ \E c \in Calls : CallBegins(c) \/ CallSaved(c)
    \/ \E p \in Payments : CustomerPays(p)
    \/ \E q \in Requests, p \in Payments : Request(q, p)
    \/ RenewalSweep
    \/ \E q \in Settlers : Advance(q) \/ FailTx(q) \/ BreakDeadlock(q)
    \/ SweepStep \/ SweepFails
    \/ \E n \in Numbers : BuyBegins(n) \/ Release(n)
    \/ BuyEnds \/ BuyFails

Spec == Init /\ [][Next]_vars

\* The sweeps are scheduled every few minutes and what has begun goes on; who waits for a
\* row gets it before who comes later, and the database ends deadlocks.  Requests need not
\* come, and nothing is asked of the clock.
FairSpec ==
    /\ Spec
    /\ WF_vars(RenewalSweep) /\ WF_vars(SweepStep)
    /\ \A q \in Settlers :
        SF_vars(LockSome(q) \/ CommitTx(q)) /\ SF_vars(PostTopUp(q))
    /\ WF_vars(\E q \in Settlers : BreakDeadlock(q))

-----------------------------------------------------------------------------
(***************************************************************************)
(* Properties                                                              *)
(***************************************************************************)

AddsUp(b) ==
    /\ b.entries = <<>> => b.balance = 0
    /\ b.entries # <<>> => b.balance = b.entries[Len(b.entries)].after
    /\ \A i \in DOMAIN b.entries :
        b.entries[i].after = b.entries[i].amount + (IF i = 1 THEN 0 ELSE b.entries[i - 1].after)

\* "The balance only changes together with a WalletEntry": whoever posts, fails or rolls
\* back, the entries lead from nothing to the balance, each from the one before.
LedgerAddsUp == AddsUp(book)

OncePerRef(b) ==
    \A i, j \in DOMAIN b.entries :
        b.entries[i].kind = b.entries[j].kind /\ b.entries[i].ref = b.entries[j].ref => i = j

\* "running the same charge twice changes nothing the second time": whatever is retried or
\* delivered twice, each (kind, ref) is in the wallet once.
PostedOnce == OncePerRef(book)

RentCovered(b) ==
    \A i \in DOMAIN b.entries : b.entries[i].kind = "number_rent" => b.entries[i].after >= 0

\* Rent never takes the wallet below zero, though it is looked at before the number is
\* bought and calls are settled in between (charge_number_rent, buy_number).
RentNeverOverdraws == RentCovered(book)

\* A top-up is in the wallet exactly when its payment is a success, and only if PayU
\* captured it: settling by request, webhook and sweep at once, and undoing any of them.
TopUpsMatchPayments ==
    \A p \in Payments :
        /\ Seen(book, "topup", <<p, 0>>) <=> payment[p] = "success"
        /\ payment[p] = "success" => p \in captured

IsCharge(entry) == entry.kind = "calls"

\* The usage a charge of calls is for: up to its own time, past the charges before it.
ChargedBy(b, i) ==
    {c \in Calls :
        /\ usage[c].state = "saved"
        /\ b.since < usage[c].stamp /\ usage[c].stamp <= b.entries[i].ref[2]
        /\ \A j \in 1 .. i - 1 : IsCharge(b.entries[j]) => b.entries[j].ref[2] < usage[c].stamp}

ChargedOnce(b) ==
    /\ \A i \in DOMAIN b.entries : IsCharge(b.entries[i]) =>
        /\ b.entries[i].amount = -(Cost * Cardinality(ChargedBy(b, i)))
        /\ b.entries[i].ref[2] <= b.through
    /\ \A c \in Calls :
        usage[c].state = "saved" /\ b.since < usage[c].stamp /\ usage[c].stamp <= b.through
        => \E i \in DOMAIN b.entries : IsCharge(b.entries[i]) /\ c \in ChargedBy(b, i)

\* Every usage row up to the watermark is in one charge and none beyond it is in any, though
\* rows are seen later than the time they carry (SETTLE_LAG); and a charge costs what it is
\* for.
UsageChargedOnce == ChargedOnce(book)

Paid == {p \in Payments : payment[p] = "success"}

Ledger == INSTANCE WalletLedger
          WITH Entries <- Entry, paid <- Paid, entries <- book.entries, balance <- book.balance

\* Whoever credits and charges at once, and whatever is rolled back or tried again, the
\* committed wallet is a ledger (WalletLedger): nothing is taken out of it or changed, each
\* (kind, ref) is posted once, each entry leads from the one before, rent is covered, and a
\* captured payment becomes a success together with its one top-up (post, _apply_success).
ImplementsLedger == Ledger!LedgerSpec

\* Every payment PayU captured is credited in the end, when no request ever comes about it and
\* when the sweep loses a deadlock (renewal_sweep).
CaptureIsCredited ==
    captured \intersect Pending # {} ~> \A p \in captured : payment[p] = "success"

=============================================================================
