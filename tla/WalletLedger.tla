---------------------------- MODULE WalletLedger ----------------------------
(***************************************************************************)
(* What the wallet promises the business, with no transactions, locks,     *)
(* clock or processes: a ledger to which entries are only ever added.      *)
(* Each is posted once, leads from the one before to the next balance,     *)
(* has the sign of its kind, and is no rent that is not covered; and a     *)
(* payment is a success from the moment its top-up is in the ledger, which *)
(* is never before PayU has captured it.  Wallet implements it.            *)
(***************************************************************************)
EXTENDS Integers, Sequences

CONSTANTS Payments, Entries

VARIABLES
    captured,   \* payments PayU has captured
    paid,       \* payments that are a success
    entries,    \* what was posted
    balance

ledgerVars == <<captured, paid, entries, balance>>

LedgerInit == captured = {} /\ paid = {} /\ entries = <<>> /\ balance = 0

\* es begins with the entries of ds.
Continues(ds, es) ==
    Len(ds) <= Len(es) /\ \A i \in DOMAIN ds : es[i] = ds[i]

Signed(e) == IF e.kind = "topup" THEN e.amount > 0 ELSE e.amount < 0

\* The i-th entry may stand after those before it.
Stands(es, i) ==
    /\ \A j \in 1 .. i - 1 : es[j].kind # es[i].kind \/ es[j].ref # es[i].ref
    /\ es[i].after = es[i].amount + (IF i = 1 THEN 0 ELSE es[i - 1].after)
    /\ es[i].kind = "number_rent" => es[i].after >= 0
    /\ Signed(es[i])

\* The payments with a top-up in the ledger.
ToppedUp(es) ==
    {p \in Payments : \E i \in DOMAIN es : es[i].kind = "topup" /\ es[i].ref = <<p, 0>>}

Capture(p) ==
    /\ p \notin captured
    /\ captured' = captured \union {p}
    /\ UNCHANGED <<paid, entries, balance>>

\* One or more entries are posted together.
Commit ==
    /\ entries' \in Seq(Entries)
    /\ Continues(entries, entries') /\ Len(entries) < Len(entries')
    /\ \A i \in Len(entries) + 1 .. Len(entries') : Stands(entries', i)
    /\ balance' = entries'[Len(entries')].after
    /\ paid' = ToppedUp(entries') /\ paid' \subseteq captured
    /\ UNCHANGED captured

LedgerNext == Commit \/ \E p \in Payments : Capture(p)

LedgerSpec == LedgerInit /\ [][LedgerNext]_ledgerVars
=============================================================================
