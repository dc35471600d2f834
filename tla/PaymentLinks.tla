---------------------------- MODULE PaymentLinks ----------------------------
(***************************************************************************)
(* Payment links and the dues they collect: sending a link, the sweep and  *)
(* the button that ask the gateway whether it was paid, receipts recorded  *)
(* by hand or from a WhatsApp payment, and closing a due by hand           *)
(* (shared/payments/links.py, shared/care/commitment_payments.py,          *)
(* services/api/routers/{payments,ledger,webhooks}.py).                    *)
(*                                                                         *)
(* A transaction works on copies of the rows it has loaded and, when it    *)
(* commits, writes the columns it changed and no others, by primary key.   *)
(* What it flushes it holds locked until then.  Nothing here reads a row   *)
(* FOR UPDATE.                                                             *)
(*                                                                         *)
(* paid is the gateway's own account of each link; cash is the money       *)
(* recorded from elsewhere.  Amounts are small units, not paise.           *)
(***************************************************************************)
EXTENDS Naturals, FiniteSets, FiniteSetsExt

CONSTANTS
    Links, Dues,
    DueOf,          \* the due each link collects; each due is another business's
    Owed,           \* Commitment.amount_paise, per due
    Advance,        \* the part a link may collect first; 0 for none
    Sync,           \* the scheduler's sweep (max_instances = 1)
    Desk,           \* requests of people, and webhooks
    None,
    Batch,          \* SYNC_BATCH: how many links one sweep takes
    MaxRequests,    \* bound: transactions of the desk
    MaxFailures     \* bound: failed gateway calls and rolled-back transactions

ASSUME PaymentLinksAssumption ==
    /\ DueOf \in [Links -> Dues]
    /\ Owed \in [Dues -> Nat \ {0}]
    /\ Advance \in Nat
    /\ Sync \notin Desk /\ None \notin Desk \union {Sync}
    /\ Batch \in Nat \ {0} /\ MaxRequests \in Nat /\ MaxFailures \in Nat

VARIABLES
    links,      \* the rows: status ("none": no such row) and recorded_paise
    dues,       \* the rows: status and amount_received_paise
    rota,       \* the order of the links that exist, least recently checked first
    connected,  \* the dues whose business has its gateway connected
    price,      \* the gateway: what each link asks, 0 when it was never made,
    paid,       \*   what was paid on it,
    dead,       \*   and the links that expired there
    cash,       \* money recorded from elsewhere, per due
    tx,         \* each process's transaction
    linkLock, dueLock,
    requests, failures

gateway == <<price, paid, dead>>
locks == <<linkLock, dueLock>>
linkVars == <<links, dues, rota, connected, gateway, cash, tx, locks, requests, failures>>

Procs == Desk \union {Sync}
OpenStatuses == {"created", "partially_paid"}
Statuses == OpenStatuses \union {"paid", "expired"}
NoLink == [status |-> "none", recorded |-> 0]
NewDue == [status |-> "open", received |-> 0]

\* No transaction.  had and knew are the rows as loaded, now and dues as changed.
\* on is the due a request is about and takes the cash it brings, todo the links it still
\* asks about, in order.
NoTx == [at |-> "idle", on |-> None, takes |-> 0, todo |-> {},
         answer |-> [status |-> "none", paid |-> 0],
         had |-> [l \in Links |-> NoLink], now |-> [l \in Links |-> NoLink],
         knew |-> [d \in Dues |-> NewDue], dues |-> [d \in Dues |-> NewDue]]

\* An order of links is the set of its pairs: <<k, l>> when k comes before l, or is l.
In(order) == {l \in Links : <<l, l>> \in order}
IsFirst(l, order) == \A k \in In(order) \union {l} : <<l, k>> \in order
Without(l, order) == {x \in order : l \notin {x[1], x[2]}}

LinkRow == [status : Statuses \union {"none"}, recorded : Nat]
DueRow == [status : {"open", "met", "closed"}, received : Nat]

\* The types of the variables.
LinkTypeOK ==
    /\ links \in [Links -> LinkRow]
    /\ dues \in [Dues -> DueRow]
    /\ rota \subseteq Links \X Links /\ \A x \in rota : <<x[2], x[1]>> \in rota => x[1] = x[2]
    /\ connected \subseteq Dues
    /\ price \in [Links -> Nat] /\ paid \in [Links -> Nat] /\ dead \subseteq Links
    /\ cash \in [Dues -> Nat]
    /\ tx \in [Procs -> [
            at : {"idle", "send", "ask", "apply", "commit"},
            on : Dues \union {None}, takes : Nat, todo : SUBSET (Links \X Links),
            answer : [status : Statuses \union {"none", "error"}, paid : Nat],
            had : [Links -> LinkRow], now : [Links -> LinkRow],
            knew : [Dues -> DueRow], dues : [Dues -> DueRow]]]
    /\ linkLock \in [Links -> Procs \union {None}]
    /\ dueLock \in [Dues -> Procs \union {None}]
    /\ requests \in 0 .. MaxRequests
    /\ failures \in 0 .. MaxFailures

LinkInit ==
    /\ links = [l \in Links |-> NoLink]
    /\ dues = [d \in Dues |-> NewDue]
    /\ rota = {}
    /\ connected = Dues
    /\ price = [l \in Links |-> 0]
    /\ paid = [l \in Links |-> 0]
    /\ dead = {}
    /\ cash = [d \in Dues |-> 0]
    /\ tx = [p \in Procs |-> NoTx]
    /\ linkLock = [l \in Links |-> None]
    /\ dueLock = [d \in Dues |-> None]
    /\ requests = 0
    /\ failures = 0

-----------------------------------------------------------------------------
(***************************************************************************)
(* The gateway and the customer                                            *)
(***************************************************************************)

\* The customer pays all the link asks: create_link does not allow part payments.
Pay(l) ==
    /\ l \notin dead
    /\ price[l] > paid[l]
    /\ paid' = [paid EXCEPT ![l] = price[l]]
    /\ UNCHANGED <<links, dues, rota, connected, price, dead, cash, tx, locks, requests, failures>>

\* LINK_LIFETIME is over.
LinkExpires(l) ==
    /\ price[l] > paid[l]
    /\ l \notin dead
    /\ dead' = dead \union {l}
    /\ UNCHANGED <<links, dues, rota, connected, price, paid, cash, tx, locks, requests, failures>>

\* What fetch_link returns.
FetchLink(l) ==
    [paid |-> paid[l],
     status |-> IF paid[l] = price[l] THEN "paid"
                ELSE IF l \in dead THEN "expired" ELSE "created"]

\* The owner connects or disconnects the gateway: the row is added or deleted.
Connect(d) ==
    /\ connected' = IF d \in connected THEN connected \ {d} ELSE connected \union {d}
    /\ UNCHANGED <<links, dues, rota, gateway, cash, tx, locks, requests, failures>>

-----------------------------------------------------------------------------
(***************************************************************************)
(* Transactions                                                            *)
(***************************************************************************)

At(p, place) == tx[p].at = place

BeginTx(p, t) ==
    /\ At(p, "idle")
    /\ p \in Desk => requests < MaxRequests
    /\ requests' = IF p \in Desk THEN requests + 1 ELSE requests
    /\ tx' = [tx EXCEPT ![p] = t]

\* A column is written when its value is not the one that was loaded.
Written(current, loaded, changed) ==
    [c \in DOMAIN current |-> IF changed[c] # loaded[c] THEN changed[c] ELSE current[c]]

Free(lock, p) == lock \in {None, p}

\* A request that has loaded due d, and nothing else yet.
Loaded(d) == [NoTx EXCEPT !.on = d, !.knew[d] = dues[d], !.dues[d] = dues[d]]

Outstanding(d, due) == IF Owed[d] > due.received THEN Owed[d] - due.received ELSE 0

\* record_payment on an open due.
RecordPayment(d, due, n) ==
    LET received == due.received + n
    IN  [received |-> received, status |-> IF received >= Owed[d] THEN "met" ELSE "open"]

\* send_link up to its gateway call: the due is open and not paid up, and the gateway
\* is connected.  send_fee_link also wants no open link; send_for_commitment does not.
Send(p, l) ==
    /\ LET d == DueOf[l] IN
        /\ dues[d].status = "open"
        /\ Outstanding(d, dues[d]) > 0
        /\ d \in connected
        /\ BeginTx(p, [Loaded(d) EXCEPT !.at = "send", !.todo = {<<l, l>>}])
    /\ price[l] = 0
    /\ \A q \in Procs : At(q, "send") => l \notin In(tx[q].todo)
    /\ UNCHANGED <<links, dues, rota, connected, gateway, cash, locks, failures>>

\* What a link may ask for of what is owed: all of it, or the advance when that is less.
Asks(owed) == {owed} \union ({Advance} \intersect 1 .. owed)

\* The gateway makes the link; the row is flushed and the message sent before the
\* commit.
CreateLink(p) ==
    /\ At(p, "send")
    /\ \E l \in In(tx[p].todo) :
       /\ \E asked \in Asks(Outstanding(DueOf[l], tx[p].knew[DueOf[l]])) :
            price' = [price EXCEPT ![l] = asked]
       /\ tx' = [tx EXCEPT ![p].at = "commit", ![p].todo = {}, ![p].now[l].status = "created"]
    /\ UNCHANGED <<links, dues, rota, connected, paid, dead, cash, locks, requests, failures>>

\* check_link: the link and its due are loaded before the gateway is asked.
Check(p, l) ==
    /\ links[l].status # "none"
    /\ DueOf[l] \in connected
    /\ BeginTx(p, [Loaded(DueOf[l]) EXCEPT !.at = "ask", !.todo = {<<l, l>>},
                                           !.had[l] = links[l], !.now[l] = links[l]])
    /\ UNCHANGED <<links, dues, rota, connected, gateway, cash, locks, failures>>

\* The open links, least recently checked first.
Unpaid == {x \in rota : \A i \in 1 .. 2 : links[x[i]].status \in OpenStatuses}

\* The first n of an order: those that at most n come before or are.
Firsts(n, order) == {x \in order : Cardinality({y \in order : y[2] = x[2]}) <= n}

\* sync_open_links loads the first SYNC_BATCH of them at once.
Sweep ==
    /\ Unpaid # {}
    /\ LET batch == Firsts(Batch, Unpaid)
           rows == [l \in Links |-> IF l \in In(batch) THEN links[l] ELSE NoLink]
       IN  BeginTx(Sync, [NoTx EXCEPT !.at = "ask", !.todo = batch, !.had = rows, !.now = rows])
    /\ UNCHANGED <<links, dues, rota, connected, gateway, cash, locks, failures>>

Turn(todo) == IF todo # {} THEN "ask" ELSE "commit"

\* The sweep passes over a link whose business has no gateway.
PassOver ==
    /\ At(Sync, "ask")
    /\ \E l \in In(tx[Sync].todo) :
        LET rest == Without(l, tx[Sync].todo) IN
        /\ IsFirst(l, tx[Sync].todo)
        /\ DueOf[l] \notin connected
        /\ tx' = [tx EXCEPT ![Sync].at = Turn(rest), ![Sync].todo = rest]
    /\ UNCHANGED <<links, dues, rota, connected, gateway, cash, locks, requests, failures>>

\* refresh_link: the gateway answers (or fails), then db.get returns the due: the copy
\* a check has held since it began, or one this sweep changed and still holds locked,
\* else the row as committed now.
Ask(p) ==
    /\ At(p, "ask")
    /\ \E l \in In(tx[p].todo) :
       LET d == DueOf[l]
           seen == p # Sync \/ dueLock[d] = p
           answered(a) ==
              tx' = [tx EXCEPT ![p].at = "apply", ![p].answer = a,
                               ![p].knew[d] = IF seen THEN @ ELSE dues[d],
                               ![p].dues[d] = IF seen THEN @ ELSE dues[d]]
       IN  /\ IsFirst(l, tx[p].todo)
           /\ p = Sync => d \in connected
           /\ \/ answered(FetchLink(l)) /\ UNCHANGED failures
              \/ /\ failures < MaxFailures
                 /\ failures' = failures + 1
                 /\ answered([status |-> "error", paid |-> 0])
    /\ UNCHANGED <<links, dues, rota, connected, gateway, cash, locks, requests>>

\* The money the gateway reports beyond what was recorded; none when it failed.
NewMoney(row, answer) ==
    IF answer.paid > row.recorded THEN answer.paid - row.recorded ELSE 0

\* Mutant: recorded_paise is never brought up to date.
Mutant_RecordedAfterNever(row, answer) == row.recorded

RecordedAfter(row, answer) ==
    IF NewMoney(row, answer) > 0 THEN answer.paid ELSE row.recorded

\* apply_status, and the flush of what it changed: that waits for the rows' locks.
\* Money for a due that is closed is noted on the link and not added.
Apply(p) ==
    /\ At(p, "apply")
    /\ \E l \in In(tx[p].todo) :
       LET d == DueOf[l]
           rest == Without(l, tx[p].todo)
           answer == tx[p].answer
           row == tx[p].now[l]
           due == tx[p].dues[d]
           new == NewMoney(row, answer)
           counts == new > 0 /\ due.status = "open"
       IN  /\ IsFirst(l, tx[p].todo)
           /\ Free(linkLock[l], p)
           /\ linkLock' = [linkLock EXCEPT ![l] = p]
           /\ counts => Free(dueLock[d], p)
           /\ dueLock' = [dueLock EXCEPT ![d] = IF counts THEN p ELSE @]
           /\ tx' = [tx EXCEPT
                ![p].at = Turn(rest),
                ![p].todo = rest,
                ![p].answer = NoTx.answer,
                ![p].now[l] =
                    [status |-> IF answer.status = "error" THEN row.status ELSE answer.status,
                     recorded |-> RecordedAfter(row, answer)],
                ![p].dues[d] = IF counts THEN RecordPayment(d, due, new) ELSE due]
    /\ UNCHANGED <<links, dues, rota, connected, gateway, cash, requests, failures>>

\* record_commitment_payment: a person records n received by hand.
Receipt(p, d, n) ==
    /\ dues[d].status = "open"
    /\ BeginTx(p, [Loaded(d) EXCEPT !.at = "commit", !.takes = n,
                                    !.dues[d] = RecordPayment(d, dues[d], n)])
    /\ UNCHANGED <<links, dues, rota, connected, gateway, cash, locks, failures>>

\* _verify_and_close_payment: a captured WhatsApp payment is a receipt of all that is
\* still owed.
PaidInChat(p, d) ==
    /\ Outstanding(d, dues[d]) > 0
    /\ Receipt(p, d, Outstanding(d, dues[d]))

\* resolve_commitment: a person closes the due as met, or as missed or cancelled.
Resolve(p, d, outcome) ==
    /\ BeginTx(p, [Loaded(d) EXCEPT !.at = "commit", !.dues[d].status = outcome])
    /\ UNCHANGED <<links, dues, rota, connected, gateway, cash, locks, failures>>

Unlock(lock, p) == [r \in DOMAIN lock |-> IF lock[r] = p THEN None ELSE lock[r]]

End(p) ==
    /\ tx' = [tx EXCEPT ![p] = NoTx]
    /\ linkLock' = Unlock(linkLock, p)
    /\ dueLock' = Unlock(dueLock, p)

\* Mutant: a checked link is put last and left where it was as well.
Mutant_RotaAfterTwice(p, born) ==
    LET checked == {l \in Links : linkLock[l] = p}
    IN  rota \union (born \X (born \union In(rota))) \union ((In(rota) \ checked) \X checked)

\* Mutant: a checked link keeps its place.
Mutant_RotaAfterInPlace(p, born) == rota \union (born \X (born \union In(rota)))

\* A link that was checked (last_checked_at) comes last; a new one never was, and
\* comes first.
RotaAfter(p, born) ==
    LET old == In(rota) \ born
        checked == {l \in old : linkLock[l] = p}
        among(S) == {x \in rota : x[1] \in S /\ x[2] \in S}
    IN  (born \X (born \union old)) \union ((old \ checked) \X checked)
            \union among(old \ checked) \union among(checked)

CommitTx(p) ==
    /\ At(p, "commit")
    /\ LET t == tx[p]
           touched == {d \in Dues : t.dues[d] # t.knew[d]}
           born == {l \in Links : t.had[l].status = "none" /\ t.now[l].status # "none"}
       IN  /\ \A d \in touched : Free(dueLock[d], p)
           /\ links' = [l \in Links |-> Written(links[l], t.had[l], t.now[l])]
           /\ dues' = [d \in Dues |-> Written(dues[d], t.knew[d], t.dues[d])]
           /\ rota' = RotaAfter(p, born)
           /\ cash' = [d \in Dues |-> IF d = t.on THEN cash[d] + t.takes ELSE cash[d]]
    /\ End(p)
    /\ UNCHANGED <<connected, gateway, requests, failures>>

\* The transaction is rolled back: an exception, a deadlock, the process dies.  What
\* the gateway made stays made.
Abort(p) ==
    /\ ~At(p, "idle")
    /\ failures < MaxFailures
    /\ failures' = failures + 1
    /\ End(p)
    /\ UNCHANGED <<links, dues, rota, connected, gateway, cash, requests>>

-----------------------------------------------------------------------------
\* What a transaction under way does next.
Goes(p) == Ask(p) \/ Apply(p) \/ CommitTx(p) \/ CreateLink(p)

LinkNext ==
    \/ \E l \in Links : Pay(l) \/ LinkExpires(l)
    \/ \E d \in Dues : Connect(d)
    \/ Sweep \/ PassOver
    \/ \E p \in Procs : Goes(p) \/ Abort(p)
    \/ \E p \in Desk :
        \/ \E l \in Links : Send(p, l) \/ Check(p, l)
        \/ \E d \in Dues :
            \/ PaidInChat(p, d)
            \/ \E n \in 1 .. Owed[d] : Receipt(p, d, n)
            \/ \E outcome \in {"met", "closed"} : Resolve(p, d, outcome)

LinkSpec == LinkInit /\ [][LinkNext]_linkVars

\* The sweep is scheduled every few minutes, and what has begun goes on.  A lock that
\* is released again and again is granted in the end.
FairLinkSpec ==
    /\ LinkSpec
    /\ WF_linkVars(Sweep) /\ WF_linkVars(PassOver)
    /\ \A p \in Procs : SF_linkVars(Goes(p))

-----------------------------------------------------------------------------
(***************************************************************************)
(* Properties                                                              *)
(***************************************************************************)

LinksFor(d) == {l \in Links : DueOf[l] = d}

\* A link the sweep will not look at again, because its row says paid, has had all of
\* its money recorded (OPEN_STATUSES; with a gateway that takes no part payments).
PaidLinkIsBooked ==
    \A l \in Links : links[l].status = "paid" => links[l].recorded = price[l]

LinkMoney(amount, d) == MapThenSumSet(LAMBDA l : amount[l], LinksFor(d))

\* "so a check that runs twice never records the same money twice": what a due has
\* received was paid through its links or came from elsewhere.
MoneyRecordedOnce == \A d \in Dues : dues[d].received <= cash[d] + LinkMoney(paid, d)

\* The sweep passed over every link of its batch, asked about none, and left them all at
\* the head of the order.
Fruitless == At(Sync, "commit") /\ \A l \in Links : linkLock[l] # Sync

\* Money paid on a link the business has on record is noticed, as long as its gateway
\* stays connected, unless again and again a sweep passes over all it took.  "Ask the
\* gateway about every open link" promises more: links of businesses without a gateway
\* keep their places at the head, and when they fill the batch no other link is asked
\* about.
PaymentIsNoticed ==
    \/ \A l \in Links : (links[l].status # "none" /\ paid[l] > links[l].recorded)
        ~> (links[l].recorded = paid[l] \/ DueOf[l] \notin connected)
    \/ []<>Fruitless

=============================================================================
