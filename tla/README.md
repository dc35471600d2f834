# KROVA: a TLA+ verification project

KROVA answers and places a business's messages and phone calls. It is a FastAPI
process (with an APScheduler inside it), a set of queue workers and a voice
service, all over one PostgreSQL database. This directory models the parts of it
whose correctness depends on the order in which those processes act: TLA+ modules,
TLC configurations that check them on small instances, and proofs checked by TLAPS.

A reader in a hurry: `JobQueue.tla` is the smallest module with a refinement and a
complete proof; `Renewals.tla` and its proofs are the hardest; the table under "What
the runs check" says what each run is for.

Source paths below are relative to the repository root.

## The system

### Processes

| process | code | how it acts on the database |
| --- | --- | --- |
| API | `services/api/main.py`, `services/api/routers/*` | one session per request; `get_db` commits when the handler returns and rolls back on any exception, `HTTPException` included |
| scheduler | `services/api/scheduler.py`, inside the API process | about 30 periodic sweeps; each opens one session, usually commits once at its end |
| workers | `services/workers/{respond,analyse,profile,call_campaign,webhook_delivery}.py` over `shared/db/worker_runner.py` | claim a job, commit, run the handler, commit |
| voice | `services/api/voice_proxy.py`, `shared/channels/voice/*` | call relay, wallet checks, post-call ingest |

PostgreSQL runs at READ COMMITTED; the ORM writes changed columns by primary key.
So a SELECT without `FOR UPDATE` followed by an UPDATE is two steps, between which
any other process may act. Row locks exist only in the queue claim, the wallet,
billing, approvals, team routing and auth; elsewhere a unique index inside a
savepoint, or nothing, guards a race. A transaction is a unit of failure: an
exception undoes everything it flushed, but not the messages, calls and links it
already sent through a provider.

### Components, their state, and what makes them correct

| component | state | operations | what must hold |
| --- | --- | --- | --- |
| Job queue (`shared/db/queue.py`, `worker_runner.py`) | `jobs` rows: status, attempts, run_after, locked_by, locked_at | enqueue, claim, complete, fail, reclaim_stalled | one worker per job, no job lost or revived, give up only after max_attempts, every job settles |
| Reply drafting and approval (`services/workers/respond.py`, `shared/channels/send_draft.py`, `routers/approvals.py`) | `message_drafts` rows, outbound messages, escalations | draft, supersede, approve, edit, reject, auto-send, expire | a customer message is answered at most once; a draft that was sent stays sent; nothing is sent that nobody allowed |
| Message ingest (`shared/channels/ingest.py`, `routers/webhooks.py`) | messages, conversations, channel cursors | store, deduplicate, route to a person, enqueue analysis and drafting | a message is stored and answered once, and only people take a chat from somebody |
| Appointments and deposits (`shared/scheduling/booking.py`, `deposits.py`, `availability.py`) | appointments, deposit commitments | book, reschedule, cancel, confirm on payment, release unpaid | a slot has at most one live appointment; a paid deposit is never released |
| OPD tokens (`shared/scheduling/queue_booking.py`, `routers/queue.py`, `shift.py`) | queue entries, shift sessions | issue, call, finish, skip, cancel, notify near turn | token numbers are unique and gapless per shift; at most one patient per doctor |
| Payment links (`shared/payments/links.py`, `routers/payments.py`) | links and what was recorded from each, commitments (dues) | send, check, sweep, webhook, record by hand | money received is recorded once |
| Wallet (`shared/billing/wallet.py`) | balance, transactions, call settlement watermark | post, settle voice usage, rent, alert | balance is the sum of the transactions; each call is charged once |
| Plans and invoices (`shared/billing/service.py`, `payu.py`, `message_meter.py`, `guards.py`) | subscriptions, payments, usage counters | pay, confirm, notify, debit, retry, pause, meter | a month is debited once, after notice, and at most four times; nobody stays on unpaid |
| Campaigns (`shared/campaigns/sequencer.py`, `routers/campaigns.py`, `routers/call_campaigns.py`, `services/workers/call_campaign.py`) | campaigns, recipients, steps, calls | send, pause at the day's limit, resume, follow up, dial | one message per recipient and step; the calendar day's limit is kept; everyone reached is followed up |
| Team routing (`shared/team/*`) | claims, requests, presence, on-call | route, take over, hand back, conflict, escalate | one owner per conversation; every request reaches somebody |
| Automations (`shared/care/post_call_actions.py`, `date_triggers.py`) | rules, waiting steps, markers, log | start, wait, hold, resume, stop | a step runs once; a customer who answered is not chased; nobody is enrolled again too soon |
| Escalations (`shared/care/escalation_failsafe.py`, `escalations` router) | escalations | raise, acknowledge, escalate further, resolve | an unacknowledged emergency is always escalated |
| Reminders, feedback, recall (`services/api/scheduler.py`, `shared/care/feedback.py`, `shared/scheduling/recall.py`) | sent-at marks | sweep, send, mark | each reminder goes out, and once |
| Outbound webhooks (`shared/integrations/webhooks.py`, `services/workers/webhook_delivery.py`) | webhooks, failure counts | dispatch, deliver, disable | at-least-once delivery, disabled after repeated failure |
| Voice relay and pipeline (`shared/channels/voice/*`) | call session, audio queues | answer, listen, speak, interrupt, hang up | a call ends, is charged, and is ingested once |
| Identity and leads (`shared/identity/resolver.py`, `shared/leads/intake.py`) | customers, identifiers, leads | resolve, merge, intake | one customer per identifier |
| Auth (`shared/auth/*`) | users, refresh tokens, OTPs | login, refresh, revoke, verify | a token or code works once and not after it was revoked |
| Catalogue and orders (`shared/catalogue/*`, `routers/orders.py`) | products, orders | order in chat, pay, ship, cancel | stock and order states agree |
| Knowledge, prompts, verticals, analytics, reports, help, templates, admin | settings, text, read-only views | edit, read | out of scope: data and presentation |

How they meet: ingest enqueues ANALYSE and DRAFT jobs in the transaction that
stores the message; the respond worker drafts, books, sends and escalates; the
scheduler sweeps links, deposits, drafts, reminders and the wallet; a payment
recorded by any of them confirms an appointment through `resolve_deposit_paid`;
every part calls `webhooks.dispatch_event`, which enqueues deliveries.

### What is hard here

Interleavings of a sweep with a request or a webhook over the same rows; a
provider call in the middle of a transaction that may still roll back; retries of
jobs whose first attempt already had effects; batches with a single commit; marks
(sent, recorded, settled) that are read before a slow call and written after it;
time-outs (stalled jobs, unpaid deposits, the 24-hour service window) that race the
event they wait for. `PROJECT.json` lists each at its line.

## What is modelled

A row of the database is a record; a transaction is a record in `tx` (or `worker`,
`hand`, `hook`, `request`, `sweep`, `run`) holding what it has loaded and what it will
write. One action is one piece of code between two points where another process can
act: a network call, a wait for a row lock, a commit. Text, prompts, names and amounts
are reduced to what the properties tell apart. A variable with "history" in its comment
records what reached the customer or the provider, which no row knows.

### JobQueue, JobContract (`shared/db/queue.py`, `shared/db/worker_runner.py`)

`status`, `attempts`, `lockedBy`, `wait` and `age` are the columns of `jobs` (times
relative to now); `hand`, `seen` and `mode` are a worker process: its job, the
attempts in its loaded copy, and whether it runs. `Claim` is one turn of the loop
(`reclaim_stalled`, `claim`, commit); `Complete` and `Fail` write by primary key
from the loaded copy; `Raise` is an exception past `fail()`; `Crash`, `Stop`, `Exit`
and `Restart` are the container's; `Tick` is a minute. `JobContract` is what callers
rely on, without clock, locks or processes; `Contract` in JobQueue is the refinement
mapping (state, hand, attempts).

### ReplyDrafts (`respond.py`, `approvals.py`, `send_draft.py`, the expiry sweep)

One customer's conversation. A worker goes through `Claim`, `Begin` (the guards and
the unlocked SELECT of pending drafts), `Supersede` (the flush, which waits for row
locks), `Think` (the AI), `Send`, `Tail`, and `Commit` or `Fail`; a person through
`Approve`, `ApproveSend`, `ApproveCommit` or `Reject`. `delivered` counts what really
reached the customer: a provider's answer may be lost after it took the text. The
business's autonomy is any of the modes that draft, chosen at each `Begin`.

### PaymentLinks (`shared/payments/links.py`, `commitment_payments.py`, routers)

`links` and `dues` are rows, `price`, `paid`, `dead` the gateway's account of them,
`rota` the order of `last_checked_at` (the set of its pairs). A link asks for all that is
owed or for the advance (`Asks`). A sweep takes the first `Batch` open links of `rota`;
those of a business that has disconnected its gateway it passes over (`PassOver`), and
they keep their places. `Ask` and `Apply` are the
two halves of `refresh_link` around the gateway's answer. A commit writes the columns
that differ from what was loaded (`Written`), which is how the ORM loses updates and how
it does not.

### Bookings, SlotCalendar (`shared/scheduling/{booking,deposits}.py`, routers)

`row` is the appointment, `deposit` its commitment. `Book`, `Cancel`, `Reschedule`,
`SetStatus` and `Hear` load; `Commit` writes what each decided, and the partial unique
index on (doctor_id, starts_at) may refuse; `Abort` is a rollback. WhatsApp's webhooks
are answered first and never delivered again. `SweepRead` and `SweepWrite` are
`release_unpaid_deposits`. `SlotCalendar` is what the doctor and the customers may rely
on, without transactions, stale reads or a deadline: slots that are open, held or firm;
`Calendar` in Bookings maps the rows to it (`Place` the slot of a live row, `Firm` the
confirmed, `Owing`, `Payers`, `Released`).

### Wallet, WalletLedger (`shared/billing/wallet.py`, part of `service.py`, buying a number)

`book` is the committed wallet with its entries, `work` the uncommitted copy of
`holder`, the transaction that has the row locked. `LockPayment`, `PostTopUp` and
`CommitTx` are `settle_payment` for browser return, webhook and billing sweep, which
keeps every row it touched locked to its end; `BreakDeadlock` is the database ending a
cycle of two. `SettleCalls`, `CollectRent` and `SweepCommits` are the wallet sweep;
`BuyBegins` and `BuyEnds` a purchase. `WalletLedger` is the ledger the business sees,
without locks, copies or processes: what PayU captured, what is a success, the entries
and the balance; `Ledger` in Wallet maps the committed wallet to it.

### Renewals (`shared/billing/service.py`, `routers/billing.py`)

One business's subscription from its first payment on. `sub` and `payment` are the
committed rows, `payu` what PayU knows of each payment, `told` the last notice it was
given. The sweep is one transaction over minutes: `sweep.mine` is the copy of the row it
loaded at its start and never reads again, since `db.get(..., with_for_update=True)`
keeps the attributes that are loaded; `sweep.dirty` are the columns it changed, which
are all that its commit writes. `HookBegins` and `HookApplies` are the browser's return
and PayU's webhook, which load the row as they lock it; `Subscribe` is a checkout,
`SetStop` cancelling and resuming. A rollback undoes the rows, not the debits.
`Lead`, `Gap`, `Window`, `Silence` and `Patience` are the code's constants of those
names (`PRE_DEBIT_LEAD`, `RETRY_GAP`, `RETRY_WINDOW`, `RENEWAL_NOT_FOUND_EXPIRY`,
`PENDING_EXPIRY`), in units of the run's clock.

### Intake (`shared/channels/ingest.py`, `routers/webhooks.py`, `identity/resolver.py`, `team/*`)

A delivery is accepted (200) and stored by a background task in one transaction. For
each message it asks whether it is stored, finds or makes the customer, inserts,
routes and enqueues two jobs. An insert that meets an uncommitted row with the same
key waits for its owner; when that one commits, the whole session is rolled back and
goes on (`tx[d].cut` remembers where), except that WhatsApp's task, after a lost race for an
identity, reads an expired row for its log line and raises (`Trips`). `turn` is the order of `last_routed_at`, the set of
its pairs. `LoadJob` and `Hand` are the drafting worker
handing a chat to a person after its model call, `Touch` what people do to chats.

### Automations (`shared/care/post_call_actions.py`)

Rules with chains of steps for one customer. `Start` and `EventStep` run a chain inside
the transaction of the event that fired it; `row` is the step waiting, `marker` the last
time the customer was enrolled; `SweepStep` is `run_due_steps`, one transaction over
all due rows. A step with `stop_if` asks first whether the customer wrote, and then comes
to a gate (`AfterWait`, `SweepPasses`): between the two a reply may be committed. Quiet hours and the daily cap hold a step back, `stop_if` ends a chain,
`Delete` removes a rule with its rows under the sweep's feet. `kept` is what the log
holds, so a step whose transaction was lost is performed again and counts once.

### Sweeps (`services/api/scheduler.py` and the functions it polls)

Fifteen polling jobs have one shape: read what is due without locks, send, set a marker,
commit once at the end. The module is that shape; a job is a record of the points in
which they differ (`kind`: when the marker is set, the width of the window, the period,
whether an exception is caught per row, a LIMIT, a second look at the row). `Take` is
one row of a run, `Raise` and `Crash` lose a run's markers, `Skip` and `Miss` are runs
that did not happen, since the one before was still going on or the event loop was too
busy (one that starts late counts as missed). `AllKinds` lists all fifteen; the run
takes six that cover every value of every field.

### Campaigns, CampaignSequence (`routers/campaigns.py`, `shared/campaigns/sequencer.py`)

One WhatsApp campaign. `SendBegins`, `SendReads`, `SendOne` and `SendCommits` are the
owner's `send_campaign`, which looks at the status without a lock, waits behind another
request at the flush of "sending" and only then reads who was reached; `SweepBegins` to
`SweepCommits` are `send_due_steps`, which follows up those the step before reached.
Both read what is left of the day's limit and count down from there; `known` is who was
messaged since midnight (UTC), as the code counts, `before` who was the day before. `SendFails`,
`SweepFails` and `SweepStumbles` lose what was not committed, not what was sent.
`CampaignSequence` is what the people it is sent to may rely on, without clicks, limit,
days or a sweep: one message after the other, none repeated but after a loss. `Sequence`
in Campaigns maps the rows and what was received to it, a fault to a loss.

## What the runs check

| run | what it shows | bounds, and why they are enough |
| --- | --- | --- |
| `job_queue` | every job settles, and JobQueue implements JobContract: one worker per job, a held row is the holder's, no early failure, settled stays settled | two workers and jobs: a claim competes with a claim and a reclaim; two attempts: a retry and a last one; two faults: a crash and a fault of the second holder |
| `reply_drafts` | a message gets one reply, one handed-over answer and one fixed line, two more for each lost answer or commit; every message's job ends | two messages, so that the second supersedes the first's draft; two people; two drafts: a retry or a second message; one fault |
| `payment_links` | a paid link is booked; payments are noticed, unless sweep after sweep takes only links it passes over | two links of two businesses and one link per sweep, so that a link waits its turn behind one of a business that may disconnect; a due of one unit and one of two, of which a link may ask an advance; three requests, one failure |
| `payment_links_twice` | **violated**: the same money is recorded twice | two advance links for one due of two units; no failure needed |
| `bookings` | bookings implement SlotCalendar: one live appointment per slot, passed on only through being open, firm only for money when a deposit was asked, not released when paid in time; and every hold ends | two appointments over two slots: a conflict and a move; two requests and two payments (deposit and fee); one failure |
| `bookings_released` | **violated**: a slot is released as unpaid though the Ledger shows its deposit paid | one appointment |
| `wallet` | the wallet implements WalletLedger: nothing is taken out, each reference is posted once, rent is covered, a captured payment becomes a success together with its top-up; every call is charged once, every captured top-up is credited | two top-ups so that two settlers can deadlock; one call and one rent that a top-up does not both cover; time for two settlements; one failure |
| `renewals` | at most `MaxAttempts` debits a month, one in flight and one more for each run lost, each announced, and no plan lives on unpaid | two attempts, so that there is a retry and a last one; two checkouts: a plan changed or paid anew under a debit; three debits: both attempts and one more for a lost run; every period one unit, so that each can end before or after any other step |
| `intake` | what a committed delivery still holds is stored, only people move a chat, every delivery ends | two deliveries naming two customers in opposite orders, or repeating a message; two people to route to; one fault |
| `automations` | steps are performed once, no step marked `stop_if` comes to its gate after a reply, reentry_days is kept between starts that did not overlap, every wait ends | two events for one rule or for two; chains of two steps with waits and stops; a day of three ticks with one quiet; one reply, one fault |
| `sweeps` | a message is repeated only after a loss, a window wide enough for the runs missed is not closed unread, every row is reached | two rows, a LIMIT of one, six jobs, time for two runs of the longest period inside a window, one fault |
| `campaigns` | the campaign implements CampaignSequence: each person goes through the messages once, what is recorded as sent was received, what is decided stays decided, a message is repeated only after a loss; one sender keeps the limit of a calendar day, everyone reached is followed up | two people under a limit of one a day, so that the campaign pauses; two requests at once; two steps, one skipped for an answer and one that ends there; one fault |

No run uses symmetry. `CHECK_DEADLOCK FALSE` stands wherever the bounds end a behaviour:
the customer's messages, the clock or the requests run out and nothing is left to do.
Every property of a passing run is broken by a mutant of the code it is about
(`PROJECT.json`, "mutants"): a dropped guard, a lock not taken, two lines swapped.

### Fairness

- JobQueue: weak, for the worker loop, the ends of handlers (every network call has a
  timeout), the container's restart policy, the API's reclaim job and the clock.
- ReplyDrafts, PaymentLinks, Wallet: weak for scheduled sweeps, and strong where a
  transaction waits for a row lock. PostgreSQL serves waiters in order, so one that is
  waiting gets its lock before one that comes later; a model without queues says that
  as strong fairness. In Wallet a settler's lock, posting and commit each have their
  own condition, because a victim of a deadlock starts again from nothing.
- Renewals: strong for the sweep, which waits for rows that requests hold; weak for
  requests, which end one way or the other. The clock is not fair: `SilenceEnds` is
  about states, not about time going on.
- Bookings, Intake, Automations, Sweeps, Campaigns: weak for scheduled runs, for
  transactions that have begun, and for time. Where rows are waited for (Intake) the
  database ends a cycle, so a step stays enabled until it is taken.
- Nobody owes anything else: no customer pays or writes, no person reviews or sends a
  campaign, no webhook arrives and no fault happens under any fairness.

## What the checks found

Two disagreements between the code and its own words, each with a run and a trace.

1. `sync_open_links` compares the gateway's answers with copies loaded at its start
   (links.py:469, 520): a check by hand in between records an advance, the sweep
   records it again (`payment_links_twice`).
2. Only the WhatsApp payment confirms a held appointment (webhooks.py:647); one paid by
   link or recorded by hand is released as unpaid (deposits.py:262;
   `bookings_released`).

### Also seen, without a run of its own

Read while modelling. Those marked * are allowed by a property of a module, which would
be violated without the allowance.

Queue, replies, ingest:

- `reclaim_stalled` ignores `attempts` (queue.py:167): a job that kills its worker is
  tried past `max_attempts` for ever.*
- The worker reads pending drafts unlocked and writes `superseded` later
  (respond.py:413-420), and the expiry sweep writes `expired` (respond.py:725), over a
  draft an approval has sent meanwhile; draft.py:68-69 describes the status as one of a
  draft nobody acted on. In `act` mode the reply to an older message still goes out when
  a newer one arrives during the AI call (respond.py:399).
- A duplicate that meets the unique index rolls back the messages stored before it in
  its delivery (ingest.py:170-172, resolver.py:109), which WhatsApp will not send again.*
  After a lost race for an identity WhatsApp's task loses the rest too: the rollback
  expires the connection row that its log line reads (webhooks.py:380-383), which raises.*
- Team rules route a chat that has an owner to somebody else, though team/rules.py:16-17
  and 193-199 say it stays with the owner.*

Money:

- Links of a disconnected business are passed over without a mark (links.py:533-535), so
  they stay at the head of the order: `SYNC_BATCH` (200) of them, and no other business's
  payments are noticed by the sweep, though it says "Ask the gateway about every open
  link" (links.py:518). Only `CHECK_WINDOW` (8 days, not modelled) ends it. Without its
  second disjunct `PaymentIsNoticed` is violated by just this.*
- One `rent_short_since` flag serves all numbers of a wallet (wallet.py:153): the number
  looked at last decides whether calls are off. Balance is checked before a number is
  bought and not after (voice_provisioning.py:524). A transaction that writes usage and
  lasts longer than `SETTLE_LAG` (wallet.py:31; relay.py:1213 waits for two model
  replies before it commits) would never be charged.
- Two receipts from copies of the same old amount lose one (commitment_payments.py:72
  against its docstring, 11-13); two senders of one fee send two links (links.py:379
  against 297-298); a send that is rolled back leaves the customer a link nobody asks
  the gateway about (links.py:228).
- A payment that confirms an appointment cancelled meanwhile is refused by the index when
  another has the slot, and its receipt is rolled back with it (deposits.py:205).
- The billing sweep's copies of subscriptions (service.py:299) can pause a plan that was
  just paid for ("off until paid", payments.py:105). A renewal in flight that fails after
  a new checkout makes the fresh plan past due and it is debited again; one that fails
  after the backstop paused the plan makes it past due once more. Notice can be given
  less than 48 hours before the debit after missed sweeps or a late resume
  (service.py:10-11).

Sweeps, automations, campaigns:

- An alert for an escalation nobody acknowledged is repeated after a lost run
  (escalation_failsafe.py:162-167)*; a reminder can be skipped for good, against
  reminders.py:31-33*; recall.py:4-8 ("simply picked up again next run") holds only
  inside its window*. `notify._send` calls `ingest`, whose rollback would drop the
  markers set so far; only three providers' error classes are caught in loops.
  `due_for_call` does not ask whether the order is still pending; reply-time checks skip
  the hand-off when a poll comes at twice the target; `fire_date_triggers` keeps no
  marker; interval timers restart with the process.
- `run_due_steps` says a crash cannot repeat a step (post_call_actions.py:873-875), but
  commits all of them at its end*; of two starts that overlap, the later commit may put an
  older time back into the marker (post_call_actions.py:659)*; an event whose marker meets
  the unique key is rolled back with it, though `fire_safely` says the thing that already
  happened stands*; a rule deleted during a sweep ends the sweep*.
- Nothing resumes a campaign the limit paused (campaign.py:48 "resumes tomorrow",
  campaigns.py:491-494 "so tomorrow it continues"), and a recipient held back who then
  leaves the audience keeps it paused (campaigns.py:584, 713). Two senders at once spend
  the day's limit twice (campaigns.py:550)*. The limit is counted from midnight UTC
  (audience.py:368), though the comment there says Meta's is per rolling day
  (audience.py:361): one sender before and after midnight reaches up to twice the limit
  within hours, and that is all `WithinTierByCalendarDay` promises of two days*. A reply
  that is committed between the question of `stop_if` (post_call_actions.py:740, 909) and
  the sending (774, 945) does not stop the step*. A reply to a campaign counts only when it came since the
  step before (sequencer.py:233-234), not "at any point" (campaign.py:221-223).
- A call campaign sent twice dials everybody twice (call_campaigns.py:318-352 does not
  read again after its lock), and a hang-up that arrives before the worker's commit is
  lost (outbound.py:485).

## What is proved

TLAPS proves the following for all values of the constants: every type invariant, every
safety invariant and every action property that a passing run checks, and the four refinements
(of JobContract, WalletLedger, SlotCalendar and CampaignSequence).
Some of the modules with proofs are about two components, which is why PaymentLinks and
Intake call their formulas `LinkSpec`, `IntakeNext` and so on. For each component the type
invariant is proved first, with what else its steps need to be typed.

Where a property counts things (answers, debits, messages), it is stated without a fold, as
a cardinality, a sequence or a quantifier; where the code keeps an order (who was given a
chat longest ago, which link was checked longest ago), the order is a set of pairs. Both
are so that the provers can reason about them without induction over data.

**JobQueueProofs**, from `JobQueueAssumption`:

- `GivesUpLate`: `GivesUpOnlyWhenExhausted`, whatever handlers overrun. By itself it is
  not inductive, as `Fail` decides on the attempts it loaded; `AttemptsInv` adds that
  these are never ahead of the row's, since `attempts` only grows.
- `HandlersOwnTheirRows`, `OneWorkerPerJob`, `FinishedStaysFinished` and
  `QueueImplementsContract` assume `~Overruns`: no handler outlives `STALL_AFTER`, as
  the comment on it says ("Longer than the slowest job", queue.py:32-33). `ClaimInv`
  adds to `HeldRowIsOurs` that the lock on a held row is not older than `STALL_AFTER`;
  so no held row is stalled or ready (`HeldIsNotStalled`), and each step of a worker
  concerns a row that is its own. The refinement is then one step per action: reclaim
  puts back orphans only, an end is judged on the row's own attempts, and time and
  processes stutter. Without the assumption these properties are false of the code: a
  job taken back while its handler still runs has two.

The same module, from Intake's assumptions:

- `IntakeTypesAreKept`, with `PlaceInv`: a task at work is at a message of its delivery.
- `DoneIsStored`: `StoredFor` says of each task what it has stored in its session, or found
  stored, of the messages between its last lost race and the one it is at; only the commit
  turns one into the other, and nothing unstores a message.
- `ChatsStayWithTheirPeople`: the owner is judged on a copy, so the argument is the row
  lock. `HeldBy` and `HeldApart` say a task past the insert has its customer's row locked,
  and no two lock the same; `GivenBy` that an owner in a session's changes is of a chat the
  session has locked and that nobody has, which no drafting job or person can change until
  the lock is released. Only without team rules: with them the code moves chats (see above).

**ReplyDraftsProofs**, from `ReplyDraftsAssumption`:

- `MessagesAreAnsweredOnce`: for any number of messages, drafts, workers and people, one of a
  kind reaches the customer and two more for each fault. `DraftInv` keeps the actors apart:
  an uncommitted row belongs to the one transaction that inserted it, an approval holds its
  draft locked and pending, a running job has one worker. `Balanced` then counts, per
  message and kind: what was received, plus the drafts that can still be sent (`Open`), plus
  one while the job may still make a draft. Every step moves one between the three, and
  only a fault adds: a lost answer to a send that took effect, and the retry of its job.

**WalletProofs**, from `WalletAssumption` (positive prices, finitely many calls,
distinct names):

- `LedgerAlwaysAddsUp`, `AlwaysPostedOnce`, `RentNeverEverOverdraws`. The committed
  wallet's properties are not inductive, since it is replaced by a copy made in several
  steps. `WalletInv` asks the same, `Sound`, of both copies. Every copy comes from
  another by `post()`: `PostedSound` says one new entry keeps a wallet sound if rent is
  covered, `RentSound`, `CallsSound` and `TopUpSound` that each operation keeps that
  condition, and `NextInv` goes through the actions.
- `TopUpsAlwaysMatch`: `TopUpInv` says the committed wallet has an entry for a top-up exactly
  when the committed payment is a success, and the working copy in addition those its
  holder has credited; a settler only credits what was captured, and what it has credited it
  commits with the payments in one step or not at all.
- `UsageIsChargedOnce`: `UsageInv` says both copies are `Settled`: each usage row up to the
  watermark is in exactly one charge, none after it is in any, and a charge costs what its
  rows do. It also keeps the watermark `Lag` behind the clock, and a run's cutoff as well, so
  a row committed within the lag never falls behind a watermark that has passed it.
- `WalletIsALedger`: the refinement. `GrownInv` says the holder's copy continues the
  committed wallet: it was made under the row lock, and `post()` only adds at the end. With
  `Sound` and `TopUpInv` before and after, a commit is one step of the ledger however many
  entries it brings, a capture is a capture, and everything else a stutter. That nothing is
  taken out and that a captured payment and its top-up become visible together follow.

**BookingsProofs**, from `BookingsAssumption`:

- `SlotsAreKept`, `ConfirmedIsPaid`, `OnTimeIsKept`. `CommitEffect` first reduces the
  commits to one `Effect`: at most one row becomes another that the index lets through.
  `OneLivePerSlot` is then inductive by itself, being what the index compares. The two
  properties about deposits are not, as a commit writes what it decided when it loaded:
  `HoldInv` adds, for each transaction under way, what it may rely on at its commit (a
  marked appointment that has a deposit was paid for, a webhook's payment was made, a
  booking's row is nobody else's) and, for each appointment, that what the sweep has
  read is late for good, while what was confirmed in time neither is nor waits any more.
- `BookingsAreACalendar`: the refinement, from `CommitEffect` and `HoldInv`. `ShownInv` adds
  what the calendar can see: an appointment that exists has a slot, one that does not has no
  deposit, and what is being booked or moved has a slot to go to. Each commit is then one
  hold, confirmation, move or cancellation, or a stutter; the sweep a release; a payment
  itself.

**SweepsProofs**, for any job of the shape, from `KindsAssumption` and `BoundAssumption`:

- `RepeatsOnlyAfterALoss`: `RunInv` says each message has its marker in the database, in
  the run's session, or counted as lost, and that a row still to come to has none.
- `ReachedWhileRoomy`: the window argument. As long as a row was not read, the next run
  is due at most `(missed + 1)` periods after the row's window opened, one more while a
  run is on that did not read it; so a window at least that wide is still open then. A
  run that starts late is counted as missed, and a crash in the middle of a run counts
  as two, for the run and for the time it took.

The same module, from `PaymentLinksAssumption`:

- `LinkTypesAreKept`: also that `rota` and each run's list stay orders, and that a
  transaction asks only about links there are and makes one at most (`WorkOf`).
- `PaidLinksAreBooked`: a commit writes the columns that changed in its copy, so status and
  amount of a row can come from different transactions. `Books` says of the row and of every
  copy that a status of paid comes with all of the money and that money is all or nothing;
  `KeptOf` that a copy loaded with money keeps it, as the row does. What comes from outside
  is true when it is used: a link being sent has no price yet (`SendOf`), an answer about a
  paid link stays true since a paid link stays paid (`AnswerOf`).

**RenewalsProofs**, from `RenewalsAssumption` and `NoneAssumption`, for any periods and
bounds:

- `DebitsAreAnnounced`: what is debited is the mandate and the day PayU was told of. The
  difficulty is the stale copy: by the time the sweep commits, requests have written the
  row. `RunInv` says what a run may hold: what it changed it has locked, what it settled
  it holds. `NoticeInv` says the row, the copy, and what a commit of the dirty columns
  would make of the two (`Fits`) are each announced: a new date in the copy comes only
  from what the run itself settled or asked, so it differs from any date announced
  before; and a notice that is set in the row means nobody else wrote it since the load.
- `TriesAreLimited`: at most `MaxAttempts` debits between two months paid for, and one
  more for each run lost. `TriesInv` counts: a debit asked locks the row until its run
  ends, and after the last attempt either a debit is in flight and the notice is gone,
  or nothing is due any more.
- `OneDebitAtATime`: `FlightInv`. A debit without a row was made by a run that is under way
  or lost, so there are at most as many of the latter as lost runs; and no two rows are
  pending, since as long as a run has a debit of its own no committed one is (`TriesInv`).

**CampaignsProofs**, from `CampaignsAssumption`:

- `NobodyIsReachedTwice`: `RequestInv` says that at most one request is past the
  campaign's lock and sends only to people not reached; `SweepInv` that the sweep sends
  only to people in the sequence, whom the campaign has reached (`ChainInv`, `OneStep`);
  so no two transactions meet at a row, and `Counted` adds up: a message was stored, or
  is in one open transaction, or was lost with a fault.
- `TheLimitIsKept`: that a calendar day stays within the limit and two days, and so any
  rolling one, within twice the limit. `LeftInv` and `TierInv`. Unless two counted at once, only one
  transaction has anything left, and what it has left fits into the day beside what
  everybody was sent, committed or not.
- `CampaignIsASequence`: the refinement. `SeenInv` says that what is recorded as sent, or
  will be at a commit under way, was received. With `RequestInv` and `SweepInv`, which say
  whose turn it is in the committed rows however old a transaction's own view, every action
  is one of four (`Quiet`, `Sends`, `Loses`, `Stores`) and each of these a step of the
  sequence.

**AutomationsProofs**, from `SetupAssumption` (chains have steps, and something can happen),
`TimeAssumption` and `NameAssumption`:

- `StepsArePerformedOnce`: `OwnInv` and `SweepInv` say where a chain's next step is, in the
  event's transaction, in the sweep's or in the waiting row, and that it is beyond every
  step in the log and in the transaction. A step repeated after a lost transaction is
  counted once, as the log counts it.
- `ChainsStopForReplies`: a step that `stop_if` covers comes to its gate only if no reply
  was committed since the chain's first wait, and is performed from nowhere else. `SinceInv` says a pause carries the time of the chain's first wait
  from row to transaction and back, which is what the reply's time is compared with.
- `ReentryIsKept`: `MarkerInv` says the marker of a rule is the time of a start that no other
  start of the rule has seen, `StartInv` that a start is `reentry_days` after the last of
  those it saw. Of two starts that overlap neither saw the other, and of them nothing is
  promised.

Only model-checked: liveness (`EveryJobSettles`, `EveryMessageIsHandled`, `PaymentIsNoticed`,
`EveryHoldEnds`, `CaptureIsCredited`, `EveryDeliveryEnds`, `EveryWaitEnds`,
`EveryRowIsReached`, `SilenceEnds`, `EveryStepIsDecided`), which depends on fairness and so on
ENABLED, out of reach of the provers. The two properties of the runs that expect a
violation are false, and so have no proof.

## Assumptions worth knowing

- A handler of the queue ends within `STALL_AFTER` (JobQueue with `Overruns = FALSE`).
- A usage row is committed within `SETTLE_LAG` of the time it carries (wallet.py:30-31).
- PayU captures nothing once the code has stopped waiting for a payment, which takes
  days; a debit it refused, or answered unreadably, it did not take.
- A gateway takes no part payments on a link, as `create_link` asks for none.
- One scheduler: a sweep never overlaps with itself (scheduler.py:28-29).
- One business, doctor, customer or campaign per module: rows of others are never read
  or written by these actions, except for the locks a sweep holds over several
  businesses, which Wallet does not show.
- In Campaigns the day's limit is used by this campaign alone and counted by calendar day
  as the code counts it, WhatsApp stays connected,
  all steps wait equally long, and a reply that comes before the commit of the message
  it answers counts as one right after it. Days are counted from each person's latest
  message.
- In Automations one customer; the time of day decides quiet hours for everybody.

## What is not modelled

The parts the plan below lists, and for good: provider clients (a step that may fail
before or after it took effect), what a language model answers (a free choice),
prompts, presentation, read-only views, settings of a single row, log lines, and the
legacy voice code. `PROJECT.json` says of each component what is left out of it.

## Plan

Done since the plan was first written: Renewals, Intake, the sweeps' common shape,
automations, campaigns. Next, most important first:

1. **Call campaigns**: a job of JobContract per person, the provider's callback against
   the worker's commit; to be composed with JobContract.
2. **Tokens**: numbering under the unique index with its limited retries, shift open
   and close.
3. **Outbound webhooks**: the failure count and the disabling of an endpoint, over
   JobContract.
4. **Orders**: an order between the chat, the shop and the payment.
5. **Identity**: merging two customers while messages arrive.
6. **Voice**: the tasks of one call over its queues, interruption and hang-up; usage
   written within the lag.
7. **Auth**: rotation of sessions, one-time codes.

Proofs to come: the dues of PaymentLinks as a ledger in which each receipt counts once,
which holds but for receipts recorded twice or lost, as told above; and, when they are modelled, that call
campaigns and outbound webhooks keep JobContract's promises to those who enqueue.
