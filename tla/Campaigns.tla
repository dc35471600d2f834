----------------------------- MODULE Campaigns -----------------------------
(***************************************************************************)
(* One campaign of a business: its own message, which the owner's request  *)
(* sends to everybody in the audience (services/api/routers/campaigns.py,  *)
(* send_campaign), and the follow-up steps, which the scheduler's sweep    *)
(* sends to those the message before reached (shared/campaigns/            *)
(* sequencer.py).                                                          *)
(*                                                                         *)
(* Each of them is one transaction that lasts minutes, sends one message   *)
(* after another and commits once.  What a transaction that is rolled back *)
(* has sent stays with people, and nothing else knows of it.  The          *)
(* request looks at the campaign without a lock, then marks it as sending; *)
(* the next query writes that mark, which makes a second request wait for  *)
(* the end of the first before it reads who was reached.                   *)
(*                                                                         *)
(* Days are counted from each person's latest message, whose step fell due *)
(* after DelayDays of them.                                                *)
(***************************************************************************)
EXTENDS Integers, FiniteSets

CONSTANTS
    People,
    Requests,       \* POST /campaigns/{id}/send, each as often as the owner likes
    MaxSteps,       \* the follow-ups, CampaignStep.step_order
    Manners,        \* the campaigns of this instance, by what each step does about an answer
    DelayDays,      \* CampaignStep.delay_days
    Tier,           \* Meta's limit of people in a rolling day; the code counts from midnight, UTC
    MaxFaults       \* bound: transactions lost and answers lost

\* stop_on_reply, else the condition no_reply, else always.
Answers == {"stop", "skip", "always"}

ASSUME CampaignsAssumption ==
    /\ IsFiniteSet(People)
    /\ Manners \subseteq [1 .. MaxSteps -> Answers]
    /\ MaxSteps \in Nat /\ DelayDays \in Nat \ {0} /\ Tier \in Nat /\ MaxFaults \in Nat

Steps == 1 .. MaxSteps
Stages == 0 .. MaxSteps         \* 0 is the campaign's own message

VARIABLES
    after,      \* what each step does about people who answered; constant after Init
    status,     \* Campaign.status as committed: "sending" never is
    row,        \* for each person and stage, the committed recipient's row
    days,       \* since the latest message a row is sent for, up to DelayDays
    wrote,      \* people who wrote since the latest message a row is sent for
    known,      \* people with a committed message of today
    before,     \* history: the people messaged the day before, if they were all seen
    request,    \* the transactions of the requests
    sweep,      \* the transaction of the sweep
    blind,      \* history: today's messages were not all seen by who counted them
    got,        \* history: messages of each stage each person got
    faults

vars == <<after, status, row, days, wrote, known, before, request, sweep, blind, got, faults>>

Statuses == {"none", "pending", "failed", "skipped", "sent"}

\* left is what remains of the daily limit, fresh the messages sent since midnight.
NoWork == [c \in People |-> "none"]
Ended == [at |-> "off", todo |-> {}, left |-> 0, work |-> NoWork, fresh |-> {}]
Asleep == [at |-> "off", stage |-> 0, todo |-> {}, left |-> 0, work |-> NoWork, fresh |-> {}]

TypeOK ==
    /\ after \in Manners
    /\ status \in {"draft", "paused", "sent"}
    /\ row \in [People -> [Stages -> Statuses]]
    /\ days \in [People -> 0 .. DelayDays]
    /\ wrote \subseteq People /\ known \subseteq People /\ before \subseteq People
    /\ request \in [Requests -> [at : {"off", "wait", "send"}, todo : SUBSET People, left : Nat,
                                 work : [People -> Statuses], fresh : SUBSET People]]
    /\ sweep \in [at : {"off", "next", "send"}, stage : Stages, todo : SUBSET People, left : Nat,
                  work : [People -> Statuses], fresh : SUBSET People]
    /\ blind \in BOOLEAN
    /\ got \in [People -> [Stages -> Nat]]
    /\ faults \in 0 .. MaxFaults

Init ==
    /\ after \in Manners
    /\ status = "draft"
    /\ row = [c \in People |-> [k \in Stages |-> "none"]]
    /\ days = [c \in People |-> 0]
    /\ wrote = {} /\ known = {} /\ before = {}
    /\ request = [r \in Requests |-> Ended]
    /\ sweep = Asleep
    /\ blind = FALSE
    /\ got = [c \in People |-> [k \in Stages |-> 0]]
    /\ faults = 0

-----------------------------------------------------------------------------
(***************************************************************************)
(* People and days                                                         *)
(***************************************************************************)

Reached(k) == {c \in People : row[c][k] = "sent"}

\* Those in the sequence, each with the step they wait for.
Waiting == {x \in People \X Steps : row[x[1]][x[2] - 1] = "sent" /\ row[x[1]][x[2]] = "none"}

InSequence == {x[1] : x \in Waiting}

\* Somebody in the sequence writes.  A reply that comes before the message it answers is committed is one that
\* comes right after: nothing reads it in between.
Reply(c) ==
    /\ c \in InSequence
    /\ wrote' = wrote \union {c}
    /\ UNCHANGED <<after, status, row, days, known, before, request, sweep, blind, got, faults>>

\* The requests that have read what is left of the limit and may still send.
Sending == {r \in Requests : request[r].at # "off"}

\* The people messaged today, by rows committed or not.
Today == known \union sweep.fresh \union UNION {request[r].fresh : r \in Requests}

\* Midnight.  A transaction that goes on brings its earlier messages into yesterday.
NewDay ==
    /\ days' = [c \in People |-> IF c \in InSequence /\ days[c] < DelayDays THEN days[c] + 1
                               ELSE days[c]]
    /\ known' = {}
    /\ before' = IF blind THEN {} ELSE Today
    /\ request' = [r \in Requests |-> [request[r] EXCEPT !.fresh = {}]]
    /\ sweep' = [sweep EXCEPT !.fresh = {}]
    /\ blind' = (\E r \in Sending : sweep.at # "off" \/ Sending # {r})
    /\ UNCHANGED <<after, status, row, wrote, got, faults>>

-----------------------------------------------------------------------------
(***************************************************************************)
(* One message                                                             *)
(***************************************************************************)

\* The limit, less the people messaged today that this transaction can see (sent_today).
Left(used) == IF Cardinality(used) >= Tier THEN 0 ELSE Tier - Cardinality(used)

\* Mutant: messages of this run are not counted.
Mutant_AfterSending(tx, c) ==
    [tx EXCEPT !.todo = @ \ {c}, !.work[c] = "sent", !.fresh = @ \union {c}]

AfterSending(tx, c) ==
    [tx EXCEPT !.todo = @ \ {c}, !.work[c] = "sent", !.left = @ - 1, !.fresh = @ \union {c}]

Noted(tx, c, outcome) == [tx EXCEPT !.todo = @ \ {c}, !.work[c] = outcome]

\* The message of stage k is with c, whatever becomes of the transaction.
Delivered(c, k) == got' = [got EXCEPT ![c][k] = @ + 1]

\* The rows tx leaves in its slots, people and stages, and what follows from those sent.
Store(tx, slots) ==
    LET sent == {c \in People : tx.work[c] = "sent"}
    IN  /\ row' = [c \in People |-> [k \in Stages |->
                    IF <<c, k>> \in slots /\ tx.work[c] # "none" THEN tx.work[c] ELSE row[c][k]]]
        /\ days' = [c \in People |-> IF c \in sent THEN 0 ELSE days[c]]
        /\ wrote' = wrote \ sent
        /\ known' = known \union tx.fresh

-----------------------------------------------------------------------------
(***************************************************************************)
(* send_campaign                                                           *)
(***************************************************************************)

Set(r, tx) == request' = [request EXCEPT ![r] = tx]

\* The campaign and the day's count are read; neither is locked.
SendBegins(r) ==
    /\ request[r].at = "off"
    /\ status \in {"draft", "paused"}
    /\ Set(r, [Ended EXCEPT !.at = "wait", !.left = Left(known)])
    /\ blind' = (blind \/ Sending # {} \/ sweep.at # "off")
    /\ UNCHANGED <<after, status, row, days, wrote, known, before, sweep, got, faults>>

\* Mutant: the rows are read before the campaign's new status is written.
Mutant_CampaignIsFree == TRUE

\* Nobody else's new status waits for its commit.
CampaignIsFree == \A r \in Requests : request[r].at # "send"

\* already_sent is read, after the query's flush has locked the campaign.  Who the audience's
\* question was true of, some time before, may be anybody.
SendReads(r) ==
    /\ request[r].at = "wait"
    /\ CampaignIsFree
    /\ \E audience \in SUBSET People :
        Set(r, [request[r] EXCEPT !.at = "send", !.todo = audience \ Reached(0)])
    /\ UNCHANGED <<after, status, row, days, wrote, known, before, sweep, blind, got, faults>>

\* One recipient: held back, taken by WhatsApp, or refused.
SendOne(r, c) ==
    LET tx == request[r] IN
    /\ tx.at = "send" /\ c \in tx.todo
    /\ \/ tx.left = 0 /\ Set(r, Noted(tx, c, "pending")) /\ UNCHANGED got
       \/ tx.left > 0 /\ Set(r, AfterSending(tx, c)) /\ Delivered(c, 0)
       \/ tx.left > 0 /\ Set(r, Noted(tx, c, "failed")) /\ UNCHANGED got
    /\ UNCHANGED <<after, status, row, days, wrote, known, before, sweep, blind, faults>>

HeldBack == \E c \in People : row'[c][0] = "pending"

\* Mutant: the campaign that is held back stays as the request marked it.
Mutant_EndStatus == IF HeldBack THEN "sending" ELSE "sent"

EndStatus == IF HeldBack THEN "paused" ELSE "sent"

\* The counts are taken from the rows, and the request is over.
SendCommits(r) ==
    /\ request[r].at = "send" /\ request[r].todo = {}
    /\ Store(request[r], People \X {0})
    /\ status' = EndStatus
    /\ Set(r, Ended)
    /\ UNCHANGED <<after, before, sweep, blind, got, faults>>

\* WhatsApp cannot be reached or its answer is lost, which nothing catches; the commit fails;
\* or the process ends.  All is rolled back.
SendFails(r) ==
    /\ request[r].at = "send"
    /\ faults < MaxFaults
    /\ faults' = faults + 1
    /\ \/ UNCHANGED got
       \/ \E c \in request[r].todo : request[r].left > 0 /\ Delivered(c, 0)
    /\ Set(r, Ended)
    /\ blind' = TRUE
    /\ UNCHANGED <<after, status, row, days, wrote, known, before, sweep>>

-----------------------------------------------------------------------------
(***************************************************************************)
(* send_due_steps                                                          *)
(***************************************************************************)

\* Mutant: a campaign the limit stopped is left alone.
Mutant_FollowedUp == {"sent"}

FollowedUp == {"sent", "paused"}

\* The message before reached them long enough ago.  A sweep with nobody due changes nothing.
SweepBegins ==
    LET due == {c \in InSequence : days[c] >= DelayDays} IN
    /\ sweep.at = "off"
    /\ status \in FollowedUp /\ due # {}
    /\ sweep' = [Asleep EXCEPT !.at = "next", !.todo = due]
    /\ UNCHANGED <<after, status, row, days, wrote, known, before, request, blind, got, faults>>

\* Those of this sweep who wait for step k.
DueFor(k) == {c \in sweep.todo : <<c, k>> \in Waiting}

\* The next step somebody is due for, and the day's count, this sweep's messages included.
\* When its template is gone, nobody gets it.
SweepLooks(k) ==
    /\ sweep.at = "next"
    /\ DueFor(k) # {} /\ \A j \in 1 .. k - 1 : DueFor(j) = {}
    /\ \/ sweep' = [sweep EXCEPT !.at = "send", !.stage = k, !.left = Left(known \union sweep.fresh)]
       \/ sweep' = [sweep EXCEPT !.todo = @ \ DueFor(k), !.work =
                        [c \in People |-> IF c \in DueFor(k) THEN "failed" ELSE @[c]]]
    /\ blind' = (blind \/ Sending # {})
    /\ UNCHANGED <<after, status, row, days, wrote, known, before, request, got, faults>>

Answered(c) == c \in wrote

\* Out of the sequence; skipped, also for not being in the audience any more; held back without
\* a row; taken by WhatsApp; or refused.
SweepOne(c) ==
    LET manner == after[sweep.stage] IN
    /\ sweep.at = "send" /\ c \in DueFor(sweep.stage)
    /\ IF Answered(c) /\ manner = "stop"
       THEN sweep' = [sweep EXCEPT !.todo = @ \ {c}] /\ UNCHANGED got
       ELSE IF Answered(c) /\ manner = "skip"
       THEN sweep' = Noted(sweep, c, "skipped") /\ UNCHANGED got
       ELSE \/ sweep' = Noted(sweep, c, "skipped") /\ UNCHANGED got
            \/ /\ sweep.left = 0
               /\ sweep' = [sweep EXCEPT !.todo = @ \ {c}] /\ UNCHANGED got
            \/ /\ sweep.left > 0
               /\ \/ sweep' = AfterSending(sweep, c) /\ Delivered(c, sweep.stage)
                  \/ sweep' = Noted(sweep, c, "failed") /\ UNCHANGED got
    /\ UNCHANGED <<after, status, row, days, wrote, known, before, request, blind, faults>>

SweepTurns ==
    /\ sweep.at = "send" /\ DueFor(sweep.stage) = {}
    /\ sweep' = [sweep EXCEPT !.at = "next", !.stage = 0, !.left = 0]
    /\ UNCHANGED <<after, status, row, days, wrote, known, before, request, blind, got, faults>>

\* WhatsApp's answer to one message is lost: an exception that ends this campaign's part of the
\* sweep and keeps the rows it has so far.
SweepStumbles ==
    /\ sweep.at = "send" /\ faults < MaxFaults
    /\ faults' = faults + 1
    /\ \E c \in DueFor(sweep.stage) : sweep.left > 0 /\ (UNCHANGED got \/ Delivered(c, sweep.stage))
    /\ sweep' = [sweep EXCEPT !.at = "next", !.stage = 0, !.todo = {}, !.left = 0]
    /\ blind' = TRUE
    /\ UNCHANGED <<after, status, row, days, wrote, known, before, request>>

SweepCommits ==
    /\ sweep.at = "next" /\ sweep.todo = {}
    /\ Store(sweep, Waiting)
    /\ sweep' = Asleep
    /\ UNCHANGED <<after, status, before, request, blind, got, faults>>

SweepFails ==
    /\ sweep.at # "off" /\ faults < MaxFaults
    /\ faults' = faults + 1
    /\ sweep' = Asleep
    /\ blind' = TRUE
    /\ UNCHANGED <<after, status, row, days, wrote, known, before, request, got>>

-----------------------------------------------------------------------------
SweepStep ==
    \/ SweepBegins \/ SweepTurns \/ SweepCommits
    \/ \E k \in Steps : SweepLooks(k)
    \/ \E c \in People : SweepOne(c)

SendStep(r) == SendReads(r) \/ SendCommits(r) \/ \E c \in People : SendOne(r, c)

Next ==
    \/ NewDay
    \/ \E c \in People : Reply(c)
    \/ \E r \in Requests : SendBegins(r) \/ SendStep(r) \/ SendFails(r)
    \/ SweepStep \/ SweepStumbles \/ SweepFails

Spec == Init /\ [][Next]_vars

\* The sweep is scheduled and goes on, and days pass.  Nothing makes the owner send or people
\* write, and no request need come to its end.
FairSpec == Spec /\ WF_vars(NewDay) /\ WF_vars(SweepStep)

-----------------------------------------------------------------------------
(***************************************************************************)
(* Properties                                                              *)
(***************************************************************************)

\* "already_sent is the real fix: never touched again": nobody gets a message of the campaign
\* twice, and one more for each run that was lost, however often the owner sends, pauses,
\* resumes, clicks twice, or sends while the sweep follows up.
ReachedOnce == \A c \in People, k \in Stages : got[c][k] <= 1 + faults

Sequence == INSTANCE CampaignSequence WITH lost <- faults

\* Whoever sends, pauses, resumes and follows up at once, and whatever is rolled back: each
\* person goes through the messages one after the other; what is recorded as sent they got,
\* what is decided stays decided, and only a loss makes a message come again.
FollowsTheSequence == Sequence!SequenceSpec

\* "Stops cleanly at the daily limit", by the code's own count: the messages of a calendar
\* day exceed the limit only when two senders counted at once, or when messages were lost
\* sight of.  Meta counts "per rolling day", which is part of two calendar days: it may see
\* twice the limit, one before midnight and one after, and no more than that.
WithinTierByCalendarDay ==
    blind \/ /\ Cardinality(Today) <= Tier
             /\ Cardinality(before) + Cardinality(Today) <= 2 * Tier

\* "they stay due": whoever the message before reached gets the next, or a row that says why
\* not, unless an answer took them out of the sequence; also when the campaign is paused and
\* nobody resumes it, and when the day's limit was used up.
EveryStepIsDecided ==
    \A c \in People, k \in Steps :
        (row[c][k - 1] = "sent" /\ row[c][k] = "none")
            ~> (row[c][k] # "none" \/ (c \in wrote /\ after[k] = "stop"))
=============================================================================
