---------------------------- MODULE ReplyDrafts ----------------------------
(***************************************************************************)
(* One customer's text conversation: the drafting worker                   *)
(* (services/workers/respond.py), the people approving and rejecting its   *)
(* drafts (services/api/routers/approvals.py), the send both share         *)
(* (shared/channels/send_draft.py) and the expiry sweep.                   *)
(*                                                                         *)
(* Messages are numbered in the order they arrived.  A worker's transaction*)
(* spans its whole job: it reads the pending drafts, marks them superseded *)
(* at the next flush (taking their row locks), waits for the AI, inserts a *)
(* draft, perhaps sends it, and commits.  An approval takes the row lock of*)
(* one draft, checks it, sends, and commits.  The ORM writes status by     *)
(* primary key, so a writer that waited for a lock overwrites what the     *)
(* holder left.                                                            *)
(*                                                                         *)
(* The job queue is what JobContract says of it.  delivered counts what    *)
(* the customer really got, which no row of the database knows.            *)
(***************************************************************************)
EXTENDS Naturals, FiniteSets

CONSTANTS
    Workers,        \* respond workers (one container in docker-compose.prod.yml)
    People,         \* requests of people using the approvals screen
    None,
    Modes,          \* the autonomy settings the owner may choose
    MaxMessages,    \* bound: messages the customer sends
    MaxDrafts,      \* bound: draft rows
    MaxAttempts,    \* Job.max_attempts
    MaxFaults       \* bound: crashes, failed calls and late exceptions together

ASSUME ReplyDraftsAssumption ==
    /\ Workers \intersect People = {}
    /\ None \notin Workers \union People
    /\ Modes \subseteq {"observe", "draft", "conditional", "act"}
    /\ MaxMessages \in Nat /\ MaxDrafts \in Nat /\ MaxAttempts \in Nat /\ MaxFaults \in Nat

Messages == 1 .. MaxMessages
Drafts == 1 .. MaxDrafts

VARIABLES
    arrived,        \* how many messages have arrived
    shut,           \* the messages whose 24-hour window has closed
    job,            \* the draft_reply job of each message
    tries,          \* its attempts
    made,           \* how many draft rows were inserted, rolled back ones included
    status,         \* MessageDraft.status as committed; "none" before that
    about,          \* MessageDraft.in_reply_to
    kind,           \* "reply", "escalate", or "line" (holding or emergency line)
    lock,           \* the transaction holding each draft's row lock
    worker,         \* each worker's transaction
    person,         \* each approving person's transaction
    sweep,          \* the drafts the expiry sweep has read, {} when it is not running
    delivered,      \* how often the text of each draft reached the customer
    faults

conversation == <<arrived, shut>>
queue == <<job, tries>>
rows == <<made, about, kind>>
vars == <<conversation, queue, rows, status, lock, worker, person, sweep, delivered, faults>>

Kinds == {"reply", "escalate", "line"}
Statuses == {"none", "pending", "sent", "rejected", "expired", "superseded"}
Idle == [at |-> "idle", msg |-> 0, mode |-> "observe", stale |-> {}, fresh |-> {},
         out |-> 0, sent |-> {}]
AtDesk == [at |-> "idle", draft |-> 0]

TypeOK ==
    /\ arrived \in 0 .. MaxMessages
    /\ shut \subseteq Messages
    /\ job \in [Messages -> {"absent", "pending", "running", "done", "failed"}]
    /\ tries \in [Messages -> Nat]
    /\ made \in 0 .. MaxDrafts
    /\ status \in [Drafts -> Statuses]
    /\ about \in [Drafts -> 0 .. MaxMessages]
    /\ kind \in [Drafts -> Kinds]
    /\ lock \in [Drafts -> Workers \union People \union {None}]
    /\ worker \in [Workers -> [
            at : {"idle", "open", "supersede", "think", "hold", "send", "tail", "commit", "fail"},
            msg : 0 .. MaxMessages, mode : Modes \union {"observe"},
            stale : SUBSET Drafts, fresh : SUBSET Drafts, out : 0 .. MaxDrafts,
            sent : SUBSET Drafts]]
    /\ person \in [People -> [at : {"idle", "send", "commit"}, draft : 0 .. MaxDrafts]]
    /\ sweep \subseteq Drafts
    /\ delivered \in [Drafts -> Nat]
    /\ faults \in 0 .. MaxFaults

Init ==
    /\ arrived = 0
    /\ shut = {}
    /\ job = [m \in Messages |-> "absent"]
    /\ tries = [m \in Messages |-> 0]
    /\ made = 0
    /\ status = [d \in Drafts |-> "none"]
    /\ about = [d \in Drafts |-> 0]
    /\ kind = [d \in Drafts |-> "reply"]
    /\ lock = [d \in Drafts |-> None]
    /\ worker = [w \in Workers |-> Idle]
    /\ person = [p \in People |-> AtDesk]
    /\ sweep = {}
    /\ delivered = [d \in Drafts |-> 0]
    /\ faults = 0

-----------------------------------------------------------------------------
(***************************************************************************)
(* The customer, the clock and the owner                                   *)
(***************************************************************************)

\* Ingest stores the message and its job in one transaction.
Arrive ==
    /\ arrived < MaxMessages
    /\ arrived' = arrived + 1
    /\ job' = [job EXCEPT ![arrived + 1] = "pending"]
    /\ UNCHANGED <<shut, tries, rows, status, lock, worker, person, sweep,
                   delivered, faults>>

\* The 24 hours after a message are over; older messages' windows close first.
WindowCloses(m) ==
    /\ m <= arrived
    /\ m \notin shut
    /\ \A older \in 1 .. m - 1 : older \in shut
    /\ shut' = shut \union {m}
    /\ UNCHANGED <<arrived, queue, rows, status, lock, worker, person, sweep,
                   delivered, faults>>

-----------------------------------------------------------------------------
(***************************************************************************)
(* The worker                                                              *)
(***************************************************************************)

At(w, place) == worker[w].at = place

Move(w, place) == worker' = [worker EXCEPT ![w].at = place]

\* Claim the job and commit that: nothing is locked while the handler runs.
Claim(w) ==
    /\ At(w, "idle")
    /\ \E m \in Messages :
        /\ job[m] = "pending"
        /\ job' = [job EXCEPT ![m] = "running"]
        /\ tries' = [tries EXCEPT ![m] = @ + 1]
        /\ worker' = [worker EXCEPT ![w] = [Idle EXCEPT !.at = "open", !.msg = m]]
    /\ UNCHANGED <<conversation, rows, status, lock, person, sweep, delivered, faults>>

Newer(m) == arrived > m

\* Nothing to draft: not answerable text, answered by a fixed rule, a private or
\* inactive customer, the plan stopped (all inputs here), only watching, or a newer
\* message exists.
Skip(w) ==
    /\ At(w, "open")
    /\ Move(w, "commit")
    /\ UNCHANGED <<conversation, queue, rows, status, lock, person, sweep, delivered, faults>>

\* A draft row is flushed: known to this transaction only.
Insert(w, k, place) ==
    /\ made < MaxDrafts
    /\ made' = made + 1
    /\ about' = [about EXCEPT ![made + 1] = worker[w].msg]
    /\ kind' = [kind EXCEPT ![made + 1] = k]
    /\ worker' = [worker EXCEPT ![w].at = place, ![w].out = made + 1,
                                ![w].fresh = @ \union {made + 1}]

\* _answer_emergency: its line goes out before any draft, whatever the setting.
Emergency(w) ==
    /\ At(w, "open")
    /\ Insert(w, "line", "send")
    /\ UNCHANGED <<conversation, queue, status, lock, person, sweep, delivered, faults>>

\* Everything still pending for this customer, whatever message it answers.
PendingBefore(m) == {d \in Drafts : status[d] = "pending"}

\* The guards before the draft, and the SELECT of what is pending: no row is locked.  The
\* owner may have set autonomy to any of Modes until it is read here.
Begin(w) ==
    /\ At(w, "open")
    /\ ~Newer(worker[w].msg)
    /\ \E autonomy \in Modes \ {"observe"} :
        worker' = [worker EXCEPT ![w].at = "supersede", ![w].mode = autonomy,
                                 ![w].stale = PendingBefore(worker[w].msg)]
    /\ UNCHANGED <<conversation, queue, rows, status, lock, person, sweep, delivered, faults>>

\* The next query flushes the superseded marks: UPDATEs by primary key, each waiting
\* for whoever holds its row, which it then keeps until the commit.
Supersede(w) ==
    /\ At(w, "supersede")
    /\ LET left == {d \in worker[w].stale : lock[d] # w} IN
        \/ /\ left = {}
           /\ Move(w, "think")
           /\ UNCHANGED lock
        \/ \E d \in left :
            /\ \A e \in left : d <= e
            /\ lock[d] = None
            /\ lock' = [lock EXCEPT ![d] = w]
            /\ UNCHANGED worker
    /\ UNCHANGED <<conversation, queue, rows, status, person, sweep, delivered, faults>>

\* The AI, or the fixed acknowledgement, answers: nothing to say, an error, a
\* reply, or a message for a person.  act sends; conditional sends what the gate
\* allows; every other reply waits.
Think(w) ==
    /\ At(w, "think")
    /\ \/ Move(w, "commit") /\ UNCHANGED rows
       \/ Move(w, "fail") /\ UNCHANGED rows
       \/ Insert(w, "reply", "send") /\ worker[w].mode \in {"act", "conditional"}
       \/ Insert(w, "reply", "commit") /\ worker[w].mode # "act"
       \/ /\ made + 2 <= MaxDrafts   \* the bound leaves room for the holding line
          /\ Insert(w, "escalate", "hold") /\ worker[w].mode = "act"
       \/ Insert(w, "escalate", "tail") /\ worker[w].mode # "act"
    /\ UNCHANGED <<conversation, queue, status, lock, person, sweep, delivered, faults>>

\* In act mode a holding line goes out while a person follows up.
Hold(w) ==
    /\ At(w, "hold")
    /\ Insert(w, "line", "send")
    /\ UNCHANGED <<conversation, queue, status, lock, person, sweep, delivered, faults>>

\* send_draft.  The provider takes the text; or refuses it (DraftSendError: the draft
\* is left pending); or cannot be reached, or takes it and its answer is lost, either
\* of which is another exception and fails the job.
Send(w) ==
    /\ At(w, "send")
    /\ LET d == worker[w].out IN
        \/ /\ delivered' = [delivered EXCEPT ![d] = @ + 1]
           /\ worker' = [worker EXCEPT ![w].at = "tail", ![w].sent = @ \union {d}]
           /\ UNCHANGED faults
        \/ Move(w, "tail") /\ UNCHANGED <<delivered, faults>>
        \/ /\ faults < MaxFaults
           /\ faults' = faults + 1
           /\ delivered' \in {delivered, [delivered EXCEPT ![d] = @ + 1]}
           /\ Move(w, "fail")
    /\ UNCHANGED <<conversation, queue, rows, status, lock, person, sweep>>

\* What follows a send (the catalog) or an escalation (its notices) ends well or raises.
Tail(w) ==
    /\ At(w, "tail")
    /\ \/ Move(w, "commit") /\ UNCHANGED faults
       \/ faults < MaxFaults /\ faults' = faults + 1 /\ Move(w, "fail")
    /\ UNCHANGED <<conversation, queue, rows, status, lock, person, sweep, delivered>>

Release(holder) == lock' = [d \in Drafts |-> IF lock[d] = holder THEN None ELSE lock[d]]

\* The statuses a commit of everything w flushed leaves behind.
Flushed(w) ==
    [d \in Drafts |-> CASE d \in worker[w].stale -> "superseded"
                        [] d \in worker[w].sent -> "sent"
                        [] d \in worker[w].fresh \ worker[w].sent -> "pending"
                        [] OTHER -> status[d]]

End(w) ==
    /\ status' = Flushed(w)
    /\ Release(w)
    /\ worker' = [worker EXCEPT ![w] = Idle]
    /\ UNCHANGED <<conversation, tries, rows, person, sweep, delivered, faults>>

\* queue.complete and the loop's commit.
Commit(w) ==
    /\ At(w, "commit")
    /\ job' = [job EXCEPT ![worker[w].msg] = "done"]
    /\ End(w)

\* queue.fail and the loop's commit: _run_job rolls nothing back, so what the failed
\* attempt flushed is committed with its failure.
Fail(w) ==
    /\ At(w, "fail")
    /\ LET m == worker[w].msg IN
        job' = [job EXCEPT ![m] = IF tries[m] >= MaxAttempts THEN "failed" ELSE "pending"]
    /\ End(w)

\* The process dies, or the commit fails: what was flushed is rolled back, what was
\* sent is not, and the job stays running until it is reclaimed.
Crash(w) ==
    /\ ~At(w, "idle")
    /\ faults < MaxFaults
    /\ faults' = faults + 1
    /\ Release(w)
    /\ worker' = [worker EXCEPT ![w] = Idle]
    /\ UNCHANGED <<conversation, queue, rows, status, person, sweep, delivered>>

\* Mutant: a job that used its last attempt is left where it is.
Mutant_ReclaimUnlessSpent(m) ==
    /\ job[m] = "running"
    /\ tries[m] < MaxAttempts
    /\ \A w \in Workers : worker[w].msg # m
    /\ job' = [job EXCEPT ![m] = "pending"]
    /\ UNCHANGED <<conversation, tries, rows, status, lock, worker, person, sweep,
                   delivered, faults>>

\* reclaim_stalled, for the one queue.
Reclaim(m) ==
    /\ job[m] = "running"
    /\ \A w \in Workers : worker[w].msg # m
    /\ job' = [job EXCEPT ![m] = "pending"]
    /\ UNCHANGED <<conversation, tries, rows, status, lock, worker, person, sweep,
                   delivered, faults>>

-----------------------------------------------------------------------------
(***************************************************************************)
(* People and the expiry sweep                                             *)
(***************************************************************************)

\* Mutant: the draft is read without with_for_update.
Mutant_OpenForReviewUnlocked(p, d) == status[d] = "pending" /\ UNCHANGED lock

\* _owned(lock=True): wait for the row, read it, and refuse it unless pending.
OpenForReview(p, d) ==
    /\ lock[d] = None
    /\ status[d] = "pending"
    /\ lock' = [lock EXCEPT ![d] = p]

\* approve() up to the send.  Its refusals (not pending, window closed, plan stopped,
\* a teammate's customer) change nothing: the expired mark it sets is rolled back by
\* the exception it raises.
Approve(p, d) ==
    /\ person[p].at = "idle"
    /\ about[d] \notin shut
    /\ OpenForReview(p, d)
    /\ person' = [person EXCEPT ![p] = [at |-> "send", draft |-> d]]
    /\ UNCHANGED <<conversation, queue, rows, status, worker, sweep, delivered, faults>>

LeaveDesk(p) == person' = [person EXCEPT ![p] = AtDesk]

\* The text is taken; or refused (rolled back, 400); or its answer is lost (rolled
\* back, 500).
ApproveSend(p) ==
    /\ person[p].at = "send"
    /\ LET d == person[p].draft IN
        \/ /\ delivered' = [delivered EXCEPT ![d] = @ + 1]
           /\ person' = [person EXCEPT ![p].at = "commit"]
           /\ UNCHANGED <<lock, faults>>
        \/ Release(p) /\ LeaveDesk(p) /\ UNCHANGED <<delivered, faults>>
        \/ /\ faults < MaxFaults
           /\ faults' = faults + 1
           /\ delivered' = [delivered EXCEPT ![d] = @ + 1]
           /\ Release(p)
           /\ LeaveDesk(p)
    /\ UNCHANGED <<conversation, queue, rows, status, worker, sweep>>

\* Mutant: the draft is left as approved.
Mutant_ApproveCommitApproved(p) ==
    /\ person[p].at = "commit"
    /\ status' = [status EXCEPT ![person[p].draft] = "approved"]
    /\ Release(p)
    /\ LeaveDesk(p)
    /\ UNCHANGED <<conversation, queue, rows, worker, sweep, delivered, faults>>

\* get_db commits; or the API dies between the send and the commit.
ApproveCommit(p) ==
    /\ person[p].at = "commit"
    /\ \/ /\ status' = [status EXCEPT ![person[p].draft] = "sent"]
          /\ UNCHANGED faults
       \/ faults < MaxFaults /\ faults' = faults + 1 /\ UNCHANGED status
    /\ Release(p)
    /\ LeaveDesk(p)
    /\ UNCHANGED <<conversation, queue, rows, worker, sweep, delivered>>

\* reject() makes no call outside the database: one step.
Reject(p, d) ==
    /\ person[p].at = "idle"
    /\ lock[d] = None
    /\ status[d] = "pending"
    /\ status' = [status EXCEPT ![d] = "rejected"]
    /\ UNCHANGED <<conversation, queue, rows, lock, worker, person, sweep, delivered, faults>>

\* expire_stale_drafts: a SELECT without locks, then the UPDATEs of its commit.
SweepRead ==
    /\ sweep = {}
    /\ sweep' = {d \in Drafts : status[d] = "pending" /\ about[d] \in shut}
    /\ sweep' # {}
    /\ UNCHANGED <<conversation, queue, rows, status, lock, worker, person, delivered, faults>>

SweepWrite ==
    /\ sweep # {}
    /\ \A d \in sweep : lock[d] = None
    /\ status' = [d \in Drafts |-> IF d \in sweep THEN "expired" ELSE status[d]]
    /\ sweep' = {}
    /\ UNCHANGED <<conversation, queue, rows, lock, worker, person, delivered, faults>>

-----------------------------------------------------------------------------
WorkerStep(w) ==
    \/ Skip(w) \/ Emergency(w) \/ Begin(w) \/ Supersede(w) \/ Think(w) \/ Hold(w)
    \/ Send(w) \/ Tail(w) \/ Commit(w) \/ Fail(w)

Next ==
    \/ Arrive
    \/ \E m \in Messages : WindowCloses(m) \/ Reclaim(m)
    \/ \E w \in Workers : Claim(w) \/ WorkerStep(w) \/ Crash(w)
    \/ \E p \in People :
        \/ \E d \in Drafts : Approve(p, d) \/ Reject(p, d)
        \/ ApproveSend(p) \/ ApproveCommit(p)
    \/ SweepRead \/ SweepWrite

Spec == Init /\ [][Next]_vars

\* Workers loop and are restarted, the reclaim is scheduled, provider calls time out
\* so requests end.  A transaction that waits for a row is served before those that
\* come after it (Postgres queues them), hence SF where locks are taken.  Nothing makes
\* people review, customers write or windows close.
Fairness ==
    /\ \A w \in Workers : WF_vars(Claim(w)) /\ SF_vars(WorkerStep(w))
    /\ \A p \in People : WF_vars(ApproveSend(p)) /\ WF_vars(ApproveCommit(p))
    /\ \A m \in Messages : WF_vars(Reclaim(m))
    /\ WF_vars(SweepRead) /\ SF_vars(SweepWrite)

FairSpec == Spec /\ Fairness

-----------------------------------------------------------------------------
(***************************************************************************)
(* Properties                                                              *)
(***************************************************************************)

\* What the customer got of kind k about message m: each draft, once for each time its text
\* came.
Received(m, k) ==
    UNION {{d} \X (1 .. delivered[d]) : d \in {e \in Drafts : about[e] = m /\ kind[e] = k}}

\* Over all drafts, of all attempts, a message gets one reply, one handed-over answer and one
\* fixed line.  Two people approving at once, a worker superseding and a sweep expiring never
\* repeat it; an answer, commit or process that was lost may twice, by the retry and by an
\* approval of the draft it left pending.
AnsweredOnce == \A m \in Messages, k \in Kinds : Cardinality(Received(m, k)) <= 1 + 2 * faults

\* Every message's job ends, whatever locks approvals hold and whatever crashes.
EveryMessageIsHandled ==
    \A m \in Messages : (job[m] # "absent") ~> (job[m] \in {"done", "failed"})
=============================================================================
